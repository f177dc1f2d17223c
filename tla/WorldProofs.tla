----------------------------- MODULE WorldProofs -----------------------------
(***************************************************************************)
(* What MCWorld composes and TLAPS proves: trades and parties stay         *)
(* consistent and offers intact for any players, items and party objects,  *)
(* records are in the database as a whole for any characters, houses and   *)
(* queries, and a search of the map finds everyone, whoever comes, goes    *)
(* and moves, for any players, beasts, spots and leaves.                   *)
(***************************************************************************)
EXTENDS World, Saving, SpectatorLists, TLAPS, FiniteSetTheorems, WellFoundedInduction,
        NaturalsInduction, SequenceTheorems

\* A set of numbers with something in it has a least one.
LEMMA LeastNumber ==
  ASSUME NEW T \in SUBSET Nat, T # {}
  PROVE  \E n \in T : \A m \in T : n <= m
<1>1. PICK n \in T : \A m \in T : ~(<<m, n>> \in OpToRel(<, Nat))
  BY WFMin, NatLessThanWellFounded
<1>2. \A m \in T : <<m, n>> \in OpToRel(<, Nat) <=> m < n
  BY DEF OpToRel
<1>3. \A m \in T : ~(m < n)
  BY <1>1, <1>2, Zenon
<1>4. QED BY <1>3

-----------------------------------------------------------------------------
(* Trades.  TradesConsistent alone is not inductive: a counter-offer       *)
(* replaces the item of a player in the state acknowledge, and a login the *)
(* trade of a player who has none, so both must be known to have nothing   *)
(* on the table (NothingForgotten).                                        *)

\* The types of what trading keeps, and of somebody with nothing on the table.
TradeTypes ==
  /\ online \subseteq Players
  /\ trade \in [Players -> [state : States, partner : Players \union {None},
                            item : Items \union {None}]]
  /\ tradeItems \in [Items -> Players \union {None}]

NothingForgotten ==
  \A p \in Players : trade[p].state \in {"none", "acknowledge"} => trade[p].item = None

TradeInv == TradeTypes /\ TradesConsistent /\ NothingForgotten

\* None is neither a player nor an item.
LEMMA NoneIsNobody == None \notin Players /\ None \notin Items
  BY OnlineAssumption, TradeAssumption

\* Nobody trades when the server starts.
LEMMA Initially == Init => TradeInv
  BY NoneIsNobody DEF Init, OnlineInit, TradeInit, Idle, States, TradeInv, TradeTypes,
     TradesConsistent, OffersTabled, PartnersAgree, NothingForgotten, Offering

\* internalCloseTrade of some players, of whom some may leave the world.
LEMMA ClosingKeeps ==
  ASSUME TradeInv, NEW S \in SUBSET Players, Closed(S), online' \subseteq online,
         \A p \in online \ online' : trade[p].partner # None => p \in S
  PROVE  TradeInv'
<1> DEFINE all == WithPartners(S) \intersect Players
<1>1. /\ trade' = [p \in Players |-> IF p \in all THEN Idle ELSE trade[p]]
      /\ tradeItems' = [i \in Items |-> IF i \in OfferOf(all) THEN None ELSE tradeItems[i]]
  BY DEF Closed
<1>2. TradeTypes /\ OffersTabled /\ PartnersAgree /\ NothingForgotten
  BY DEF TradeInv, TradesConsistent
<1>3. TradeTypes'
  <2>1. Idle \in [state : States, partner : Players \union {None}, item : Items \union {None}]
    BY DEF Idle, States
  <2> QED BY <1>1, <1>2, <2>1 DEF TradeTypes
<1>4. \A p \in Players : p \in all => trade'[p] = Idle
  BY <1>1
<1>5. \A p \in Players : p \notin all => trade'[p] = trade[p]
  BY <1>1
<1>6. \A p \in Players : trade[p].partner # None /\ p \notin all => trade[p].partner \notin all
  BY <1>2, NoneIsNobody DEF WithPartners, TradeTypes, PartnersAgree
<1>7. \A p \in S : p \in all
  BY DEF WithPartners
<1>8. OffersTabled'
  <2>1. ASSUME NEW p \in Players, Offering(p)'
        PROVE  tradeItems'[trade'[p].item] = p
    <3>1. p \notin all
      BY <2>1, <1>4 DEF Offering, Idle
    <3>2. trade'[p].item = trade[p].item /\ Offering(p) /\ trade[p].item \in Items
      BY <2>1, <3>1, <1>5, <1>2 DEF Offering, TradeTypes
    <3>3. trade[p].item \notin OfferOf(all)
      BY <3>1, <3>2, <1>2 DEF OfferOf, OffersTabled, Offering, TradeTypes
    <3> QED BY <3>2, <3>3, <1>1, <1>2 DEF OffersTabled
  <2>2. ASSUME NEW i \in Items, tradeItems'[i] # None
        PROVE  trade'[tradeItems'[i]].item = i
    <3>1. i \notin OfferOf(all) /\ tradeItems'[i] = tradeItems[i]
      BY <2>2, <1>1
    <3>2. tradeItems[i] \in Players /\ trade[tradeItems[i]].item = i
      BY <2>2, <3>1, <1>2 DEF OffersTabled, TradeTypes
    <3>3. tradeItems[i] \notin all
      BY <3>1, <3>2 DEF OfferOf
    <3> QED BY <3>1, <3>2, <3>3, <1>5
  <2> QED BY <2>1, <2>2 DEF OffersTabled
<1>9. PartnersAgree'
  <2> SUFFICES ASSUME NEW p \in Players
               PROVE  /\ (trade'[p].partner # None) <=> (trade'[p].state # "none")
                      /\ trade'[p].partner # None =>
                           /\ p \in online' /\ trade'[p].partner \in online'
                           /\ trade'[trade'[p].partner].partner = p
                      /\ trade'[p].state = "initiated" => trade'[p].item # None
    BY DEF PartnersAgree, Offering
  <2>1. CASE p \in all
    BY <2>1, <1>4 DEF Idle
  <2>2. CASE p \notin all
    <3>1. trade'[p] = trade[p]
      BY <2>2, <1>5
    <3>2. CASE trade[p].partner = None
      BY <3>1, <3>2, <1>2 DEF PartnersAgree, Offering
    <3>3. CASE trade[p].partner # None
      <4>1. /\ trade[p].partner \in Players /\ trade[p].partner \notin all
            /\ p \in online /\ trade[p].partner \in online
            /\ trade[trade[p].partner].partner = p
            /\ trade[p].state # "none"
        BY <3>3, <2>2, <1>6, <1>2 DEF TradeTypes, PartnersAgree
      <4>2. trade'[trade[p].partner] = trade[trade[p].partner]
        BY <4>1, <1>5
      <4>3. p \in online' /\ trade[p].partner \in online'
        BY <4>1, <2>2, <3>3, <1>7, NoneIsNobody
      <4>4. trade[p].state = "initiated" => trade[p].item # None
        BY <1>2 DEF PartnersAgree, Offering
      <4> QED BY <3>1, <3>3, <4>1, <4>2, <4>3, <4>4
    <3> QED BY <3>2, <3>3
  <2> QED BY <2>1, <2>2
<1>10. NothingForgotten'
  BY <1>2, <1>4, <1>5 DEF NothingForgotten, Idle
<1> QED BY <1>3, <1>8, <1>9, <1>10 DEF TradeInv, TradesConsistent
\* internalStartTrade, by the only way to it.
LEMMA RequestKeeps ==
  ASSUME TradeInv, NEW p \in Players, NEW q \in Players, NEW i \in Items, RequestTrade(p, q, i)
  PROVE  TradeInv'
<1>1. TradeTypes /\ OffersTabled /\ PartnersAgree /\ NothingForgotten
  BY DEF TradeInv, TradesConsistent
<1>2. /\ p \in online /\ q \in online /\ p # q /\ online' = online
      /\ MayStart(p, q)
      /\ tradeItems' = [tradeItems EXCEPT ![i] = p]
      /\ trade' = [trade EXCEPT
           ![p] = [state |-> "initiated", partner |-> q, item |-> i],
           ![q] = IF @.state = "none"
                    THEN [@ EXCEPT !.state = "acknowledge", !.partner = p] ELSE @]
  BY DEF RequestTrade, StartTrade
<1>3. tradeItems[i] = None
  BY DEF RequestTrade, Overlaps
\* p has nothing on the table, and q is free or already his partner
<1>4. trade[p].item = None
  BY <1>1, <1>2 DEF MayStart, NothingForgotten
<1>5. /\ trade[q].state = "none" => trade[p].state = "none"
      /\ trade[q].state # "none" => trade[q].partner = p /\ trade[p].partner = q
  BY <1>1, <1>2, NoneIsNobody DEF MayStart, PartnersAgree, TradeTypes
<1>6. trade'[p] = [state |-> "initiated", partner |-> q, item |-> i]
  BY <1>1, <1>2 DEF TradeTypes
<1>7. /\ trade'[q].partner = p /\ trade'[q].item = trade[q].item
      /\ trade'[q].state = IF trade[q].state = "none" THEN "acknowledge" ELSE trade[q].state
      /\ trade'[q] \in [state : States, partner : Players \union {None}, item : Items \union {None}]
  BY <1>1, <1>2, <1>5 DEF TradeTypes, States
<1>8. \A r \in Players : r # p /\ r # q => trade'[r] = trade[r]
  BY <1>1, <1>2 DEF TradeTypes
<1>9. /\ tradeItems'[i] = p /\ \A j \in Items : j # i => tradeItems'[j] = tradeItems[j]
      /\ tradeItems' \in [Items -> Players \union {None}]
  BY <1>1, <1>2 DEF TradeTypes
<1>10. TradeTypes'
  <2>1. trade'[p] \in [state : States, partner : Players \union {None}, item : Items \union {None}]
    BY <1>6 DEF States
  <2>2. \A r \in Players :
          trade'[r] \in [state : States, partner : Players \union {None}, item : Items \union {None}]
    BY <2>1, <1>7, <1>8, <1>1 DEF TradeTypes
  <2>3. trade' \in [Players -> [state : States, partner : Players \union {None},
                               item : Items \union {None}]]
    BY <2>2, <1>1, <1>2 DEF TradeTypes
  <2> QED BY <2>3, <1>9, <1>2, <1>1 DEF TradeTypes
<1>11. OffersTabled'
  <2>1. ASSUME NEW r \in Players, trade'[r].item # None
        PROVE  tradeItems'[trade'[r].item] = r
    <3>1. CASE r = p
      BY <3>1, <1>6, <1>9
    <3>2. CASE r # p
      <4>1. trade'[r].item = trade[r].item
        BY <3>2, <1>7, <1>8
      <4>2. tradeItems[trade[r].item] = r /\ trade[r].item \in Items
        BY <4>1, <2>1, <1>1 DEF OffersTabled, Offering, TradeTypes
      <4>3. trade[r].item # i
        BY <4>2, <1>3, NoneIsNobody
      <4> QED BY <4>1, <4>2, <4>3, <1>9
    <3> QED BY <3>1, <3>2
  <2>2. ASSUME NEW j \in Items, tradeItems'[j] # None
        PROVE  trade'[tradeItems'[j]].item = j
    <3>1. CASE j = i
      BY <3>1, <1>6, <1>9
    <3>2. CASE j # i
      <4>1. tradeItems'[j] = tradeItems[j]
        BY <3>2, <1>9
      <4>2. tradeItems[j] \in Players /\ trade[tradeItems[j]].item = j
        BY <4>1, <2>2, <1>1 DEF OffersTabled, TradeTypes
      <4>3. tradeItems[j] # p
        BY <4>2, <1>4, NoneIsNobody
      <4> QED BY <4>1, <4>2, <4>3, <1>7, <1>8
    <3> QED BY <3>1, <3>2
  <2> QED BY <2>1, <2>2 DEF OffersTabled, Offering
<1>12. PartnersAgree'
  <2> SUFFICES ASSUME NEW r \in Players
               PROVE  /\ (trade'[r].partner # None) <=> (trade'[r].state # "none")
                      /\ trade'[r].partner # None =>
                           /\ r \in online /\ trade'[r].partner \in online
                           /\ trade'[trade'[r].partner].partner = r
                      /\ trade'[r].state = "initiated" => trade'[r].item # None
    BY <1>2 DEF PartnersAgree, Offering
  <2>1. CASE r = p
    BY <2>1, <1>2, <1>6, <1>7, NoneIsNobody
  <2>2. CASE r = q
    BY <2>2, <1>1, <1>2, <1>6, <1>7, NoneIsNobody DEF PartnersAgree, Offering
  <2>3. CASE r # p /\ r # q
    <3>1. trade'[r] = trade[r]
      BY <2>3, <1>8
    \* a third player's partner is neither of the two
    <3>2. trade[r].partner # p /\ trade[r].partner # q
      BY <2>3, <1>1, <1>2, <1>5, NoneIsNobody DEF PartnersAgree
    <3>3. trade[r].partner # None =>
            trade[r].partner \in Players /\ trade'[trade[r].partner] = trade[trade[r].partner]
      BY <3>2, <1>1, <1>8 DEF TradeTypes
    <3> QED BY <3>1, <3>3, <1>1 DEF PartnersAgree, Offering
  <2> QED BY <2>1, <2>2, <2>3
<1>13. NothingForgotten'
  <2>1. trade'[q].state = "acknowledge" \/ trade'[q].state = "none" => trade'[q].item = None
    BY <1>1, <1>7 DEF NothingForgotten
  <2> QED BY <2>1, <1>1, <1>6, <1>8 DEF NothingForgotten
<1> QED BY <1>10, <1>11, <1>12, <1>13 DEF TradeInv, TradesConsistent

\* The first acceptance only marks the player.
LEMMA AcceptFirstKeeps ==
  ASSUME TradeInv, NEW p \in Players, AcceptFirst(p)
  PROVE  TradeInv'
<1>1. TradeTypes /\ OffersTabled /\ PartnersAgree /\ NothingForgotten
  BY DEF TradeInv, TradesConsistent
<1>2. /\ trade[p].partner # None /\ online' = online /\ tradeItems' = tradeItems
      /\ trade' = [trade EXCEPT ![p].state = "accept"]
  BY DEF AcceptFirst, MayAccept
<1>3. /\ trade'[p].state = "accept"
      /\ \A r \in Players : r # p => trade'[r].state = trade[r].state
      /\ \A r \in Players : trade'[r].partner = trade[r].partner /\ trade'[r].item = trade[r].item
  BY <1>1, <1>2 DEF TradeTypes
<1>4. TradeTypes'
  BY <1>1, <1>2 DEF TradeTypes, States
<1>5. OffersTabled'
  BY <1>1, <1>2, <1>3 DEF OffersTabled, Offering, TradeTypes
<1>6. PartnersAgree'
  BY <1>1, <1>2, <1>3 DEF PartnersAgree, Offering, TradeTypes
<1>7. NothingForgotten'
  BY <1>1, <1>3 DEF NothingForgotten
<1> QED BY <1>4, <1>5, <1>6, <1>7 DEF TradeInv, TradesConsistent

\* Logging in and out, as far as trading goes.
LEMMA LoginKeeps ==
  ASSUME TradeInv, NEW p \in Players, Login(p)
  PROVE  TradeInv'
<1>1. TradeTypes /\ OffersTabled /\ PartnersAgree /\ NothingForgotten
  BY DEF TradeInv, TradesConsistent
<1>2. /\ p \notin online /\ online' = online \union {p} /\ tradeItems' = tradeItems
      /\ trade' = [trade EXCEPT ![p] = Idle]
  BY DEF Login, TradeLogin
<1>3. trade[p] = Idle
  BY <1>1, <1>2 DEF PartnersAgree, NothingForgotten, TradeTypes, Idle
<1>4. trade' = trade
  BY <1>1, <1>2, <1>3 DEF TradeTypes
<1> QED BY <1>1, <1>2, <1>4
     DEF TradeInv, TradesConsistent, TradeTypes, OffersTabled, PartnersAgree, NothingForgotten, Offering

\* onRemoveCreature closes the trade of the player who leaves.
LEMMA LogoutKeeps ==
  ASSUME TradeInv, NEW p \in Players, Logout(p)
  PROVE  TradeInv'
<1> DEFINE S == IF trade[p].partner # None THEN {p} ELSE {}
<1>1. Closed(S) /\ online' = online \ {p} /\ S \in SUBSET Players
  BY DEF Logout, TradeLogout
<1> QED BY <1>1, ClosingKeeps

\* Moves and removals close the trades of the players they touch; all else
\* leaves the trades alone.
LEMMA StepKeeps == TradeInv /\ [Next]_vars => TradeInv'
<1> SUFFICES ASSUME TradeInv, [Next]_vars PROVE TradeInv'
  OBVIOUS
<1>1. ASSUME UNCHANGED <<online, trade, tradeItems>> PROVE TradeInv'
  BY <1>1 DEF TradeInv, TradesConsistent, TradeTypes, OffersTabled, PartnersAgree,
     NothingForgotten, Offering
<1>2. ASSUME NEW S \in SUBSET Players, Closed(S), online' = online PROVE TradeInv'
  BY <1>2, ClosingKeeps
<1>3. online \subseteq Players
  BY DEF TradeInv, TradeTypes
<1>4. ASSUME NEW i \in Items, NEW to, Closed(Touched(i, to)), online' = online PROVE TradeInv'
  <2>1. Touched(i, to) \in SUBSET Players
    BY <1>3 DEF Touched
  <2> QED BY <1>2, <1>4, <2>1
<1>5. ASSUME NEW p \in Players, CloseTrade(p) PROVE TradeInv'
  BY <1>5, <1>2 DEF CloseTrade
<1>6. ASSUME NEW p \in Players, AcceptFirst(p) PROVE TradeInv'
  BY <1>6, AcceptFirstKeeps
<1>7. ASSUME NEW p \in Players, AcceptSecond(p) PROVE TradeInv'
  <2>1. online' = online
    BY <1>7 DEF AcceptSecond
  <2>2. CASE Closed({p})
    BY <2>1, <2>2, <1>2
  <2>3. ASSUME NEW q, NEW to, NEW back,
               Closed({p} \union Touched(trade[p].item, to) \union Touched(trade[q].item, back))
        PROVE  TradeInv'
    <3>1. {p} \union Touched(trade[p].item, to) \union Touched(trade[q].item, back) \in SUBSET Players
      BY <1>3 DEF Touched
    <3> QED BY <2>1, <2>3, <3>1, <1>2
  <2> QED BY <1>7, <2>2, <2>3 DEF AcceptSecond
<1>8. ASSUME NEW p \in Players, AcceptNothing(p) PROVE TradeInv'
  BY <1>8, <1>1 DEF AcceptNothing
<1>9. ASSUME NEW p \in Players, NEW q \in Players, NEW i \in Items, RequestTrade(p, q, i)
      PROVE  TradeInv'
  BY <1>9, RequestKeeps
<1>10. ASSUME NEW p \in Players, NEW i \in Items, NEW to, MoveItem(p, i, to) PROVE TradeInv'
  BY <1>10, <1>4 DEF MoveItem
<1>11. ASSUME NEW i \in Items, RemoveItem(i) PROVE TradeInv'
  BY <1>11, <1>4 DEF RemoveItem
<1>12. ASSUME PartyNext, UNCHANGED tradeVars PROVE TradeInv'
  BY <1>12, <1>1 DEF PartyNext, tradeVars, LeaveParty, InviteToParty, JoinParty,
     RevokePartyInvitation, PassPartyLeadership
<1>13. ASSUME NEW p \in Players, Login(p) PROVE TradeInv'
  BY <1>13, LoginKeeps
<1>14. ASSUME NEW p \in Players, Logout(p) PROVE TradeInv'
  BY <1>14, LogoutKeeps
<1>15. ASSUME UNCHANGED vars PROVE TradeInv'
  BY <1>15, <1>1 DEF vars, tradeVars
<1>16. TradeNext => TradeInv'
  BY <1>5, <1>6, <1>7, <1>8, <1>9, <1>10 DEF TradeNext
<1> QED BY <1>11, <1>12, <1>13, <1>14, <1>15, <1>16 DEF Next

\* However trades are started, countered, accepted and broken off, by requests,
\* moves of items, removals and logouts, the table of offered items and the
\* Player objects agree, and so do the two partners of every trade.
THEOREM TradesConsistentHolds == Spec => []TradesConsistent
<1>1. TradeInv => TradesConsistent
  BY DEF TradeInv
<1> QED BY Initially, StepKeeps, <1>1, PTL DEF Spec

-----------------------------------------------------------------------------
(* Offers.  What is above an item is recursive in the model, and followed  *)
(* to a depth at which it must have ended.  The proof takes it as the      *)
(* least set that has what the item is in and is closed upward (Over), and *)
(* shows that the two agree in a world where no item is inside itself: a   *)
(* way up that did not leave the items in that many steps would pass one   *)
(* of them twice.  So the invariant has that nothing is inside itself      *)
(* (Acyclic), which every move keeps, and that somebody who offers nothing *)
(* has shown nothing (Displayed), beside what OffersIntact says.           *)

\* Where an item can be; and the items that lie inside something, of which one
\* is above another if every set has it that has what the other is in and what
\* its elements are in.
Places == Items \union Players \union {Ground, Nowhere}
Upward(a, S) == \A k \in S \intersect Items : a[k] \in S
Over(a, i) == {j \in Places : \A S \in SUBSET Places : a[i] \in S /\ Upward(a, S) => j \in S}

\* What is above an item is the least such set.
LEMMA OverIs ==
  ASSUME NEW a \in [Items -> Places], NEW i \in Items
  PROVE  /\ a[i] \in Over(a, i) /\ Over(a, i) \subseteq Places /\ Upward(a, Over(a, i))
         /\ \A S \in SUBSET Places : a[i] \in S /\ Upward(a, S) => Over(a, i) \subseteq S
<1>1. \A k \in Items : a[k] \in Places
  OBVIOUS
<1>2. Upward(a, Over(a, i))
  <2> SUFFICES ASSUME NEW k \in Items, k \in Over(a, i) PROVE a[k] \in Over(a, i)
    BY DEF Upward
  <2> SUFFICES ASSUME NEW S \in SUBSET Places, a[i] \in S, Upward(a, S) PROVE a[k] \in S
    BY <1>1 DEF Over
  <2>1. k \in S
    BY DEF Over
  <2> QED BY <2>1 DEF Upward
<1> QED BY <1>1, <1>2 DEF Over

\* What is above something above an item is above the item.
LEMMA OverOver ==
  ASSUME NEW a \in [Items -> Places], NEW i \in Items, NEW j \in Items, j \in Over(a, i)
  PROVE  Over(a, j) \subseteq Over(a, i)
<1>1. a[j] \in Over(a, i)
  BY OverIs DEF Upward
<1> QED BY <1>1, OverIs

\* Above an item is what it is in, and what is above that.
LEMMA OverUnfolds ==
  ASSUME NEW a \in [Items -> Places], NEW i \in Items
  PROVE  /\ a[i] \notin Items => Over(a, i) = {a[i]}
         /\ a[i] \in Items => Over(a, i) = {a[i]} \union Over(a, a[i])
<1>1. ASSUME a[i] \notin Items PROVE Over(a, i) = {a[i]}
  <2>1. {a[i]} \in SUBSET Places /\ Upward(a, {a[i]})
    BY <1>1 DEF Upward
  <2> QED BY <2>1, OverIs
<1>2. ASSUME a[i] \in Items PROVE Over(a, i) = {a[i]} \union Over(a, a[i])
  <2> DEFINE S == {a[i]} \union Over(a, a[i])
  <2>1. S \in SUBSET Places /\ a[i] \in S
    BY <1>2, OverIs
  <2>2. Upward(a, S)
    BY <1>2, OverIs DEF Upward
  <2>3. Over(a, i) \subseteq S
    BY <2>1, <2>2, OverIs
  <2>4. a[i] \in Over(a, i)
    BY OverIs
  <2>5. Over(a, a[i]) \subseteq Over(a, i)
    BY <1>2, <2>4, OverOver
  <2> QED BY <2>3, <2>4, <2>5
<1> QED BY <1>1, <1>2

\* One of the two is above the other, or they are the same.
Aligned(a, j, k) == j = k \/ (j \in Items /\ k \in Over(a, j)) \/ (k \in Items /\ j \in Over(a, k))

\* Of two things above an item one is above the other.
LEMMA Linear ==
  ASSUME NEW a \in [Items -> Places], NEW i \in Items, NEW j \in Over(a, i), NEW k \in Over(a, i)
  PROVE  Aligned(a, j, k)
<1> DEFINE S == {x \in Over(a, i) : \A y \in Over(a, i) : Aligned(a, x, y)}
<1>1. a[i] \in S
  <2>1. a[i] \in Over(a, i)
    BY OverIs
  <2>2. ASSUME NEW y \in Over(a, i) PROVE Aligned(a, a[i], y)
    BY <2>2, OverUnfolds DEF Aligned
  <2> QED BY <2>1, <2>2
<1>2. ASSUME NEW x \in S, x \in Items PROVE a[x] \in S
  <2>1. a[x] \in Over(a, i)
    BY <1>2, OverIs DEF Upward
  <2>2. ASSUME NEW y \in Over(a, i) PROVE Aligned(a, a[x], y)
    <3>1. Aligned(a, x, y)
      OBVIOUS
    <3>2. CASE x = y
      BY <1>2, <3>2, OverIs DEF Aligned
    <3>3. CASE y \in Over(a, x)
      BY <1>2, <3>3, OverUnfolds DEF Aligned
    <3>4. CASE y \in Items /\ x \in Over(a, y)
      BY <1>2, <3>4, OverIs DEF Aligned, Upward
    <3> QED BY <3>1, <3>2, <3>3, <3>4 DEF Aligned
  <2> QED BY <2>1, <2>2
<1>3. S \in SUBSET Places
  BY OverIs
<1> HIDE DEF S
<1>4. Over(a, i) \subseteq S
  BY <1>1, <1>2, <1>3, OverIs DEF Upward
<1> QED BY <1>4 DEF S

\* No item is inside itself.
Acyclic(a) == a \in [Items -> Places] /\ \A i \in Items : i \notin Over(a, i)

\* The parents once an item was moved.
Shifted(a, i, to) == [a EXCEPT ![i] = to]

\* Moving an item changes nothing above what is not inside it, ...
LEMMA ShiftSpares ==
  ASSUME NEW a \in [Items -> Places], NEW i \in Items, NEW to \in Places,
         NEW x \in Items, x # i, i \notin Over(a, x)
  PROVE  Over(Shifted(a, i, to), x) = Over(a, x)
<1> DEFINE b == Shifted(a, i, to)
<1>1. b \in [Items -> Places] /\ b[i] = to /\ \A k \in Items \ {i} : b[k] = a[k]
  BY DEF Shifted
<1> HIDE DEF b
<1>2. Upward(b, Over(a, x)) /\ b[x] \in Over(a, x) /\ Over(a, x) \in SUBSET Places
  BY <1>1, OverIs DEF Upward
<1>3. Over(b, x) \subseteq Over(a, x)
  BY <1>1, <1>2, OverIs
<1>4. Upward(b, Over(b, x)) /\ b[x] \in Over(b, x) /\ Over(b, x) \in SUBSET Places
  BY <1>1, OverIs
<1>5. Upward(a, Over(b, x)) /\ a[x] \in Over(b, x)
  BY <1>1, <1>3, <1>4 DEF Upward
<1>6. Over(a, x) \subseteq Over(b, x)
  BY <1>4, <1>5, OverIs
<1> QED BY <1>3, <1>6 DEF b

\* ... and puts what is inside it below nothing but where it goes.
LEMMA ShiftCarries ==
  ASSUME NEW a, Acyclic(a), NEW i \in Items, NEW to \in Places,
         to \in Items => to # i /\ i \notin Over(a, to)
  PROVE  LET b == Shifted(a, i, to) IN
         /\ Over(b, i) = {to} \union (IF to \in Items THEN Over(a, to) ELSE {})
         /\ \A j \in Items : Over(b, j) \subseteq Over(a, j) \union Over(b, i)
         /\ Acyclic(b)
<1> DEFINE b == Shifted(a, i, to)
<1>1. /\ b \in [Items -> Places] /\ b[i] = to /\ \A k \in Items \ {i} : b[k] = a[k]
      /\ a \in [Items -> Places]
  BY DEF Shifted, Acyclic
<1>2. \A x \in Items : x # i /\ i \notin Over(a, x) => Over(b, x) = Over(a, x)
  BY <1>1, ShiftSpares
<1> HIDE DEF b
<1>3. Over(b, i) = {to} \union (IF to \in Items THEN Over(a, to) ELSE {})
  <2>1. CASE to \in Items
    BY <1>1, <1>2, <2>1, OverUnfolds
  <2>2. CASE to \notin Items
    BY <1>1, <2>2, OverUnfolds
  <2> QED BY <2>1, <2>2
<1>4. ASSUME NEW j \in Items PROVE Over(b, j) \subseteq Over(a, j) \union Over(b, i)
  <2> DEFINE S == Over(a, j) \union Over(b, i)
  <2>1. S \in SUBSET Places
    BY <1>1, OverIs
  <2>2. b[j] \in S
    BY <1>1, OverIs
  <2>3. Upward(b, S)
    BY <1>1, OverIs DEF Upward
  <2> QED BY <1>1, <2>1, <2>2, <2>3, OverIs
<1>5. ASSUME NEW j \in Items PROVE j \notin Over(b, j)
  <2>1. j \notin Over(a, j)
    BY DEF Acyclic
  <2>2. CASE j = i
    BY <1>3, <2>2
  <2>3. CASE j # i /\ i \notin Over(a, j)
    BY <1>2, <2>1, <2>3
  <2>4. CASE i \in Over(a, j)
    <3> SUFFICES ASSUME j \in Over(b, j) PROVE FALSE
      OBVIOUS
    <3>1. j \in Over(b, i)
      BY <1>4, <2>1
    <3>2. to \in Items /\ (j = to \/ j \in Over(a, to))
      BY <1>3, <3>1
    <3>3. i \in Over(a, to)
      BY <1>1, <2>4, <3>2, OverOver
    <3> QED BY <3>2, <3>3
  <2> QED BY <2>2, <2>3, <2>4
<1>6. Acyclic(b)
  BY <1>1, <1>5 DEF Acyclic
<1> QED BY <1>3, <1>4, <1>6 DEF b

\* The way up from an item, and what Above is in terms of the parents.
NextUp(a, x) == IF x \in Items THEN a[x] ELSE x
Climbs(a, i, n, up) == up = [m \in 0..n |-> IF m = 0 THEN i ELSE NextUp(a, up[m - 1])]
Climb(a, i) == CHOOSE up : Climbs(a, i, Depth, up)

\* Above is that way up, before and after a step.
LEMMA AboveIs == \A i : Above(i) = Climb(at, i) /\ Above(i)' = Climb(at', i)
<1>1. \A i : Above(i) = Climb(at, i)
  BY DEF Above, Climb, Climbs, NextUp
<1>2. \A i : Above(i)' = Climb(at', i)
  BY DEF Above, Climb, Climbs, NextUp, Depth
<1> QED BY <1>1, <1>2

\* There is a way up of every length.
LEMMA Climbable ==
  ASSUME NEW a, NEW i, NEW n \in Nat
  PROVE  \E up : Climbs(a, i, n, up)
<1> DEFINE Bad == {m \in Nat : ~ \E up : Climbs(a, i, m, up)}
<1>1. SUFFICES Bad = {}
  OBVIOUS
<1>2. SUFFICES ASSUME Bad # {} PROVE FALSE
  OBVIOUS
<1>3. PICK m \in Bad : \A k \in Bad : m <= k
  BY <1>2, LeastNumber
<1>4. CASE m = 0
  <2> DEFINE up == [k \in 0..0 |-> i]
  <2>1. Climbs(a, i, 0, up)
    BY DEF Climbs
  <2> QED BY <1>3, <1>4, <2>1
<1>5. CASE m # 0
  <2>1. m - 1 \in Nat /\ m - 1 \notin Bad
    BY <1>3, <1>5
  <2>2. PICK up : Climbs(a, i, m - 1, up)
    BY <2>1
  <2> DEFINE on == [k \in 0..m |-> IF k = m THEN NextUp(a, up[m - 1]) ELSE up[k]]
  <2>3. /\ DOMAIN on = 0..m /\ on[m] = NextUp(a, on[m - 1])
        /\ \A k \in 0..(m - 1) : on[k] = up[k]
    BY <2>1
  <2>4. \A k \in 0..(m - 1) : up[k] = IF k = 0 THEN i ELSE NextUp(a, up[k - 1])
    BY <2>1, <2>2 DEF Climbs
  <2>5. \A k \in 0..m : on[k] = IF k = 0 THEN i ELSE NextUp(a, on[k - 1])
    <3> TAKE k \in 0..m
    <3>1. CASE k = m
      BY <1>5, <2>3, <3>1
    <3>2. CASE k # m
      <4>1. k \in 0..(m - 1) /\ (k # 0 => k - 1 \in 0..(m - 1))
        BY <2>1, <3>2
      <4> HIDE DEF on
      <4> QED BY <2>3, <2>4, <4>1
    <3> QED BY <3>1, <3>2
  <2>6. on = [k \in 0..m |-> on[k]]
    OBVIOUS
  <2> HIDE DEF on
  <2>7. on = [k \in 0..m |-> IF k = 0 THEN i ELSE NextUp(a, on[k - 1])]
    BY <2>5, <2>6
  <2>8. Climbs(a, i, m, on)
    BY <2>7 DEF Climbs
  <2> QED BY <1>3, <2>8
<1> QED BY <1>4, <1>5

\* The depth is a number, and where there is an item it is not 0.
LEMMA DepthIs == Depth \in Nat /\ (Items # {} => 1 <= Depth)
  BY TradeAssumption, FS_CardinalityType, FS_EmptySet DEF Depth

\* Step by step.
LEMMA ClimbSteps ==
  ASSUME NEW a, NEW i
  PROVE  /\ Climb(a, i)[0] = i
         /\ \A n \in 1..Depth : Climb(a, i)[n] = NextUp(a, Climb(a, i)[n - 1])
<1>1. PICK up : up = Climb(a, i)
  OBVIOUS
<1>2. Climbs(a, i, Depth, up)
  BY <1>1, DepthIs, Climbable DEF Climb
<1>3. Depth \in Nat
  BY DepthIs
<1>4. \A n \in 0..Depth : up[n] = IF n = 0 THEN i ELSE NextUp(a, up[n - 1])
  BY <1>2 DEF Climbs
<1>5. up[0] = i /\ \A n \in 1..Depth : up[n] = NextUp(a, up[n - 1])
  BY <1>3, <1>4
<1> QED BY <1>1, <1>5

\* Whatever is reached is above where the way began.
LEMMA ClimbOver ==
  ASSUME NEW a \in [Items -> Places], NEW i \in Items, NEW n \in Nat, NEW up, up[0] = i,
         \A m \in 1..n : up[m] = NextUp(a, up[m - 1])
  PROVE  \A m \in 1..n : up[m] \in Over(a, i)
<1> DEFINE Bad == {m \in 1..n : up[m] \notin Over(a, i)}
<1>1. SUFFICES ASSUME Bad # {} PROVE FALSE
  OBVIOUS
<1>2. Bad \in SUBSET Nat
  OBVIOUS
<1>3. PICK m \in Bad : \A k \in Bad : m <= k
  BY <1>1, <1>2, LeastNumber
<1>4. m \in 1..n /\ up[m] = NextUp(a, up[m - 1])
  OBVIOUS
<1>5. CASE m = 1
  BY <1>3, <1>4, <1>5, OverIs DEF NextUp
<1>6. CASE m # 1
  <2>1. m - 1 \in 1..n /\ m - 1 \notin Bad
    BY <1>3, <1>4, <1>6
  <2>2. up[m - 1] \in Over(a, i)
    BY <2>1
  <2> QED BY <1>3, <1>4, <2>2, OverIs DEF NextUp, Upward
<1> QED BY <1>5, <1>6

\* In a world where no item is inside itself the way up ends outside the items,
\* and passes everything that is above.
LEMMA ClimbsOut ==
  ASSUME NEW a, Acyclic(a), NEW i \in Items
  PROVE  /\ Climb(a, i)[Depth] \in Over(a, i) \ Items
         /\ {Climb(a, i)[n] : n \in 1..Depth} = Over(a, i)
<1>1. PICK up : up = Climb(a, i)
  OBVIOUS
<1>2. PICK D \in Nat : D = Depth
  BY DepthIs
<1>3. a \in [Items -> Places] /\ 1 <= D /\ IsFiniteSet(Items) /\ Cardinality(Items) = D
  BY <1>2, DepthIs, TradeAssumption DEF Acyclic, Depth
<1>4. up[0] = i /\ \A n \in 1..D : up[n] = NextUp(a, up[n - 1])
  BY <1>1, <1>2, ClimbSteps
<1>5. \A n \in 1..D : up[n] \in Over(a, i)
  BY <1>3, <1>4, ClimbOver
<1>6. ASSUME NEW n \in 0..D, up[n] \notin Items PROVE up[D] \notin Items
  <2> DEFINE Bad == {m \in n..D : up[m] \in Items}
  <2> SUFFICES ASSUME up[D] \in Items PROVE FALSE
    OBVIOUS
  <2>1. Bad # {} /\ Bad \in SUBSET Nat
    OBVIOUS
  <2>2. PICK m \in Bad : \A k \in Bad : m <= k
    BY <2>1, LeastNumber
  <2>3. m # n /\ m \in 1..D /\ m - 1 \in n..D
    BY <1>6, <2>2
  <2>4. up[m - 1] \notin Items
    BY <2>2, <2>3
  <2> QED BY <1>4, <2>2, <2>3, <2>4 DEF NextUp
<1>7. up[D] \notin Items
  <2> SUFFICES ASSUME up[D] \in Items PROVE FALSE
    OBVIOUS
  <2>1. \A n \in 0..D : up[n] \in Items
    BY <1>6
  <2>2. ASSUME NEW k \in 0..D, NEW l \in 0..D, k < l PROVE up[k] # up[l]
    <3> DEFINE Bad == {m \in (k + 1)..D : up[m] \notin Over(a, up[k])}
    <3>1. SUFFICES Bad = {}
      BY <2>1, <2>2 DEF Acyclic
    <3>2. SUFFICES ASSUME Bad # {} PROVE FALSE
      OBVIOUS
    <3>3. Bad \in SUBSET Nat
      OBVIOUS
    <3>4. PICK m \in Bad : \A j \in Bad : m <= j
      BY <3>2, <3>3, LeastNumber
    <3>5. m \in 1..D /\ m - 1 \in 0..D /\ up[m] = NextUp(a, up[m - 1])
      BY <1>4, <3>4
    <3>6. CASE m = k + 1
      BY <1>3, <2>1, <3>4, <3>5, <3>6, OverIs DEF NextUp
    <3>7. CASE m # k + 1
      <4>1. m - 1 \in (k + 1)..D /\ m - 1 \notin Bad
        BY <3>4, <3>7
      <4>2. up[m - 1] \in Over(a, up[k])
        BY <4>1
      <4> QED BY <1>3, <2>1, <3>4, <3>5, <4>2, OverIs DEF NextUp, Upward
    <3> QED BY <3>6, <3>7
  <2>3. \A p, q \in Int : IsFiniteSet(p..q) /\ Cardinality(p..q) = IF p > q THEN 0 ELSE q - p + 1
    BY FS_Interval
  <2>4. IsFiniteSet(0..D) /\ Cardinality(0..D) = IF 0 > D THEN 0 ELSE D - 0 + 1
    <3>1. 0 \in Int /\ D \in Int
      OBVIOUS
    <3> QED BY <2>3, <3>1, Zenon
  <2>5. Cardinality(0..D) = D + 1
    BY <2>4
  <2> DEFINE f == [n \in 0..D |-> up[n]]
  <2>6. f \in [0..D -> Items]
    BY <2>1
  <2>7. PICK k, l \in 0..D : k # l /\ f[k] = f[l]
    <3>1. Cardinality(Items) < Cardinality(0..D)
      BY <1>3, <2>5
    <3> HIDE DEF f
    <3> QED BY <1>3, <2>4, <2>6, <3>1, FS_PigeonHole
  <2> QED BY <2>2, <2>7
<1>8. Over(a, i) \subseteq {up[n] : n \in 1..D}
  <2> DEFINE S == {up[n] : n \in 1..D}
  <2>1. S \in SUBSET Places
    BY <1>3, <1>5, OverIs
  <2>2. a[i] \in S
    <3>1. up[1] = a[i] /\ 1 \in 1..D
      BY <1>3, <1>4 DEF NextUp
    <3> QED BY <3>1
  <2>3. ASSUME NEW n \in 1..D, up[n] \in Items PROVE a[up[n]] \in S
    <3>1. n # D
      BY <1>7, <2>3
    <3>2. n + 1 \in 1..D /\ up[n + 1] = a[up[n]]
      BY <1>4, <2>3, <3>1 DEF NextUp
    <3> QED BY <3>2
  <2>4. Upward(a, S)
    BY <2>3 DEF Upward
  <2> HIDE DEF S
  <2>5. Over(a, i) \subseteq S
    BY <1>3, <2>1, <2>2, <2>4, OverIs
  <2> QED BY <2>5 DEF S
<1>9. {up[n] : n \in 1..D} = Over(a, i) /\ up[D] \in Over(a, i) \ Items
  BY <1>3, <1>5, <1>7, <1>8
<1> QED BY <1>1, <1>2, <1>9

\* What goes with an item, and where it is in the end.
WholeIn(a, i) == {i} \union {j \in Items : i \in Over(a, j)}
TopIn(a, i) == Climb(a, i)[Depth]

\* Chain, Whole and Top in terms of the parents.
LEMMA ChainIs ==
  ASSUME Acyclic(at)
  PROVE  \A i \in Items : Chain(i) = Over(at, i) /\ Whole(i) = WholeIn(at, i) /\ Top(i) = TopIn(at, i)
<1>1. \A i \in Items : Chain(i) = Over(at, i)
  BY AboveIs, ClimbsOut DEF Chain
<1>2. \A i \in Items : Top(i) = TopIn(at, i)
  BY AboveIs DEF Top, TopIn
<1>3. \A i \in Items : Whole(i) = WholeIn(at, i)
  BY <1>1 DEF Whole, WholeIn
<1> QED BY <1>1, <1>2, <1>3

\* The same after a step.
LEMMA ChainWillBe ==
  ASSUME Acyclic(at')
  PROVE  \A i \in Items : Whole(i)' = WholeIn(at', i) /\ Top(i)' = TopIn(at', i)
<1>1. \A i \in Items : Chain(i)' = Over(at', i)
  BY AboveIs, ClimbsOut DEF Chain, Depth
<1>2. \A i \in Items : Top(i)' = TopIn(at', i)
  BY AboveIs DEF Top, TopIn, Depth
<1>3. \A i \in Items : Whole(i)' = WholeIn(at', i)
  BY <1>1 DEF Whole, WholeIn
<1> QED BY <1>2, <1>3

\* Everything has one end above it, and what goes with an item ends where it does.
LEMMA OneTop ==
  ASSUME NEW a, Acyclic(a), NEW i \in Items
  PROVE  /\ TopIn(a, i) \in Over(a, i) /\ TopIn(a, i) \notin Items
         /\ \A x \in Over(a, i) : x \notin Items => x = TopIn(a, i)
         /\ \A j \in WholeIn(a, i) : j \in Items /\ TopIn(a, j) = TopIn(a, i)
<1>1. \A j \in Items : TopIn(a, j) \in Over(a, j) /\ TopIn(a, j) \notin Items
  BY ClimbsOut DEF TopIn
<1>2. a \in [Items -> Places]
  BY DEF Acyclic
<1>3. \A j \in Items : \A x \in Over(a, j) : x \notin Items => x = TopIn(a, j)
  BY <1>1, <1>2, Linear DEF Aligned
<1>4. ASSUME NEW j \in WholeIn(a, i) PROVE j \in Items /\ TopIn(a, j) = TopIn(a, i)
  <2>1. CASE j = i
    BY <2>1
  <2>2. CASE j \in Items /\ i \in Over(a, j)
    BY <1>1, <1>2, <1>3, <2>2, OverOver
  <2> QED BY <2>1, <2>2 DEF WholeIn
<1> QED BY <1>1, <1>3, <1>4

\* Two items that have something in common are the same or one is in the other.
LEMMA Overlapping ==
  ASSUME NEW a, Acyclic(a), NEW i \in Items, NEW j \in Items, NEW k, k \in WholeIn(a, i), k \in WholeIn(a, j)
  PROVE  Aligned(a, i, j)
<1>1. a \in [Items -> Places] /\ k \in Items
  BY DEF Acyclic, WholeIn
<1>2. CASE k = i \/ k = j
  BY <1>2 DEF WholeIn, Aligned
<1>3. CASE k # i /\ k # j
  <2>1. i \in Over(a, k) /\ j \in Over(a, k)
    BY <1>3 DEF WholeIn
  <2> QED BY <1>1, <2>1, Linear
<1> QED BY <1>2, <1>3

\* Nothing on offer is moved, filled or emptied when i goes to another place.
Untouched(a, x, i, to) ==
  /\ x # i /\ x \notin Over(a, i) /\ i \notin Over(a, x)
  /\ to \in Items => x # to /\ x \notin Over(a, to)

\* It may go there.
Fits(a, i, to) == to \in Places /\ (to \in Items => to # i /\ i \notin Over(a, to))

\* A move leaves an untouched offer as it was.
LEMMA ShiftKeeps ==
  ASSUME NEW a, Acyclic(a), NEW i \in Items, NEW to, Fits(a, i, to),
         NEW x \in Items, Untouched(a, x, i, to)
  PROVE  LET b == Shifted(a, i, to) IN
         Over(b, x) = Over(a, x) /\ WholeIn(b, x) = WholeIn(a, x) /\ TopIn(b, x) = TopIn(a, x)
<1> DEFINE b == Shifted(a, i, to)
<1>1. to \in Places /\ (to \in Items => to # i /\ i \notin Over(a, to)) /\ a \in [Items -> Places]
  BY DEF Fits, Acyclic
<1>2. /\ Over(b, i) = {to} \union (IF to \in Items THEN Over(a, to) ELSE {})
      /\ \A j \in Items : Over(b, j) \subseteq Over(a, j) \union Over(b, i)
      /\ Acyclic(b)
  BY <1>1, ShiftCarries
<1>3. \A j \in Items : j # i /\ i \notin Over(a, j) => Over(b, j) = Over(a, j)
  BY <1>1, ShiftSpares
<1> HIDE DEF b
<1>4. Over(b, x) = Over(a, x)
  BY <1>3 DEF Untouched
<1>5. TopIn(b, x) = TopIn(a, x)
  BY <1>2, <1>4, OneTop
<1>6. x \notin Over(b, i)
  BY <1>2 DEF Untouched
<1>7. ASSUME NEW j \in Items PROVE x \in Over(b, j) <=> x \in Over(a, j)
  <2>1. CASE j = i
    BY <1>6, <2>1 DEF Untouched
  <2>2. CASE j # i /\ i \notin Over(a, j)
    BY <1>3, <2>2
  <2>3. CASE i \in Over(a, j)
    <3>1. x \notin Over(a, j)
      <4> SUFFICES ASSUME x \in Over(a, j) PROVE FALSE
        OBVIOUS
      <4>1. Aligned(a, x, i)
        BY <1>1, <2>3, Linear
      <4> QED BY <4>1 DEF Aligned, Untouched
    <3> QED BY <1>2, <1>6, <3>1
  <2> QED BY <2>1, <2>2, <2>3
<1>8. WholeIn(b, x) = WholeIn(a, x)
  BY <1>7 DEF WholeIn
<1> QED BY <1>4, <1>5, <1>8 DEF b

\* An owner who takes no notice of a move has nothing to notice.
LEMMA Unnoticed ==
  ASSUME Acyclic(at), NEW i \in Items, NEW x \in Items, NEW to,
         ~Notices(x, i), ~NoticesInto(x, to)
  PROVE  Untouched(at, x, i, to)
<1>1. at \in [Items -> Places] /\ \A j \in Items : j \notin Over(at, j)
  BY DEF Acyclic
<1>2. \A j \in Items : Chain(j) = Over(at, j)
  BY ChainIs
<1>3. x # i /\ x \notin Over(at, i)
  BY <1>2 DEF Notices
<1>4. to \in Items => x # to /\ x \notin Over(at, to)
  BY <1>2 DEF NoticesInto
<1>5. i \notin Over(at, x)
  <2> SUFFICES ASSUME i \in Over(at, x) PROVE FALSE
    OBVIOUS
  <2>1. at[i] \in Over(at, x)
    BY <1>1, OverIs DEF Upward
  <2>2. at[i] \in Bags /\ at[x] = at[i]
    BY <1>2, <1>3, <2>1 DEF Notices
  <2>3. PICK b \in Items : b = at[i]
    BY <2>2, TradeAssumption
  <2>4. b \in Over(at, i) /\ Over(at, b) \subseteq Over(at, i)
    BY <1>1, <2>3, OverIs, OverOver
  <2>5. i = b \/ i \in Over(at, b)
    BY <1>1, <2>2, <2>3, OverUnfolds
  <2> QED BY <1>1, <2>4, <2>5
<1> QED BY <1>3, <1>4, <1>5 DEF Untouched

\* What a player has shown, given where things are: nothing, or all that goes
\* with his offer, which is his or on the ground.
Displays(a, offer, s, p) ==
  IF offer = None THEN s = {} ELSE s = WholeIn(a, offer) /\ TopIn(a, offer) \in {p, Ground}

Displayed(a, T, s) ==
  /\ s \in [Players -> SUBSET Items]
  /\ \A p \in Players : Displays(a, T[p].item, s[p], p)
  /\ \A p, q \in Players : p # q => s[p] \intersect s[q] = {}

IntactInv == TradeInv /\ Acyclic(at) /\ Displayed(at, trade, shown)

\* An offer is looked at in the same way wherever its whole and its end are the same.
LEMMA DisplaysSame ==
  ASSUME NEW a, NEW b, NEW x, NEW s, NEW p, Displays(a, x, s, p),
         x # None => WholeIn(b, x) = WholeIn(a, x) /\ TopIn(b, x) = TopIn(a, x)
  PROVE  Displays(b, x, s, p)
  BY DEF Displays

\* internalCloseTrade of those whose offers are touched, wherever things go.
LEMMA ClosingLeavesIntact ==
  ASSUME TradeInv, NEW S \in SUBSET Players, Closed(S), Displayed(at, trade, shown), NEW b,
         \A p \in Players \ S : trade[p].item # None =>
           WholeIn(b, trade[p].item) = WholeIn(at, trade[p].item)
           /\ TopIn(b, trade[p].item) = TopIn(at, trade[p].item)
  PROVE  Displayed(b, trade', shown')
<1> DEFINE all == WithPartners(S) \intersect Players
<1>1. /\ trade' = [p \in Players |-> IF p \in all THEN Idle ELSE trade[p]]
      /\ shown' = [p \in Players |-> IF p \in all THEN {} ELSE shown[p]]
      /\ S \subseteq all
  BY DEF Closed, WithPartners
<1> HIDE DEF all
<1>2. /\ shown \in [Players -> SUBSET Items]
      /\ \A p \in Players : Displays(at, trade[p].item, shown[p], p)
      /\ \A p, q \in Players : p # q => shown[p] \intersect shown[q] = {}
  BY DEF Displayed
<1>3. shown' \in [Players -> SUBSET Items]
  BY <1>1, <1>2
<1>4. ASSUME NEW p \in Players PROVE Displays(b, trade'[p].item, shown'[p], p)
  <2>1. CASE p \in all
    BY <1>1, <2>1 DEF Displays, Idle
  <2>2. CASE p \notin all
    <3>1. trade'[p] = trade[p] /\ shown'[p] = shown[p] /\ p \notin S
      BY <1>1, <2>2
    <3>2. Displays(b, trade[p].item, shown[p], p)
      BY <1>2, <3>1, DisplaysSame
    <3> QED BY <3>1, <3>2
  <2> QED BY <2>1, <2>2
<1>5. \A p, q \in Players : p # q => shown'[p] \intersect shown'[q] = {}
  BY <1>1, <1>2
<1> QED BY <1>3, <1>4, <1>5 DEF Displayed

\* Who offers something is in the world, and what he offers is an item.
LEMMA OfferersAre ==
  ASSUME TradeInv, NEW p \in Players, trade[p].item # None
  PROVE  p \in online /\ trade[p].item \in Items /\ trade[p].state # "none"
         /\ tradeItems[trade[p].item] = p
  BY DEF TradeInv, TradeTypes, TradesConsistent, PartnersAgree, OffersTabled, NothingForgotten, Offering

\* Whoever offers something and is not touched by a move has nothing to notice.
LEMMA NotTouched ==
  ASSUME IntactInv, NEW i \in Items, NEW to, NEW p \in Players, trade[p].item # None,
         p \notin Touched(i, to)
  PROVE  Untouched(at, trade[p].item, i, to)
<1>1. p \in online /\ trade[p].item \in Items /\ Offering(p)
  BY OfferersAre DEF IntactInv, Offering
<1>2. ~Notices(trade[p].item, i) /\ ~NoticesInto(trade[p].item, to)
  BY <1>1 DEF Touched
<1> QED BY <1>1, <1>2, Unnoticed DEF IntactInv

\* An item goes to another place.
LEMMA ShiftingLeavesIntact ==
  ASSUME IntactInv, NEW i \in Items, NEW to, Fits(at, i, to),
         at' = [at EXCEPT ![i] = to], Closed(Touched(i, to)), online' = online
  PROVE  Acyclic(at') /\ Displayed(at', trade', shown')
<1> DEFINE b == Shifted(at, i, to)
<1>1. at' = b
  BY DEF Shifted
<1>2. Acyclic(b)
  BY ShiftCarries DEF IntactInv, Fits
<1>3. TradeInv /\ Acyclic(at) /\ Displayed(at, trade, shown) /\ online \subseteq Players
  BY DEF IntactInv, TradeInv, TradeTypes
<1>4. ASSUME NEW p \in Players \ Touched(i, to), trade[p].item # None
      PROVE  WholeIn(b, trade[p].item) = WholeIn(at, trade[p].item)
             /\ TopIn(b, trade[p].item) = TopIn(at, trade[p].item)
  <2>1. Untouched(at, trade[p].item, i, to) /\ trade[p].item \in Items
    BY <1>3, <1>4, NotTouched, OfferersAre
  <2> QED BY <1>3, <2>1, ShiftKeeps
<1> HIDE DEF b
<1>5. Touched(i, to) \in SUBSET Players
  BY <1>3 DEF Touched
<1>6. Displayed(b, trade', shown')
  BY <1>3, <1>4, <1>5, ClosingLeavesIntact
<1> QED BY <1>1, <1>2, <1>6

\* internalMoveItem, which puts nothing into itself, ...
LEMMA MoveLeavesIntact ==
  ASSUME IntactInv, NEW p \in Players, NEW i \in Items, NEW to, MoveItem(p, i, to)
  PROVE  Acyclic(at') /\ Displayed(at', trade', shown')
<1>1. Acyclic(at)
  BY DEF IntactInv
<1>2. Fits(at, i, to)
  <2>1. CASE to \in {p, Ground}
    BY <2>1, TradeAssumption DEF Fits, Places
  <2>2. CASE to \in Bags /\ MayHold(to, i)
    BY <1>1, <2>2, TradeAssumption, ChainIs DEF Fits, Places, MayHold, WholeIn
  <2> QED BY <2>1, <2>2 DEF MoveItem
<1> QED BY <1>2, ShiftingLeavesIntact DEF MoveItem

\* ... and internalRemoveItem.
LEMMA RemovalLeavesIntact ==
  ASSUME IntactInv, NEW i \in Items, RemoveItem(i)
  PROVE  Acyclic(at') /\ Displayed(at', trade', shown')
<1>1. Fits(at, i, Nowhere)
  BY TradeAssumption DEF Fits, Places
<1> QED BY <1>1, ShiftingLeavesIntact DEF RemoveItem

\* A new offer has nothing in common with those on the table.
LEMMA RequestLeavesIntact ==
  ASSUME IntactInv, NEW p \in Players, NEW q \in Players, NEW i \in Items, RequestTrade(p, q, i)
  PROVE  Acyclic(at') /\ Displayed(at', trade', shown')
<1>1. /\ TradeInv /\ Acyclic(at) /\ TradeTypes /\ NothingForgotten
      /\ shown \in [Players -> SUBSET Items]
      /\ \A r \in Players : Displays(at, trade[r].item, shown[r], r)
      /\ \A r, s \in Players : r # s => shown[r] \intersect shown[s] = {}
  BY DEF IntactInv, TradeInv, Displayed
<1>2. /\ p # q /\ Reachable(p, i) /\ at' = at
      /\ \A j \in Items : tradeItems[j] # None => ~Overlaps(i, j)
      /\ trade' = [trade EXCEPT
           ![p] = [state |-> "initiated", partner |-> q, item |-> i],
           ![q] = IF @.state = "none"
                    THEN [@ EXCEPT !.state = "acknowledge", !.partner = p] ELSE @]
      /\ shown' = [shown EXCEPT ![p] = Whole(i)]
  BY DEF RequestTrade, StartTrade
<1>3. trade'[p].item = i /\ \A r \in Players \ {p} : trade'[r].item = trade[r].item
  BY <1>1, <1>2 DEF TradeTypes
<1>4. Whole(i) = WholeIn(at, i) /\ Top(i) = TopIn(at, i) /\ \A j \in Items : Chain(j) = Over(at, j)
  BY <1>1, ChainIs
<1>5. /\ shown'[p] = WholeIn(at, i) /\ \A r \in Players \ {p} : shown'[r] = shown[r]
      /\ WholeIn(at, i) \in SUBSET Items /\ shown' \in [Players -> SUBSET Items]
  <2>1. WholeIn(at, i) \in SUBSET Items
    BY DEF WholeIn
  <2> QED BY <1>1, <1>2, <1>4, <2>1
<1>6. \A r \in Players : Displays(at, trade'[r].item, shown'[r], r)
  <2> SUFFICES ASSUME NEW r \in Players PROVE Displays(at, trade'[r].item, shown'[r], r)
    OBVIOUS
  <2>1. CASE r = p
    <3>1. i # None
      BY NoneIsNobody
    <3> QED BY <1>2, <1>3, <1>4, <1>5, <2>1, <3>1 DEF Displays, Reachable
  <2>2. CASE r # p
    BY <1>1, <1>3, <1>5, <2>2
  <2> QED BY <2>1, <2>2
<1>7. ASSUME NEW r \in Players \ {p} PROVE WholeIn(at, i) \intersect shown[r] = {}
  <2>1. CASE trade[r].item = None
    BY <1>1, <2>1 DEF Displays
  <2>2. CASE trade[r].item # None
    <3>1. PICK j : j = trade[r].item
      OBVIOUS
    <3>2. j \in Items /\ tradeItems[j] = r /\ shown[r] = WholeIn(at, j)
      BY <1>1, <2>2, <3>1, OfferersAre DEF Displays
    <3>3. ~Overlaps(i, j)
      BY <1>2, <3>2, NoneIsNobody
    <3>4. ~Aligned(at, i, j)
      BY <1>4, <3>2, <3>3 DEF Overlaps, Aligned
    <3> QED BY <1>1, <3>2, <3>4, Overlapping
  <2> QED BY <2>1, <2>2
<1>8. \A r, s \in Players : r # s => shown'[r] \intersect shown'[s] = {}
  BY <1>1, <1>5, <1>7
<1> QED BY <1>1, <1>2, <1>5, <1>6, <1>8 DEF Displayed

\* What is untouched by two moves is untouched by the second after the first.
LEMMA UntouchedBoth ==
  ASSUME NEW a, Acyclic(a), NEW x \in Items, NEW y \in Items, NEW to, NEW back,
         Fits(a, x, to), Fits(a, y, back), x # y, x \notin Over(a, y),
         back \in Items => back # x /\ x \notin Over(a, back),
         NEW z \in Items, Untouched(a, z, x, to), Untouched(a, z, y, back)
  PROVE  Untouched(Shifted(a, x, to), z, y, back)
<1> DEFINE b == Shifted(a, x, to)
<1>1. \A j \in Items : j # x /\ x \notin Over(a, j) => Over(b, j) = Over(a, j)
  BY ShiftSpares DEF Acyclic, Fits
<1> HIDE DEF b
<1>2. Over(b, y) = Over(a, y) /\ Over(b, z) = Over(a, z) /\ (back \in Items => Over(b, back) = Over(a, back))
  BY <1>1 DEF Untouched
<1>3. Untouched(b, z, y, back)
  BY <1>2 DEF Untouched
<1> QED BY <1>3 DEF b

\* The two items change hands.
LEMMA ExchangeLeavesIntact ==
  ASSUME IntactInv, NEW p \in Players, NEW q \in Players, p # q, NEW x \in Items, NEW y \in Items,
         trade[p].item = x, trade[q].item = y, q = trade[p].partner,
         NEW to, NEW back,
         to = q \/ (to \in Bags /\ Top(to) = q /\ to \notin Whole(y)),
         back = p \/ (back \in Bags /\ Top(back) = p /\ back \notin Whole(x)),
         at' = [at EXCEPT ![x] = to, ![y] = back],
         Closed({p} \union Touched(x, to) \union Touched(y, back)), online' = online
  PROVE  Acyclic(at') /\ Displayed(at', trade', shown')
<1>1. /\ TradeInv /\ Acyclic(at) /\ Displayed(at, trade, shown) /\ online \subseteq Players
      /\ Bags \subseteq Items /\ \A r \in Players : r \notin Items /\ r # Ground
      /\ at \in [Items -> Places]
  BY TradeAssumption DEF IntactInv, TradeInv, TradeTypes, Acyclic
<1>2. /\ \A i \in Items : Whole(i) = WholeIn(at, i) /\ Top(i) = TopIn(at, i)
      /\ \A i \in Items : \A j \in WholeIn(at, i) : j \in Items /\ TopIn(at, j) = TopIn(at, i)
  BY <1>1, ChainIs, OneTop
<1>3. /\ TopIn(at, x) \in {p, Ground} /\ TopIn(at, y) \in {q, Ground}
      /\ WholeIn(at, x) \intersect WholeIn(at, y) = {}
  <2>1. x # None /\ y # None
    BY NoneIsNobody
  <2>2. Displays(at, x, shown[p], p) /\ Displays(at, y, shown[q], q) /\ shown[p] \intersect shown[q] = {}
    BY <1>1 DEF Displayed
  <2> QED BY <2>1, <2>2 DEF Displays
<1>4. x # y /\ x \notin Over(at, y) /\ y \notin Over(at, x)
  BY <1>3 DEF WholeIn
<1>5. to \in Items => to \notin WholeIn(at, x) /\ to \notin WholeIn(at, y)
  BY <1>1, <1>2, <1>3
<1>6. back \in Items => back \notin WholeIn(at, x) /\ back \notin WholeIn(at, y)
  BY <1>1, <1>2, <1>3
<1>7. Fits(at, x, to) /\ Fits(at, y, back)
  BY <1>1, <1>5, <1>6 DEF Fits, Places, WholeIn
<1>8. PICK b : b = Shifted(at, x, to)
  OBVIOUS
<1>9. Acyclic(b) /\ b \in [Items -> Places]
  BY <1>1, <1>7, <1>8, ShiftCarries DEF Fits, Acyclic
<1>10. \A j \in Items : j # x /\ x \notin Over(at, j) => Over(b, j) = Over(at, j)
  BY <1>1, <1>7, <1>8, ShiftSpares DEF Fits
<1>11. Fits(b, y, back)
  BY <1>6, <1>7, <1>10 DEF Fits, WholeIn
<1>12. PICK c : c = Shifted(b, y, back)
  OBVIOUS
<1>13. Acyclic(c) /\ at' = c
  <2>1. Acyclic(c)
    BY <1>9, <1>11, <1>12, ShiftCarries DEF Fits
  <2>2. at' = c
    BY <1>4, <1>8, <1>12 DEF Shifted
  <2> QED BY <2>1, <2>2
<1>14. ASSUME NEW r \in Players \ ({p} \union Touched(x, to) \union Touched(y, back)), trade[r].item # None
       PROVE  WholeIn(c, trade[r].item) = WholeIn(at, trade[r].item)
              /\ TopIn(c, trade[r].item) = TopIn(at, trade[r].item)
  <2>1. PICK z \in Items : z = trade[r].item
    BY <1>1, <1>14, OfferersAre
  <2>2. Untouched(at, z, x, to) /\ Untouched(at, z, y, back)
    BY <1>14, <2>1, NotTouched
  <2>3. back \in Items => back # x /\ x \notin Over(at, back)
    BY <1>6 DEF WholeIn
  <2>4. Untouched(b, z, y, back)
    BY <1>1, <1>4, <1>7, <1>8, <2>2, <2>3, UntouchedBoth
  <2>5. WholeIn(b, z) = WholeIn(at, z) /\ TopIn(b, z) = TopIn(at, z)
    BY <1>1, <1>7, <1>8, <2>2, ShiftKeeps
  <2>6. WholeIn(c, z) = WholeIn(b, z) /\ TopIn(c, z) = TopIn(b, z)
    BY <1>9, <1>11, <1>12, <2>4, ShiftKeeps
  <2> QED BY <2>1, <2>5, <2>6
<1>15. {p} \union Touched(x, to) \union Touched(y, back) \in SUBSET Players
  BY <1>1 DEF Touched
<1>16. PICK S \in SUBSET Players : S = {p} \union Touched(x, to) \union Touched(y, back)
  BY <1>15
<1>17. Closed(S)
  BY <1>16
<1>18. Displayed(c, trade', shown')
  BY <1>1, <1>14, <1>16, <1>17, ClosingLeavesIntact
<1> QED BY <1>13, <1>18

\* Trades are closed, and things stay where they are.
LEMMA ClosingAlone ==
  ASSUME IntactInv, NEW S \in SUBSET Players, Closed(S), at' = at
  PROVE  Acyclic(at') /\ Displayed(at', trade', shown')
<1>1. Displayed(at, trade', shown') /\ Acyclic(at)
  BY ClosingLeavesIntact DEF IntactInv
<1> QED BY <1>1

\* The second acceptance.
LEMMA SettlingLeavesIntact ==
  ASSUME IntactInv, NEW p \in Players, AcceptSecond(p)
  PROVE  Acyclic(at') /\ Displayed(at', trade', shown')
<1>1. PICK q : q = trade[p].partner
  OBVIOUS
<1>2. /\ online' = online /\ trade[p].partner # None /\ trade[p].state # "accept" /\ trade[q].state = "accept"
      /\ trade[p].item # None /\ trade[q].item # None
  BY <1>1 DEF AcceptSecond, MayAccept, Offering
<1>3. q \in Players /\ p # q
  BY <1>1, <1>2 DEF IntactInv, TradeInv, TradeTypes
<1>4. PICK x \in Items : x = trade[p].item
  BY <1>2, OfferersAre DEF IntactInv
<1>5. PICK y \in Items : y = trade[q].item
  BY <1>2, <1>3, OfferersAre DEF IntactInv
<1>6. CASE at' = at /\ Closed({p})
  BY <1>6, ClosingAlone
<1>7. ASSUME NEW to \in {q} \union {b \in Bags : Top(b) = q /\ b \notin Whole(trade[q].item)},
             NEW back \in {p} \union {b \in Bags : Top(b) = p /\ b \notin Whole(trade[p].item)},
             at' = [at EXCEPT ![trade[p].item] = to, ![trade[q].item] = back],
             Closed({p} \union Touched(trade[p].item, to) \union Touched(trade[q].item, back))
      PROVE  Acyclic(at') /\ Displayed(at', trade', shown')
  <2>1. /\ to = q \/ (to \in Bags /\ Top(to) = q /\ to \notin Whole(y))
        /\ back = p \/ (back \in Bags /\ Top(back) = p /\ back \notin Whole(x))
    BY <1>4, <1>5, <1>7
  <2>2. /\ at' = [at EXCEPT ![x] = to, ![y] = back]
        /\ Closed({p} \union Touched(x, to) \union Touched(y, back))
    BY <1>4, <1>5, <1>7
  <2> QED BY <1>1, <1>2, <1>3, <1>4, <1>5, <2>1, <2>2, ExchangeLeavesIntact
<1> QED BY <1>1, <1>6, <1>7 DEF AcceptSecond

\* Acceptances, logins and what has nothing to do with offers.
LEMMA OffersUntouched ==
  ASSUME IntactInv, at' = at, shown' = shown, \A p \in Players : trade'[p].item = trade[p].item
  PROVE  Acyclic(at') /\ Displayed(at', trade', shown')
<1>1. /\ shown \in [Players -> SUBSET Items]
      /\ \A p \in Players : Displays(at, trade[p].item, shown[p], p)
      /\ \A p, q \in Players : p # q => shown[p] \intersect shown[q] = {}
  BY DEF IntactInv, Displayed
<1>2. \A p \in Players : Displays(at, trade'[p].item, shown[p], p)
  BY <1>1
<1>3. Displayed(at, trade', shown)
  BY <1>1, <1>2 DEF Displayed
<1>4. Displayed(at', trade', shown')
  BY <1>3
<1> QED BY <1>4 DEF IntactInv

\* No step of anybody touches what is on the table.
LEMMA StepLeavesIntact == IntactInv /\ [Next]_vars => IntactInv'
<1> SUFFICES ASSUME IntactInv, [Next]_vars PROVE IntactInv'
  OBVIOUS
<1>1. TradeInv'
  BY StepKeeps DEF IntactInv
<1>2. SUFFICES Acyclic(at') /\ Displayed(at', trade', shown')
  BY <1>1 DEF IntactInv
<1>3. TradeTypes /\ PartnersAgree /\ NothingForgotten /\ online \subseteq Players
  BY DEF IntactInv, TradeInv, TradesConsistent, TradeTypes
<1>4. ASSUME UNCHANGED tradeVars PROVE Acyclic(at') /\ Displayed(at', trade', shown')
  BY <1>4, OffersUntouched DEF tradeVars
<1>5. ASSUME NEW p \in Players, CloseTrade(p) PROVE Acyclic(at') /\ Displayed(at', trade', shown')
  BY <1>5, ClosingAlone DEF CloseTrade
<1>6. ASSUME NEW p \in Players, AcceptFirst(p) PROVE Acyclic(at') /\ Displayed(at', trade', shown')
  <2>1. at' = at /\ shown' = shown /\ trade' = [trade EXCEPT ![p].state = "accept"]
    BY <1>6 DEF AcceptFirst
  <2>2. \A r \in Players : trade'[r].item = trade[r].item
    BY <1>3, <2>1 DEF TradeTypes
  <2> QED BY <2>1, <2>2, OffersUntouched
<1>7. ASSUME NEW p \in Players, AcceptNothing(p) PROVE Acyclic(at') /\ Displayed(at', trade', shown')
  BY <1>7, OffersUntouched DEF AcceptNothing
<1>8. ASSUME NEW p \in Players, Login(p) PROVE Acyclic(at') /\ Displayed(at', trade', shown')
  <2>1. p \notin online /\ at' = at /\ shown' = shown /\ trade' = [trade EXCEPT ![p] = Idle]
    BY <1>8 DEF Login, TradeLogin
  <2>2. trade[p].item = None
    BY <1>3, <2>1 DEF PartnersAgree, NothingForgotten
  <2>3. \A r \in Players : trade'[r].item = trade[r].item
    BY <1>3, <2>1, <2>2 DEF TradeTypes, Idle
  <2> QED BY <2>1, <2>3, OffersUntouched
<1>9. ASSUME NEW p \in Players, Logout(p) PROVE Acyclic(at') /\ Displayed(at', trade', shown')
  <2>1. PICK S \in SUBSET Players : S = IF trade[p].partner # None THEN {p} ELSE {}
    OBVIOUS
  <2>2. Closed(S) /\ at' = at
    BY <1>9, <2>1 DEF Logout, TradeLogout
  <2> QED BY <2>2, ClosingAlone
<1>10. ASSUME PartyNext, UNCHANGED tradeVars PROVE Acyclic(at') /\ Displayed(at', trade', shown')
  BY <1>4, <1>10
<1>11. ASSUME TradeNext PROVE Acyclic(at') /\ Displayed(at', trade', shown')
  BY <1>5, <1>6, <1>7, <1>11, SettlingLeavesIntact, RequestLeavesIntact, MoveLeavesIntact DEF TradeNext
<1>12. ASSUME NEW i \in Items, RemoveItem(i) PROVE Acyclic(at') /\ Displayed(at', trade', shown')
  BY <1>12, RemovalLeavesIntact
<1>13. ASSUME UNCHANGED vars PROVE Acyclic(at') /\ Displayed(at', trade', shown')
  BY <1>4, <1>13 DEF vars, tradeVars
<1> QED BY <1>8, <1>9, <1>10, <1>11, <1>12, <1>13 DEF Next

\* Everything lies in somebody's hands when the server starts.
LEMMA IntactInitially == Init => IntactInv
<1> SUFFICES ASSUME Init PROVE IntactInv
  OBVIOUS
<1>1. TradeInv
  BY Initially
<1>2. /\ at \in [Items -> Places] /\ \A i \in Items : at[i] \in Players /\ at[i] \notin Items
      /\ trade = [p \in Players |-> Idle] /\ shown = [p \in Players |-> {}]
  BY TradeAssumption DEF Init, TradeInit, Places
<1>3. \A i \in Items : Over(at, i) = {at[i]}
  BY <1>2, OverUnfolds
<1>4. Acyclic(at)
  BY <1>2, <1>3 DEF Acyclic
<1>5. Displayed(at, trade, shown)
  BY <1>2 DEF Displayed, Displays, Idle
<1> QED BY <1>1, <1>4, <1>5 DEF IntactInv

\* Whoever moves, fills, empties, uses up or exchanges whatever, what is on
\* offer is what the partner was shown, within its owner's reach, and part of no
\* other offer.
THEOREM OffersIntactHolds == Spec => []OffersIntact
<1>1. IntactInv => OffersIntact
  <2> SUFFICES ASSUME IntactInv, NEW p \in Players, Offering(p)
               PROVE  /\ Whole(trade[p].item) = shown[p]
                      /\ Reachable(p, trade[p].item)
                      /\ \A q \in Players \ {p} : shown[p] \intersect shown[q] = {}
    BY DEF OffersIntact
  <2>1. Acyclic(at) /\ TradeInv /\ Displays(at, trade[p].item, shown[p], p) /\ trade[p].item # None
        /\ \A q \in Players \ {p} : shown[p] \intersect shown[q] = {}
    BY DEF IntactInv, Displayed, Offering
  <2>2. PICK x \in Items : x = trade[p].item
    BY <2>1, OfferersAre
  <2>3. Whole(x) = WholeIn(at, x) /\ Top(x) = TopIn(at, x)
    BY <2>1, ChainIs
  <2> QED BY <2>1, <2>2, <2>3 DEF Displays, Reachable
<1> QED BY <1>1, IntactInitially, StepLeavesIntact, PTL DEF Spec

-----------------------------------------------------------------------------
(* Parties.  PartiesConsistent says nothing of the types, and it fails in  *)
(* the middle of a step: a party being emptied is no party for a moment,   *)
(* and a player on his way out has invitations that no party knows of any  *)
(* more.  So Kept takes the parties and the players that are excused as    *)
(* parameters; every call of Party:: keeps it, and in between steps nobody *)
(* is excused (Agreeing).  The loop of clearPartyInvitations is a fold     *)
(* over a finite set, followed set by set (Halfway).                       *)

\* Those in a list of members.
In(m) == {m[k] : k \in DOMAIN m}

\* A list without its element at j: what came before stays, the rest moves up.
LEMMA Cut ==
  ASSUME NEW S, NEW m \in Seq(S), NEW j \in 1..Len(m)
  PROVE  /\ RemoveAt(m, j) \in Seq(S) /\ Len(RemoveAt(m, j)) = Len(m) - 1
         /\ \A i \in 1..(j - 1) : RemoveAt(m, j)[i] = m[i]
         /\ \A i \in (j + 1)..Len(m) : RemoveAt(m, j)[i - 1] = m[i]
<1> DEFINE L == SubSeq(m, 1, j - 1)
           R == SubSeq(m, j + 1, Len(m))
<1>1. Len(m) \in Nat /\ j \in Int /\ 1 <= j /\ j <= Len(m)
  OBVIOUS
<1>2. PICK n \in Nat : n = Len(m)
  BY <1>1
<1>3. \A i \in 1..n : m[i] \in S
  BY <1>2
<1>4. /\ L \in Seq(S) /\ Len(L) = j - 1
      /\ \A i \in 1..(j - 1) : L[i] = m[i]
  <2>1. \A i \in 1..(j - 1) : m[i] \in S
    BY <1>1, <1>2, <1>3
  <2>2. /\ L \in Seq(S) /\ Len(L) = IF 1 <= j - 1 THEN (j - 1) - 1 + 1 ELSE 0
        /\ \A i \in 1..((j - 1) - 1 + 1) : L[i] = m[1 + i - 1]
    BY <1>1, <2>1, SubSeqProperties
  <2>3. \A i \in 1..(j - 1) : i \in 1..((j - 1) - 1 + 1) /\ 1 + i - 1 = i
    BY <1>1
  <2> HIDE DEF L
  <2> QED BY <1>1, <2>2, <2>3
<1>5. /\ R \in Seq(S) /\ Len(R) = n - j
      /\ \A i \in 1..(n - j) : R[i] = m[j + i]
  <2>1. \A i \in (j + 1)..n : m[i] \in S
    BY <1>1, <1>2, <1>3
  <2>2. /\ R \in Seq(S) /\ Len(R) = IF j + 1 <= n THEN n - (j + 1) + 1 ELSE 0
        /\ \A i \in 1..(n - (j + 1) + 1) : R[i] = m[(j + 1) + i - 1]
    BY <1>1, <1>2, <2>1, SubSeqProperties
  <2>3. \A i \in 1..(n - j) : i \in 1..(n - (j + 1) + 1) /\ (j + 1) + i - 1 = j + i
    BY <1>1, <1>2
  <2> HIDE DEF R
  <2> QED BY <1>1, <1>2, <2>2, <2>3
<1> HIDE DEF L, R
<1>6. /\ L \o R \in Seq(S) /\ Len(L \o R) = Len(L) + Len(R)
      /\ \A i \in 1..(Len(L) + Len(R)) : (L \o R)[i] = IF i <= Len(L) THEN L[i] ELSE R[i - Len(L)]
  BY <1>4, <1>5, ConcatProperties
<1>7. /\ L \o R \in Seq(S) /\ Len(L \o R) = n - 1
      /\ \A i \in 1..(n - 1) : (L \o R)[i] = IF i <= j - 1 THEN L[i] ELSE R[i - (j - 1)]
  BY <1>1, <1>2, <1>4, <1>5, <1>6
<1>8. \A i \in 1..(j - 1) : (L \o R)[i] = m[i]
  BY <1>1, <1>2, <1>4, <1>7
<1>9. \A i \in (j + 1)..n : (L \o R)[i - 1] = m[i]
  <2> TAKE i \in (j + 1)..n
  <2>1. i - 1 \in 1..(n - 1) /\ ~(i - 1 <= j - 1) /\ (i - 1) - (j - 1) = i - j
    BY <1>1, <1>2
  <2>2. i - j \in 1..(n - j) /\ j + (i - j) = i
    BY <1>1, <1>2
  <2>3. (L \o R)[i - 1] = R[i - j]
    BY <1>7, <2>1
  <2>4. R[i - j] = m[j + (i - j)]
    BY <1>5, <2>2
  <2> QED BY <2>2, <2>3, <2>4
<1>10. RemoveAt(m, j) = L \o R
  BY DEF RemoveAt, L, R
<1> QED BY <1>2, <1>7, <1>8, <1>9, <1>10

\* std::find and erase: the list without the one erased, who was in it once.
LEMMA Erased ==
  ASSUME NEW S, NEW m \in Seq(S), IsInjective(m), NEW p
  PROVE  /\ RemoveFirst(m, p) \in Seq(S) /\ IsInjective(RemoveFirst(m, p))
         /\ In(RemoveFirst(m, p)) = In(m) \ {p}
         /\ p \in In(m) => Len(RemoveFirst(m, p)) = Len(m) - 1
<1>1. /\ DOMAIN m = 1..Len(m) /\ Len(m) \in Nat
      /\ \A a, b \in 1..Len(m) : m[a] = m[b] => a = b
  <2>1. DOMAIN m = 1..Len(m) /\ Len(m) \in Nat
    OBVIOUS
  <2>2. ASSUME NEW a \in DOMAIN m, NEW b \in DOMAIN m, m[a] = m[b] PROVE a = b
    BY <2>2, Zenon DEF IsInjective
  <2> QED BY <2>1, <2>2, Zenon
<1>2. CASE ~\E i \in 1..Len(m) : m[i] = p
  BY <1>1, <1>2 DEF RemoveFirst, In
<1>3. CASE \E i \in 1..Len(m) : m[i] = p
  <2>1. PICK j \in 1..Len(m) : m[j] = p
    BY <1>3
  <2>2. {i \in 1..Len(m) : m[i] = p} = {j}
    BY <1>1, <2>1
  <2>3. Min({j}) = j
    BY <2>1 DEF Min
  <2>4. RemoveFirst(m, p) = RemoveAt(m, j)
    BY <1>3, <2>2, <2>3 DEF RemoveFirst, SelectInSeq
  <2> DEFINE r == RemoveAt(m, j)
  <2>5. PICK n \in Nat : n = Len(m)
    BY <1>1
  <2>6. /\ r \in Seq(S) /\ Len(r) = n - 1
        /\ \A i \in 1..(j - 1) : r[i] = m[i]
        /\ \A i \in (j + 1)..n : r[i - 1] = m[i]
    BY <2>5, Cut
  <2> HIDE DEF r
  <2>7. DOMAIN r = 1..(n - 1)
    BY <2>6
  <2> DEFINE was(i) == IF i < j THEN i ELSE i + 1
  <2>8. \A i \in 1..(n - 1) : was(i) \in 1..n /\ was(i) # j /\ r[i] = m[was(i)]
    <3> TAKE i \in 1..(n - 1)
    <3>1. CASE i < j
      BY <2>5, <2>6, <3>1
    <3>2. CASE i >= j
      <4>1. i + 1 \in (j + 1)..n /\ (i + 1) - 1 = i
        BY <2>5, <3>2
      <4> QED BY <2>5, <2>6, <3>2, <4>1
    <3> QED BY <2>5, <3>1, <3>2
  <2>9. \A a, b \in 1..(n - 1) : was(a) = was(b) => a = b
    BY <2>5
  <2>10. \A i \in 1..n : i # j => \E a \in 1..(n - 1) : was(a) = i
    <3> TAKE i \in 1..n
    <3>1. CASE i < j
      BY <2>5, <3>1
    <3>2. CASE i > j
      <4>1. i - 1 \in 1..(n - 1) /\ was(i - 1) = i
        BY <2>5, <3>2
      <4> QED BY <4>1
    <3> QED BY <2>5, <3>1, <3>2
  <2> HIDE DEF was
  <2>11. IsInjective(r)
    BY <1>1, <2>5, <2>7, <2>8, <2>9 DEF IsInjective
  <2>12. \A x \in In(r) : x \in In(m) \ {p}
    BY <1>1, <2>1, <2>5, <2>7, <2>8 DEF In
  <2>13. ASSUME NEW x \in In(m) \ {p} PROVE x \in In(r)
    <3>1. PICK i \in 1..n : m[i] = x /\ i # j
      BY <1>1, <2>1, <2>5 DEF In
    <3>2. PICK a \in 1..(n - 1) : was(a) = i
      BY <2>10, <3>1
    <3> QED BY <2>7, <2>8, <3>1, <3>2 DEF In
  <2>14. In(r) = In(m) \ {p}
    BY <2>12, <2>13
  <2> QED BY <2>4, <2>5, <2>6, <2>11, <2>14 DEF r
<1> QED BY <1>2, <1>3

\* push_back, and insert at the front, of somebody who is not in the list.
LEMMA Appended ==
  ASSUME NEW S, NEW m \in Seq(S), IsInjective(m), NEW p \in S, p \notin In(m)
  PROVE  LET r == Append(m, p) IN r \in Seq(S) /\ IsInjective(r) /\ In(r) = In(m) \union {p} /\ r # << >>
<1> DEFINE r == Append(m, p)
<1>1. /\ DOMAIN m = 1..Len(m) /\ Len(m) \in Nat
      /\ r \in Seq(S) /\ DOMAIN r = 1..(Len(m) + 1)
      /\ \A i \in 1..Len(m) : r[i] = m[i]
      /\ r[Len(m) + 1] = p /\ r # << >>
  OBVIOUS
<1> HIDE DEF r
<1>2. IsInjective(r)
  <2>1. PICK n \in Nat : n = Len(m) /\ DOMAIN m = 1..n /\ DOMAIN r = 1..(n + 1) /\ r[n + 1] = p
    BY <1>1
  <2>2. \A i, j \in 1..n : m[i] = m[j] => i = j
    BY <2>1 DEF IsInjective
  <2>3. \A i \in 1..n : r[i] = m[i] /\ r[i] # p
    BY <1>1, <2>1 DEF In
  <2>4. \A i \in 1..(n + 1) : i = n + 1 \/ i \in 1..n
    BY <2>1
  <2>5. \A i, j \in 1..(n + 1) : r[i] = r[j] => i = j
    BY <2>1, <2>2, <2>3, <2>4
  <2>6. \A i, j \in DOMAIN r : r[i] = r[j] => i = j
    BY <2>1, <2>5, Zenon
  <2> QED BY <2>6, Zenon DEF IsInjective
<1>3. In(r) = In(m) \union {p}
  BY <1>1 DEF In
<1>4. r \in Seq(S) /\ r # << >>
  BY <1>1
<1> QED BY <1>2, <1>3, <1>4, Zenon DEF r

\* A list with a player before it.
LEMMA Prepended ==
  ASSUME NEW S, NEW m \in Seq(S), IsInjective(m), NEW p \in S, p \notin In(m)
  PROVE  LET r == <<p>> \o m IN r \in Seq(S) /\ IsInjective(r) /\ In(r) = In(m) \union {p} /\ r # << >>
<1> DEFINE r == <<p>> \o m
<1>1. /\ DOMAIN m = 1..Len(m) /\ Len(m) \in Nat
      /\ r \in Seq(S) /\ DOMAIN r = 1..(Len(m) + 1)
      /\ \A i \in 2..(Len(m) + 1) : r[i] = m[i - 1]
      /\ r[1] = p /\ r # << >>
  OBVIOUS
<1> HIDE DEF r
<1>2. IsInjective(r)
  <2>1. PICK n \in Nat : n = Len(m) /\ DOMAIN m = 1..n /\ DOMAIN r = 1..(n + 1) /\ r[1] = p
    BY <1>1
  <2>2. \A i, j \in 1..n : m[i] = m[j] => i = j
    BY <2>1 DEF IsInjective
  <2>3. \A i \in 1..(n + 1) : i = 1 \/ (i - 1 \in 1..n /\ r[i] = m[i - 1])
    BY <1>1, <2>1
  <2>4. \A i \in 1..n : m[i] # p
    BY <2>1 DEF In
  <2>5. ASSUME NEW i \in 1..(n + 1), NEW j \in 1..(n + 1), r[i] = r[j] PROVE i = j
    <3>1. CASE i = 1 \/ j = 1
      BY <2>1, <2>3, <2>4, <2>5, <3>1
    <3>2. CASE i # 1 /\ j # 1
      <4>1. i - 1 \in 1..n /\ j - 1 \in 1..n /\ m[i - 1] = m[j - 1]
        BY <2>3, <2>5, <3>2
      <4>2. i - 1 = j - 1
        BY <2>2, <4>1
      <4> QED BY <4>2
    <3> QED BY <3>1, <3>2
  <2>6. \A i, j \in DOMAIN r : r[i] = r[j] => i = j
    BY <2>1, <2>5, Zenon
  <2> QED BY <2>6, Zenon DEF IsInjective
<1>3. In(r) = In(m) \union {p}
  <2>1. \A x \in In(r) : x \in In(m) \union {p}
    <3>1. \A i \in DOMAIN r : i = 1 \/ (i \in 2..(Len(m) + 1) /\ i - 1 \in DOMAIN m)
      BY <1>1
    <3> QED BY <1>1, <3>1 DEF In
  <2>2. \A i \in 1..Len(m) : i + 1 \in DOMAIN r /\ r[i + 1] = m[i]
    BY <1>1
  <2>3. \A x \in In(m) : x \in In(r)
    BY <1>1, <2>2 DEF In
  <2>4. p \in In(r)
    BY <1>1 DEF In
  <2> QED BY <2>1, <2>3, <2>4
<1> QED BY <1>1, <1>2, <1>3 DEF r

\* The first of a list is in it, and the only one of a list of one.
LEMMA Foremost ==
  ASSUME NEW S, NEW m \in Seq(S)
  PROVE  /\ m # << >> => Head(m) \in In(m)
         /\ m = << >> <=> In(m) = {}
         /\ In(m) \subseteq S /\ Len(m) = 1 /\ IsInjective(m) => In(m) = {Head(m)}
<1>1. DOMAIN m = 1..Len(m) /\ Len(m) \in Nat
  OBVIOUS
<1>2. m # << >> => 1 \in DOMAIN m /\ Head(m) = m[1]
  BY <1>1
<1>3. Len(m) = 1 => In(m) = {m[1]} /\ m # << >>
  <2>1. Len(m) = 1 => DOMAIN m = {1}
    BY <1>1
  <2>2. DOMAIN m = {1} => In(m) = {m[1]}
    BY Zenon DEF In
  <2>3. Len(m) = 1 => m # << >>
    OBVIOUS
  <2> QED BY <2>1, <2>2, <2>3
<1>4. m # << >> => In(m) # {}
  BY <1>2 DEF In
<1>5. m = << >> => In(m) = {}
  BY <1>1 DEF In
<1>6. In(m) \subseteq S
  BY <1>1 DEF In
<1>7. m # << >> => Head(m) \in In(m)
  BY <1>2 DEF In
<1>8. Len(m) = 1 => In(m) = {Head(m)}
  BY <1>2, <1>3
<1> QED BY <1>4, <1>5, <1>6, <1>7, <1>8

\* Party objects, and all that is kept about parties.
Parties == [leader : Players \union {None}, members : Seq(Players), invited : SUBSET Players]
Groups == [of : [Players -> PartyIds \union {None}], invites : [Players -> SUBSET PartyIds],
           parties : [PartyIds -> Parties]]

\* Leader and members.
Mine(P) == {P.leader} \union In(P.members)

\* The people of a party are players in O, each there once, and nobody of them
\* is invited.
Peopled(P, O) ==
  /\ P.leader \in O /\ In(P.members) \subseteq O
  /\ IsInjective(P.members) /\ P.leader \notin In(P.members)
  /\ P.invited \subseteq O /\ P.invited \intersect Mine(P) = {}

\* Nobody but the leader is left.
Deserted(P) == P.members = << >> /\ P.invited = {}

\* Every party is freed or has its people among the players in O; outside E
\* somebody beside the leader is left in it; what the players in O point to is
\* the party they are in; what the players in N keep of invitations are the
\* parties that invite them.
Kept(g, E, O, N) ==
  /\ g \in Groups
  /\ \A id \in PartyIds :
       LET P == g.parties[id] IN P = Dead \/ (Peopled(P, O) /\ (id \notin E => ~Deserted(P)))
  /\ \A q \in O, id \in PartyIds : g.of[q] = id <=> q \in Mine(g.parties[id])
  /\ \A q \in N, id \in PartyIds : id \in g.invites[q] <=> q \in g.parties[id].invited

\* A freed party has nobody.
LEMMA DeadIs ==
  /\ Dead \in Parties /\ Mine(Dead) = {None} /\ Dead.invited = {} /\ Dead.leader = None
  /\ Dead.members = << >> /\ IsInjective(Dead.members) /\ In(Dead.members) = {}
  BY DEF Dead, Parties, Mine, In, IsInjective

\* None is neither a player nor a party.
LEMMA Nobody == None \notin Players /\ None \notin PartyIds
  BY OnlineAssumption, PartyAssumption

\* What changes one party and the pointers to it.
LEMMA Rewired ==
  ASSUME NEW g, NEW E, NEW O \in SUBSET Players, NEW N \in SUBSET O, Kept(g, E, O, N),
         NEW id \in PartyIds, NEW h \in Groups, NEW F,
         \A j \in PartyIds \ {id} : h.parties[j] = g.parties[j],
         \A j \in PartyIds \ {id} : j \in E => j \in F,
         h.parties[id] = Dead \/ (Peopled(h.parties[id], O) /\ (id \notin F => ~Deserted(h.parties[id]))),
         \A q \in O, j \in PartyIds \ {id} : h.of[q] = j <=> g.of[q] = j,
         \A q \in O : h.of[q] = id <=> q \in Mine(h.parties[id]),
         \A q \in N, j \in PartyIds \ {id} : j \in h.invites[q] <=> j \in g.invites[q],
         \A q \in N : id \in h.invites[q] <=> q \in h.parties[id].invited
  PROVE  Kept(h, F, O, N)
<1>1. \A j \in PartyIds :
        LET P == h.parties[j] IN P = Dead \/ (Peopled(P, O) /\ (j \notin F => ~Deserted(P)))
  BY DEF Kept
<1>2. \A q \in O, j \in PartyIds : h.of[q] = j <=> q \in Mine(h.parties[j])
  BY DEF Kept
<1>3. \A q \in N, j \in PartyIds : j \in h.invites[q] <=> q \in h.parties[j].invited
  BY DEF Kept
<1> QED BY <1>1, <1>2, <1>3 DEF Kept

\* disband of a party excused: what named it names nothing, and the rest is as it was.
LEMMA DisbandedKeeps ==
  ASSUME NEW g, NEW O \in SUBSET Players, NEW N \in SUBSET O, NEW id \in PartyIds,
         Kept(g, {id}, O, N)
  PROVE  Kept(Disbanded(g, id), {}, O, N)
<1> DEFINE h == Disbanded(g, id)
           P == g.parties[id]
<1>1. g \in Groups /\ P \in Parties /\ (P = Dead \/ Peopled(P, O))
  BY DEF Kept, Groups
<1>2. /\ h.of = [p \in Players |-> IF p \in Mine(P) THEN None ELSE g.of[p]]
      /\ h.invites = [p \in Players |-> IF p \in P.invited THEN g.invites[p] \ {id} ELSE g.invites[p]]
      /\ h.parties = [g.parties EXCEPT ![id] = Dead]
  BY DEF Disbanded, MembersOf, Mine, In
<1>3. h \in Groups
  <2>1. /\ h = [of |-> h.of, invites |-> h.invites, parties |-> h.parties]
    BY DEF Disbanded
  <2>2. h.of \in [Players -> PartyIds \union {None}]
    BY <1>1, <1>2 DEF Groups
  <2>3. h.invites \in [Players -> SUBSET PartyIds]
    BY <1>1, <1>2 DEF Groups
  <2>4. h.parties \in [PartyIds -> Parties]
    BY <1>1, <1>2, DeadIs DEF Groups
  <2> HIDE DEF h
  <2> QED BY <2>1, <2>2, <2>3, <2>4 DEF Groups
<1>4. h.parties[id] = Dead /\ \A j \in PartyIds \ {id} : h.parties[j] = g.parties[j]
  BY <1>1, <1>2 DEF Groups
<1>5. /\ \A q \in O : q \in Mine(P) <=> g.of[q] = id
      /\ \A q \in N : q \in P.invited <=> id \in g.invites[q]
  BY DEF Kept
<1>6. \A q \in O : h.of[q] = IF g.of[q] = id THEN None ELSE g.of[q]
  BY <1>2, <1>5
<1>7. \A q \in N : h.invites[q] = g.invites[q] \ {id}
  BY <1>2, <1>5
<1> HIDE DEF h
<1>8. \A q \in O, j \in PartyIds \ {id} : h.of[q] = j <=> g.of[q] = j
  BY <1>6, Nobody
<1>9. \A q \in O : h.of[q] = id <=> q \in Mine(h.parties[id])
  BY <1>4, <1>6, Nobody, DeadIs
<1>10. \A q \in N, j \in PartyIds \ {id} : j \in h.invites[q] <=> j \in g.invites[q]
  BY <1>7
<1>11. \A q \in N : id \in h.invites[q] <=> q \in h.parties[id].invited
  BY <1>4, <1>7, DeadIs
<1>12. h.parties[id] = Dead \/ (Peopled(h.parties[id], O) /\ (id \notin {} => ~Deserted(h.parties[id])))
  BY <1>4
<1>13. \A j \in PartyIds \ {id} : j \in {id} => j \in {}
  OBVIOUS
<1>14. \A j \in PartyIds \ {id} : h.parties[j] = g.parties[j]
  BY <1>4
<1>15. Kept(h, {}, O, N)
  BY <1>3, <1>8, <1>9, <1>10, <1>11, <1>12, <1>13, <1>14, Rewired
<1> QED BY <1>15 DEF h

\* So a party excused is in order once it is disbanded if empty.
LEMMA IfEmptyKeeps ==
  ASSUME NEW g, NEW O \in SUBSET Players, NEW N \in SUBSET O, NEW id \in PartyIds,
         Kept(g, {id}, O, N)
  PROVE  Kept(DisbandedIfEmpty(g, id), {}, O, N)
<1>1. CASE Empty(g, id)
  BY <1>1, DisbandedKeeps DEF DisbandedIfEmpty
<1>2. CASE ~Empty(g, id)
  <2>1. ~Deserted(g.parties[id])
    BY <1>2 DEF Empty, Deserted
  <2>2. Kept(g, {}, O, N)
    BY <2>1 DEF Kept
  <2> QED BY <1>2, <2>2 DEF DisbandedIfEmpty
<1> QED BY <1>1, <1>2

\* One party and the pointers of players are replaced.
Rewire(g, id, Q, a, b) == [g EXCEPT !.parties = [g.parties EXCEPT ![id] = Q], !.of = a, !.invites = b]

\* Fields of the groups replaced one by one.
LEMMA GroupFields ==
  ASSUME NEW A, NEW B, NEW C, NEW g \in [of : A, invites : B, parties : C],
         NEW a \in A, NEW b \in B, NEW c \in C
  PROVE  [g EXCEPT !.parties = c, !.of = a, !.invites = b] \in [of : A, invites : B, parties : C]
  OBVIOUS

\* What Rewire replaces, and what it leaves.
LEMMA RewireIs ==
  ASSUME NEW g \in Groups, NEW id \in PartyIds, NEW Q \in Parties,
         NEW a \in [Players -> PartyIds \union {None}], NEW b \in [Players -> SUBSET PartyIds]
  PROVE  LET h == Rewire(g, id, Q, a, b) IN
         /\ h \in Groups /\ h.parties[id] = Q /\ h.of = a /\ h.invites = b
         /\ \A j \in PartyIds \ {id} : h.parties[j] = g.parties[j]
<1> DEFINE h == Rewire(g, id, Q, a, b)
<1>1. [g.parties EXCEPT ![id] = Q] \in [PartyIds -> Parties]
  BY DEF Groups
<1>2. h \in Groups
  BY <1>1, GroupFields DEF Groups, Rewire
<1> QED BY <1>2 DEF Groups, Rewire

\* What becomes of a party: the leader and a member change places, a member is
\* erased, ...
Swapped(P, q) == [P EXCEPT !.leader = q, !.members = <<P.leader>> \o RemoveFirst(P.members, q)]
Without(P, p) == [P EXCEPT !.members = RemoveFirst(P.members, p)]

\* The leader and a member change places.
LEMMA SwappedIs ==
  ASSUME NEW O \in SUBSET Players, NEW P \in Parties, Peopled(P, O), NEW q \in In(P.members)
  PROVE  LET Q == Swapped(P, q) IN
         /\ Q \in Parties /\ Mine(Q) = Mine(P) /\ Peopled(Q, O) /\ ~Deserted(Q)
         /\ Q.leader = q /\ Q.invited = P.invited
<1> DEFINE rest == RemoveFirst(P.members, q)
           m == <<P.leader>> \o rest
           Q == Swapped(P, q)
<1>1. /\ P.members \in Seq(Players) /\ IsInjective(P.members) /\ P.leader \notin In(P.members)
      /\ P.leader \in O /\ P.invited \subseteq O /\ In(P.members) \subseteq O
      /\ P.invited \intersect Mine(P) = {}
  BY DEF Parties, Peopled
<1>2. rest \in Seq(Players) /\ IsInjective(rest) /\ In(rest) = In(P.members) \ {q}
  BY <1>1, Erased
<1>3. Q = [P EXCEPT !.leader = q, !.members = m]
  BY DEF Swapped
<1> HIDE DEF rest, Q
<1>4. P.leader \notin In(rest) /\ P.leader \in Players
  BY <1>1, <1>2
<1>5. m \in Seq(Players) /\ IsInjective(m) /\ In(m) = In(rest) \union {P.leader} /\ m # << >>
  BY <1>2, <1>4, Prepended
<1> HIDE DEF m
<1>6. Q.leader = q /\ Q.members = m /\ Q.invited = P.invited
  BY <1>3 DEF Parties
<1>7. q \in Players
  BY <1>1
<1>8. Q \in Parties
  BY <1>3, <1>5, <1>7 DEF Parties
<1>9. Mine(Q) = Mine(P)
  BY <1>1, <1>2, <1>5, <1>6 DEF Mine
<1>10. Q.leader \in O /\ In(Q.members) \subseteq O
  BY <1>1, <1>2, <1>5, <1>6
<1>11. q # P.leader
  BY <1>1
<1>12. IsInjective(Q.members) /\ Q.leader \notin In(Q.members)
  BY <1>2, <1>5, <1>6, <1>11
<1>13. Q.members # << >>
  BY <1>5, <1>6
<1>14. Peopled(Q, O) /\ ~Deserted(Q)
  BY <1>1, <1>6, <1>9, <1>10, <1>12, <1>13 DEF Peopled, Deserted
<1> QED BY <1>6, <1>8, <1>9, <1>14 DEF Q

\* A member is erased from the list.
LEMMA WithoutIs ==
  ASSUME NEW O \in SUBSET Players, NEW P \in Parties, Peopled(P, O), NEW p \in In(P.members)
  PROVE  LET Q == Without(P, p) IN
         /\ Q \in Parties /\ Mine(Q) = Mine(P) \ {p} /\ Peopled(Q, O) /\ Q.invited = P.invited
<1> DEFINE rest == RemoveFirst(P.members, p)
           Q == Without(P, p)
<1>1. /\ P.members \in Seq(Players) /\ IsInjective(P.members) /\ P.leader \notin In(P.members)
      /\ P.leader \in O /\ P.invited \subseteq O /\ In(P.members) \subseteq O
      /\ P.invited \intersect Mine(P) = {}
  BY DEF Parties, Peopled
<1>2. rest \in Seq(Players) /\ IsInjective(rest) /\ In(rest) = In(P.members) \ {p}
  BY <1>1, Erased
<1>3. Q = [P EXCEPT !.members = rest]
  BY DEF Without
<1> HIDE DEF rest, Q
<1>4. Q \in Parties
  BY <1>2, <1>3 DEF Parties
<1>5. Q.leader = P.leader /\ Q.members = rest /\ Q.invited = P.invited
  BY <1>3 DEF Parties
<1>6. Mine(Q) = Mine(P) \ {p}
  BY <1>1, <1>2, <1>5 DEF Mine
<1>7. Q.leader \in O /\ In(Q.members) \subseteq O /\ Q.invited \subseteq O
  BY <1>1, <1>2, <1>5
<1>8. IsInjective(Q.members) /\ Q.leader \notin In(Q.members)
  BY <1>1, <1>2, <1>5
<1>9. Q.invited \intersect Mine(Q) = {}
  BY <1>1, <1>5, <1>6
<1>10. Peopled(Q, O)
  BY <1>7, <1>8, <1>9 DEF Peopled
<1> QED BY <1>4, <1>5, <1>6, <1>10 DEF Q

\* passPartyLeadership to a member.
LEMMA PassedKeeps ==
  ASSUME NEW g, NEW O \in SUBSET Players, NEW N \in SUBSET O, NEW id \in PartyIds,
         Kept(g, {}, O, N), NEW q \in In(g.parties[id].members)
  PROVE  /\ Kept(Passed(g, id, q), {}, O, N)
         /\ Passed(g, id, q).parties[id].leader = q
         /\ Passed(g, id, q).of = g.of /\ Passed(g, id, q).invites = g.invites
<1> DEFINE P == g.parties[id]
           Q == Swapped(P, q)
           h == Rewire(g, id, Q, g.of, g.invites)
<1>1. g \in Groups /\ P \in Parties /\ P # Dead /\ Peopled(P, O)
  BY DeadIs DEF Kept, Groups
<1>2. Passed(g, id, q) = h
  BY <1>1 DEF Passed, Groups, Swapped, Rewire
<1>3. Q \in Parties /\ Mine(Q) = Mine(P) /\ Peopled(Q, O) /\ ~Deserted(Q) /\ Q.leader = q /\ Q.invited = P.invited
  BY <1>1, SwappedIs
<1> HIDE DEF Q
<1>4. g.of \in [Players -> PartyIds \union {None}] /\ g.invites \in [Players -> SUBSET PartyIds]
  BY <1>1 DEF Groups
<1>5. /\ h \in Groups /\ h.parties[id] = Q /\ h.of = g.of /\ h.invites = g.invites
       /\ \A j \in PartyIds \ {id} : h.parties[j] = g.parties[j]
  BY <1>1, <1>3, <1>4, RewireIs
<1> HIDE DEF h
<1>6. Kept(h, {}, O, N)
  <2>1. \A r \in O : h.of[r] = id <=> r \in Mine(h.parties[id])
    BY <1>3, <1>5 DEF Kept
  <2>2. \A r \in N : id \in h.invites[r] <=> r \in h.parties[id].invited
    BY <1>3, <1>5 DEF Kept
  <2>3. h.parties[id] = Dead \/ (Peopled(h.parties[id], O) /\ (id \notin {} => ~Deserted(h.parties[id])))
    BY <1>3, <1>5
  <2>4. /\ \A r \in O, j \in PartyIds \ {id} : h.of[r] = j <=> g.of[r] = j
        /\ \A r \in N, j \in PartyIds \ {id} : j \in h.invites[r] <=> j \in g.invites[r]
    BY <1>5
  <2>5. \A j \in PartyIds \ {id} : j \in {} => j \in {}
    OBVIOUS
  <2> QED BY <1>5, <2>1, <2>2, <2>3, <2>4, <2>5, Rewired
<1> QED BY <1>2, <1>3, <1>5, <1>6

\* A member is erased from the list and his pointer cleared.
Released(g, id, p) == [g EXCEPT !.parties[id].members = RemoveFirst(@, p), !.of[p] = None]

\* A member leaves: erased from the list, and his pointer cleared.
LEMMA UnmemberedKeeps ==
  ASSUME NEW g, NEW O \in SUBSET Players, NEW N \in SUBSET O, NEW id \in PartyIds,
         Kept(g, {}, O, N), NEW p \in O, g.of[p] = id, g.parties[id].leader # p
  PROVE  LET h == Released(g, id, p) IN
         Kept(h, {id}, O, N) /\ h.of[p] = None /\ h.invites = g.invites
<1> DEFINE P == g.parties[id]
           Q == Without(P, p)
           a == [g.of EXCEPT ![p] = None]
           h == Rewire(g, id, Q, a, g.invites)
<1>1. g \in Groups /\ P \in Parties /\ p \in Mine(P) /\ p \in In(P.members)
  BY DEF Kept, Groups, Mine
<1>2. Peopled(P, O)
  BY <1>1, DeadIs DEF Kept
<1>3. h = Released(g, id, p)
  BY <1>1 DEF Groups, Rewire, Without, Released
<1>4. Q \in Parties /\ Mine(Q) = Mine(P) \ {p} /\ Peopled(Q, O) /\ Q.invited = P.invited
  BY <1>1, <1>2, WithoutIs
<1> HIDE DEF Q
<1>5. /\ a \in [Players -> PartyIds \union {None}] /\ g.invites \in [Players -> SUBSET PartyIds]
      /\ a[p] = None /\ \A q \in Players \ {p} : a[q] = g.of[q]
  BY <1>1 DEF Groups
<1> HIDE DEF a
<1>6. /\ h \in Groups /\ h.parties[id] = Q /\ h.of = a /\ h.invites = g.invites
       /\ \A j \in PartyIds \ {id} : h.parties[j] = g.parties[j]
  BY <1>1, <1>4, <1>5, RewireIs
<1> HIDE DEF h
<1>7. \A q \in O, j \in PartyIds \ {id} : h.of[q] = j <=> g.of[q] = j
  BY <1>6, <1>5, Nobody
<1>8. \A q \in O : h.of[q] = id <=> q \in Mine(h.parties[id])
  BY <1>4, <1>5, <1>6, Nobody DEF Kept
<1>9. \A q \in N, j \in PartyIds \ {id} : j \in h.invites[q] <=> j \in g.invites[q]
  BY <1>6
<1>10. \A q \in N : id \in h.invites[q] <=> q \in h.parties[id].invited
  BY <1>4, <1>6 DEF Kept
<1>11. h.parties[id] = Dead \/ (Peopled(h.parties[id], O) /\ (id \notin {id} => ~Deserted(h.parties[id])))
  BY <1>4, <1>6
<1>12. \A j \in PartyIds \ {id} : j \in {} => j \in {id}
  OBVIOUS
<1>13. \A j \in PartyIds \ {id} : h.parties[j] = g.parties[j]
  BY <1>6
<1>14. h \in Groups
  BY <1>6
<1>15. Kept(h, {id}, O, N)
  BY <1>7, <1>8, <1>9, <1>10, <1>11, <1>12, <1>13, <1>14, Rewired
<1> QED BY <1>3, <1>5, <1>6, <1>15

\* Disbanding only takes pointers and invitations away.
LEMMA DisbandedShrinks ==
  ASSUME NEW g \in Groups, NEW id \in PartyIds
  PROVE  /\ \A q \in Players : Disbanded(g, id).of[q] \in {None, g.of[q]}
         /\ \A q \in Players : Disbanded(g, id).invites[q] \subseteq g.invites[q]
         /\ \A q \in Players : q \notin g.parties[id].invited => Disbanded(g, id).invites[q] = g.invites[q]
         /\ \A j \in PartyIds \ {id} : Disbanded(g, id).parties[j] = g.parties[j]
         /\ Disbanded(g, id).parties[id] = Dead
<1>1. g.parties \in [PartyIds -> Parties]
  BY DEF Groups
<1> QED BY <1>1 DEF Disbanded

\* Nor does disbanding if empty add anything.
LEMMA IfEmptyShrinks ==
  ASSUME NEW g \in Groups, NEW id \in PartyIds
  PROVE  LET h == DisbandedIfEmpty(g, id) IN
         /\ \A q \in Players : h.of[q] \in {None, g.of[q]}
         /\ \A q \in Players : h.invites[q] \subseteq g.invites[q]
         /\ \A q \in Players : q \notin g.parties[id].invited => h.invites[q] = g.invites[q]
         /\ \A j \in PartyIds \ {id} : h.parties[j] = g.parties[j]
         /\ h.parties[id] \in {Dead, g.parties[id]}
<1>1. CASE Empty(g, id)
  <2>1. DisbandedIfEmpty(g, id) = Disbanded(g, id)
    BY <1>1 DEF DisbandedIfEmpty
  <2> QED BY <2>1, DisbandedShrinks
<1>2. CASE ~Empty(g, id)
  <2>1. DisbandedIfEmpty(g, id) = g
    BY <1>2 DEF DisbandedIfEmpty
  <2> QED BY <2>1
<1> QED BY <1>1, <1>2

\* Nobody is erased who is not in the list.
LEMMA NothingErased ==
  ASSUME NEW S, NEW m \in Seq(S), NEW p, p \notin In(m)
  PROVE  RemoveFirst(m, p) = m
  BY DEF In, RemoveFirst

\* A leader who leaves only one member, or nobody, behind disbands the party.
LEMMA LeftAlone ==
  ASSUME NEW g, NEW O \in SUBSET Players, NEW N \in SUBSET O, NEW id \in PartyIds,
         Kept(g, {}, O, N), NEW p \in O, g.parties[id].leader = p
  PROVE  Disbanded(Released(g, id, p), id) = Disbanded(g, id)
<1> DEFINE P == g.parties[id]
           Q == Without(P, p)
           a == [g.of EXCEPT ![p] = None]
           h == Rewire(g, id, Q, a, g.invites)
<1>1. g \in Groups /\ P \in Parties
  BY DEF Kept, Groups
<1>2. P # Dead /\ Peopled(P, O)
  BY <1>1, DeadIs, Nobody DEF Kept
<1>3. h = Released(g, id, p)
  BY <1>1 DEF Groups, Rewire, Without, Released
<1>4. P.members \in Seq(Players) /\ p \notin In(P.members) /\ P.leader = p
  BY <1>1, <1>2 DEF Parties, Peopled
<1>5. RemoveFirst(P.members, p) = P.members
  BY <1>4, NothingErased
<1>6. Q \in Parties /\ Q.leader = P.leader /\ Q.members = P.members /\ Q.invited = P.invited
  BY <1>1, <1>5 DEF Without, Parties
<1> HIDE DEF Q, P
<1>7. /\ a \in [Players -> PartyIds \union {None}] /\ g.invites \in [Players -> SUBSET PartyIds]
      /\ a[p] = None /\ \A q \in Players \ {p} : a[q] = g.of[q]
  BY <1>1 DEF Groups
<1> HIDE DEF a
<1>8. /\ h \in Groups /\ h.parties[id] = Q /\ h.of = a /\ h.invites = g.invites
      /\ \A j \in PartyIds \ {id} : h.parties[j] = g.parties[j]
  BY <1>1, <1>6, <1>7, RewireIs
<1> HIDE DEF h
<1>9. g.parties \in [PartyIds -> Parties] /\ h.parties \in [PartyIds -> Parties]
  BY <1>1, <1>8 DEF Groups
<1>10. [h.parties EXCEPT ![id] = Dead] = [g.parties EXCEPT ![id] = Dead]
  BY <1>8, <1>9
<1>11. /\ h.parties[id].leader = g.parties[id].leader
       /\ MembersOf(h.parties[id]) = MembersOf(g.parties[id])
       /\ h.parties[id].invited = g.parties[id].invited
  BY <1>6, <1>8 DEF P, MembersOf
<1> DEFINE mine == {g.parties[id].leader} \union MembersOf(g.parties[id])
<1>12. p \in mine
  OBVIOUS
<1> HIDE DEF mine
<1>13. [q \in Players |-> IF q \in mine THEN None ELSE h.of[q]] = [q \in Players |-> IF q \in mine THEN None ELSE g.of[q]]
  BY <1>7, <1>8, <1>12
<1>14. [q \in Players |-> IF q \in h.parties[id].invited THEN h.invites[q] \ {id} ELSE h.invites[q]]
       = [q \in Players |-> IF q \in g.parties[id].invited THEN g.invites[q] \ {id} ELSE g.invites[q]]
  BY <1>8, <1>11
<1>15. Disbanded(h, id) = [of |-> [q \in Players |-> IF q \in mine THEN None ELSE h.of[q]],
          invites |-> [q \in Players |-> IF q \in h.parties[id].invited THEN h.invites[q] \ {id} ELSE h.invites[q]],
          parties |-> [h.parties EXCEPT ![id] = Dead]]
  BY <1>11 DEF Disbanded, mine
<1>16. Disbanded(g, id) = [of |-> [q \in Players |-> IF q \in mine THEN None ELSE g.of[q]],
          invites |-> [q \in Players |-> IF q \in g.parties[id].invited THEN g.invites[q] \ {id} ELSE g.invites[q]],
          parties |-> [g.parties EXCEPT ![id] = Dead]]
  BY DEF Disbanded, mine
<1>17. Disbanded(h, id) = Disbanded(g, id)
  BY <1>10, <1>13, <1>14, <1>15, <1>16, Zenon
<1> QED BY <1>3, <1>17

\* leaveParty.
LEMMA LeftKeeps ==
  ASSUME NEW g, NEW O \in SUBSET Players, NEW N \in SUBSET O,
         Kept(g, {}, O, N), NEW p \in O, g.of[p] # None
  PROVE  /\ Kept(Left(g, p), {}, O, N) /\ Left(g, p).of[p] = None
         /\ \A q \in Players : Left(g, p).invites[q] \subseteq g.invites[q]
<1> DEFINE id == g.of[p]
           P == g.parties[id]
           missing == P.leader = p /\ (P.members = << >> \/ (Len(P.members) = 1 /\ P.invited = {}))
           h == IF P.leader = p /\ ~missing THEN Passed(g, id, Head(P.members)) ELSE g
           rest == Released(h, id, p)
<1>1. g \in Groups /\ id \in PartyIds /\ P \in Parties /\ p \in Mine(P)
  <2>1. g \in Groups
    BY DEF Kept
  <2>2. id \in PartyIds
    BY <2>1 DEF Groups
  <2> QED BY <2>1, <2>2 DEF Kept, Groups
<1>2. Left(g, p) = IF missing THEN Disbanded(rest, id) ELSE DisbandedIfEmpty(rest, id)
  BY DEF Left, Released
<1> HIDE DEF id, P
<1>3. CASE missing
  <2>1. h = g
    BY <1>3
  <2>2. P.leader = p
    BY <1>3
  <2> HIDE DEF missing, h
  <2>3. Disbanded(rest, id) = Disbanded(g, id)
    BY <1>1, <2>1, <2>2, LeftAlone DEF P
  <2> HIDE DEF rest
  <2>4. Left(g, p) = Disbanded(g, id)
    BY <1>2, <1>3, <2>3
  <2>5. Kept(g, {id}, O, N)
    BY DEF Kept
  <2>6. Kept(Disbanded(g, id), {}, O, N)
    BY <1>1, <2>5, DisbandedKeeps
  <2>7. Disbanded(g, id).of[p] = None
    BY <1>1, <2>2 DEF Disbanded, P
  <2> QED BY <1>1, <2>4, <2>6, <2>7, DisbandedShrinks
<1>4. CASE ~missing
  <2>1. Kept(h, {}, O, N) /\ h.of = g.of /\ h.invites = g.invites /\ h.parties[id].leader # p
    <3>1. CASE P.leader # p
      BY <3>1 DEF P
    <3>2. CASE P.leader = p
      <4>1. P.members # << >> /\ P.members \in Seq(Players)
        BY <1>1, <1>4, <3>2 DEF Parties
      <4>2. Head(P.members) \in In(P.members)
        BY <4>1, Foremost
      <4>3. h = Passed(g, id, Head(P.members))
        BY <1>4, <3>2
      <4> HIDE DEF h, missing
      <4>4. /\ Kept(h, {}, O, N) /\ h.parties[id].leader = Head(P.members) /\ h.of = g.of
            /\ h.invites = g.invites
        BY <1>1, <4>2, <4>3, PassedKeeps DEF P
      <4>5. P # Dead /\ Peopled(P, O)
        <5>1. P # Dead
          BY <4>1, DeadIs
        <5> QED BY <1>1, <5>1 DEF Kept, P
      <4>6. Head(P.members) # p
        BY <3>2, <4>2, <4>5 DEF Peopled
      <4> QED BY <4>4, <4>6
    <3> QED BY <3>1, <3>2
  <2> HIDE DEF missing, h
  <2>2. h.of[p] = id
    BY <2>1 DEF id
  <2>3. Kept(rest, {id}, O, N) /\ rest.of[p] = None /\ rest.invites = h.invites
    BY <1>1, <2>1, <2>2, UnmemberedKeeps
  <2> HIDE DEF rest
  <2>4. rest \in Groups
    BY <2>3 DEF Kept
  <2>5. Left(g, p) = DisbandedIfEmpty(rest, id)
    BY <1>2, <1>4
  <2>6. Kept(Left(g, p), {}, O, N)
    BY <1>1, <2>3, <2>5, IfEmptyKeeps
  <2>7. Left(g, p).of[p] = None
    BY <1>1, <2>3, <2>4, <2>5, IfEmptyShrinks
  <2>8. \A q \in Players : Left(g, p).invites[q] \subseteq g.invites[q]
    BY <1>1, <2>1, <2>3, <2>4, <2>5, IfEmptyShrinks
  <2> QED BY <2>6, <2>7, <2>8
<1> QED BY <1>3, <1>4

\* ... one is invited, not invited any more, a member instead of invited, and
\* the leader.
WithInvited(P, q) == [P EXCEPT !.invited = P.invited \union {q}]
WithoutInvited(P, q) == [P EXCEPT !.invited = P.invited \ {q}]
WithMember(P, p) == [P EXCEPT !.invited = P.invited \ {p}, !.members = Append(P.members, p)]
WithLeader(P, p) == [P EXCEPT !.leader = p]

\* One more is invited, ...
LEMMA WithInvitedIs ==
  ASSUME NEW O \in SUBSET Players, NEW P \in Parties, Peopled(P, O), NEW q \in O, q \notin Mine(P)
  PROVE  LET Q == WithInvited(P, q) IN
         /\ Q \in Parties /\ Mine(Q) = Mine(P) /\ Peopled(Q, O) /\ ~Deserted(Q)
         /\ Q.invited = P.invited \union {q}
<1> DEFINE Q == WithInvited(P, q)
<1>1. Q.leader = P.leader /\ Q.members = P.members /\ Q.invited = P.invited \union {q}
  BY DEF Parties, WithInvited
<1>2. Q \in Parties
  BY DEF Parties, WithInvited
<1> HIDE DEF Q
<1>3. Mine(Q) = Mine(P)
  BY <1>1 DEF Mine
<1>4. Peopled(Q, O) /\ ~Deserted(Q)
  BY <1>1, <1>3 DEF Peopled, Deserted
<1> QED BY <1>1, <1>2, <1>3, <1>4 DEF Q

\* ... one is not invited any more, ...
LEMMA WithoutInvitedIs ==
  ASSUME NEW O \in SUBSET Players, NEW P \in Parties, Peopled(P, O), NEW q
  PROVE  LET Q == WithoutInvited(P, q) IN
         /\ Q \in Parties /\ Mine(Q) = Mine(P) /\ Peopled(Q, O)
         /\ Q.invited = P.invited \ {q}
<1> DEFINE Q == WithoutInvited(P, q)
<1>1. Q.leader = P.leader /\ Q.members = P.members /\ Q.invited = P.invited \ {q}
  BY DEF Parties, WithoutInvited
<1>2. Q \in Parties
  BY DEF Parties, WithoutInvited
<1> HIDE DEF Q
<1>3. Mine(Q) = Mine(P)
  BY <1>1 DEF Mine
<1>4. Peopled(Q, O)
  BY <1>1, <1>3 DEF Peopled
<1> QED BY <1>1, <1>2, <1>3, <1>4 DEF Q

\* ... and one who was invited is a member.
LEMMA WithMemberIs ==
  ASSUME NEW O \in SUBSET Players, NEW P \in Parties, Peopled(P, O), NEW p \in O, p \in P.invited
  PROVE  LET Q == WithMember(P, p) IN
         /\ Q \in Parties /\ Mine(Q) = Mine(P) \union {p} /\ Peopled(Q, O) /\ ~Deserted(Q)
         /\ Q.invited = P.invited \ {p}
<1> DEFINE m == Append(P.members, p)
           Q == WithMember(P, p)
<1>1. /\ P.members \in Seq(Players) /\ IsInjective(P.members) /\ P.leader \notin In(P.members)
      /\ P.leader \in O /\ P.invited \subseteq O /\ In(P.members) \subseteq O
      /\ P.invited \intersect Mine(P) = {} /\ p \notin In(P.members) /\ p # P.leader
      /\ P.invited \ {p} \in SUBSET Players
  BY DEF Parties, Peopled, Mine
<1>2. m \in Seq(Players) /\ IsInjective(m) /\ In(m) = In(P.members) \union {p} /\ m # << >>
  BY <1>1, Appended
<1>3. Q = [P EXCEPT !.invited = P.invited \ {p}, !.members = m]
  BY DEF WithMember
<1> HIDE DEF m, Q
<1>4. Q \in Parties
  BY <1>1, <1>2, <1>3 DEF Parties
<1>5. Q.leader = P.leader /\ Q.members = m /\ Q.invited = P.invited \ {p}
  BY <1>3 DEF Parties
<1>6. Mine(Q) = Mine(P) \union {p}
  BY <1>2, <1>5 DEF Mine
<1>7. Q.leader \in O /\ In(Q.members) \subseteq O /\ Q.invited \subseteq O
  BY <1>1, <1>2, <1>5
<1>8. IsInjective(Q.members) /\ Q.leader \notin In(Q.members)
  BY <1>1, <1>2, <1>5
<1>9. Q.invited \intersect Mine(Q) = {}
  BY <1>1, <1>5, <1>6
<1>10. Peopled(Q, O) /\ ~Deserted(Q)
  BY <1>2, <1>5, <1>7, <1>8, <1>9 DEF Peopled, Deserted
<1> QED BY <1>4, <1>5, <1>6, <1>10 DEF Q

\* Party::invitePlayer, of somebody in no party.
LEMMA InvitedKeeps ==
  ASSUME NEW g, NEW O \in SUBSET Players, NEW id \in PartyIds,
         Kept(g, {id}, O, O), g.parties[id] # Dead, NEW q \in O, g.of[q] = None
  PROVE  Kept(Invited(g, id, q), {}, O, O)
<1> DEFINE P == g.parties[id]
           Q == WithInvited(P, q)
           b == [g.invites EXCEPT ![q] = g.invites[q] \union {id}]
           h == Rewire(g, id, Q, g.of, b)
<1>1. g \in Groups /\ P \in Parties /\ Peopled(P, O)
  BY DEF Kept, Groups
<1>2. q \notin Mine(P)
  BY Nobody DEF Kept
<1>3. h = Invited(g, id, q)
  BY <1>1 DEF Groups, Rewire, WithInvited, Invited
<1>4. Q \in Parties /\ Mine(Q) = Mine(P) /\ Peopled(Q, O) /\ ~Deserted(Q) /\ Q.invited = P.invited \union {q}
  BY <1>1, <1>2, WithInvitedIs
<1> HIDE DEF Q
<1>5. /\ g.of \in [Players -> PartyIds \union {None}] /\ b \in [Players -> SUBSET PartyIds]
      /\ b[q] = g.invites[q] \union {id} /\ \A r \in Players \ {q} : b[r] = g.invites[r]
  BY <1>1 DEF Groups
<1> HIDE DEF b
<1>6. /\ h \in Groups /\ h.parties[id] = Q /\ h.of = g.of /\ h.invites = b
      /\ \A j \in PartyIds \ {id} : h.parties[j] = g.parties[j]
  BY <1>1, <1>4, <1>5, RewireIs
<1> HIDE DEF h
<1>7. \A r \in O, j \in PartyIds \ {id} : h.of[r] = j <=> g.of[r] = j
  BY <1>6
<1>8. \A r \in O : h.of[r] = id <=> r \in Mine(h.parties[id])
  BY <1>4, <1>6 DEF Kept
<1>9. \A r \in O, j \in PartyIds \ {id} : j \in h.invites[r] <=> j \in g.invites[r]
  BY <1>5, <1>6
<1>10. \A r \in O : id \in h.invites[r] <=> r \in h.parties[id].invited
  BY <1>4, <1>5, <1>6 DEF Kept
<1>11. h.parties[id] = Dead \/ (Peopled(h.parties[id], O) /\ (id \notin {} => ~Deserted(h.parties[id])))
  BY <1>4, <1>6
<1>12. \A j \in PartyIds \ {id} : j \in {id} => j \in {}
  OBVIOUS
<1>13. \A j \in PartyIds \ {id} : h.parties[j] = g.parties[j]
  BY <1>6
<1>14. h \in Groups
  BY <1>6
<1>15. Kept(h, {}, O, O)
  BY <1>7, <1>8, <1>9, <1>10, <1>11, <1>12, <1>13, <1>14, Rewired
<1> QED BY <1>3, <1>15

\* joinParty, by somebody invited who is in no party.
LEMMA JoinedKeeps ==
  ASSUME NEW g, NEW O \in SUBSET Players, NEW id \in PartyIds,
         Kept(g, {}, O, O), NEW p \in O, g.of[p] = None, p \in g.parties[id].invited
  PROVE  Kept(Joined(g, id, p), {}, O, O)
<1> DEFINE P == g.parties[id]
           Q == WithMember(P, p)
           a == [g.of EXCEPT ![p] = id]
           b == [g.invites EXCEPT ![p] = g.invites[p] \ {id}]
           h == Rewire(g, id, Q, a, b)
<1>1. g \in Groups /\ P \in Parties /\ Peopled(P, O)
  BY DeadIs DEF Kept, Groups
<1>2. h = Joined(g, id, p)
  BY <1>1 DEF Groups, Rewire, WithMember, Joined
<1>3. Q \in Parties /\ Mine(Q) = Mine(P) \union {p} /\ Peopled(Q, O) /\ ~Deserted(Q) /\ Q.invited = P.invited \ {p}
  BY <1>1, WithMemberIs
<1> HIDE DEF Q
<1>4. /\ a \in [Players -> PartyIds \union {None}] /\ b \in [Players -> SUBSET PartyIds]
      /\ b[p] = g.invites[p] \ {id} /\ \A r \in Players \ {p} : b[r] = g.invites[r]
      /\ a[p] = id /\ \A r \in Players \ {p} : a[r] = g.of[r]
  BY <1>1 DEF Groups
<1> HIDE DEF a, b
<1>5. /\ h \in Groups /\ h.parties[id] = Q /\ h.of = a /\ h.invites = b
      /\ \A j \in PartyIds \ {id} : h.parties[j] = g.parties[j]
  BY <1>1, <1>3, <1>4, RewireIs
<1> HIDE DEF h
<1>6. \A r \in O, j \in PartyIds \ {id} : h.of[r] = j <=> g.of[r] = j
  BY <1>4, <1>5, Nobody
<1>7. \A r \in O : h.of[r] = id <=> r \in Mine(h.parties[id])
  BY <1>3, <1>4, <1>5 DEF Kept
<1>8. \A r \in O, j \in PartyIds \ {id} : j \in h.invites[r] <=> j \in g.invites[r]
  BY <1>4, <1>5
<1>9. \A r \in O : id \in h.invites[r] <=> r \in h.parties[id].invited
  BY <1>3, <1>4, <1>5 DEF Kept
<1>10. h.parties[id] = Dead \/ (Peopled(h.parties[id], O) /\ (id \notin {} => ~Deserted(h.parties[id])))
  BY <1>3, <1>5
<1>11. \A j \in PartyIds \ {id} : j \in {} => j \in {}
  OBVIOUS
<1>12. \A j \in PartyIds \ {id} : h.parties[j] = g.parties[j]
  BY <1>5
<1>13. h \in Groups
  BY <1>5
<1>14. Kept(h, {}, O, O)
  BY <1>6, <1>7, <1>8, <1>9, <1>10, <1>11, <1>12, <1>13, Rewired
<1> QED BY <1>2, <1>14

\* removeInvite: an invited player is struck off, and the party may be disbanded.
\* b is what becomes of the lists of the players, of whom those in N keep theirs
\* up to date.
StruckOff(g, id, q, b) == DisbandedIfEmpty(Rewire(g, id, WithoutInvited(g.parties[id], q), g.of, b), id)

\* q is struck off id's list and no other, and w is left of his own.
OneLessFor(d, g, id, q, w) ==
  /\ d.invites[q] = w
  /\ \A j \in PartyIds : q \in d.parties[j].invited <=> q \in g.parties[j].invited /\ j # id

\* Striking somebody off the invitations of one party leaves the others alone.
LEMMA StruckOffKeeps ==
  ASSUME NEW g, NEW O \in SUBSET Players, NEW N \in SUBSET O, NEW id \in PartyIds,
         Kept(g, {}, O, N), NEW q \in O, q \in g.parties[id].invited,
         NEW b \in [Players -> SUBSET PartyIds], \A r \in Players \ {q} : b[r] = g.invites[r],
         q \in N => b[q] = g.invites[q] \ {id}
  PROVE  LET d == StruckOff(g, id, q, b) IN
         Kept(d, {}, O, N) /\ OneLessFor(d, g, id, q, b[q])
<1> DEFINE P == g.parties[id]
           Q == WithoutInvited(P, q)
           h == Rewire(g, id, Q, g.of, b)
<1>1. g \in Groups /\ P \in Parties /\ Peopled(P, O)
  BY DeadIs DEF Kept, Groups
<1>2. StruckOff(g, id, q, b) = DisbandedIfEmpty(h, id)
  BY DEF StruckOff
<1>3. /\ Q \in Parties /\ Mine(Q) = Mine(P) /\ Peopled(Q, O) /\ Q.invited = P.invited \ {q}
  <2>1. PICK p : p = P
    OBVIOUS
  <2>2. p \in Parties /\ Peopled(p, O)
    BY <1>1, <2>1
  <2> HIDE DEF P
  <2>3. /\ WithoutInvited(p, q) \in Parties /\ Mine(WithoutInvited(p, q)) = Mine(p)
        /\ Peopled(WithoutInvited(p, q), O) /\ WithoutInvited(p, q).invited = p.invited \ {q}
    BY <2>2, WithoutInvitedIs
  <2> QED BY <2>1, <2>3, Zenon
<1> HIDE DEF Q
<1>4. g.of \in [Players -> PartyIds \union {None}]
  BY <1>1 DEF Groups
<1>5. /\ h \in Groups /\ h.parties[id] = Q /\ h.of = g.of /\ h.invites = b
      /\ \A j \in PartyIds \ {id} : h.parties[j] = g.parties[j]
  BY <1>1, <1>3, <1>4, RewireIs
<1> HIDE DEF h
<1>6. \A r \in O, j \in PartyIds \ {id} : h.of[r] = j <=> g.of[r] = j
  BY <1>5
<1>7. \A r \in O : h.of[r] = id <=> r \in Mine(h.parties[id])
  BY <1>3, <1>5 DEF Kept
<1>8. \A r \in N, j \in PartyIds \ {id} : j \in h.invites[r] <=> j \in g.invites[r]
  BY <1>5
<1>9. \A r \in N : id \in h.invites[r] <=> r \in h.parties[id].invited
  BY <1>3, <1>5 DEF Kept
<1>10. h.parties[id] = Dead \/ (Peopled(h.parties[id], O) /\ (id \notin {id} => ~Deserted(h.parties[id])))
  BY <1>3, <1>5
<1>11. \A j \in PartyIds \ {id} : j \in {} => j \in {id}
  OBVIOUS
<1>12. \A j \in PartyIds \ {id} : h.parties[j] = g.parties[j]
  BY <1>5
<1>13. h \in Groups
  BY <1>5
<1>14. Kept(h, {id}, O, N)
  BY <1>6, <1>7, <1>8, <1>9, <1>10, <1>11, <1>12, <1>13, Rewired
<1> DEFINE d == DisbandedIfEmpty(h, id)
<1>15. Kept(d, {}, O, N)
  BY <1>14, IfEmptyKeeps
<1>16. /\ q \notin h.parties[id].invited => d.invites[q] = h.invites[q]
       /\ \A j \in PartyIds \ {id} : d.parties[j] = g.parties[j]
       /\ d.parties[id] \in {Dead, h.parties[id]}
  BY <1>5, <1>12, <1>13, IfEmptyShrinks
<1>17. q \notin h.parties[id].invited
  BY <1>3, <1>5
<1>18. \A j \in PartyIds : q \in d.parties[j].invited <=> q \in g.parties[j].invited /\ j # id
  <2>1. q \notin d.parties[id].invited
    BY <1>16, <1>17, DeadIs
  <2> QED BY <1>16, <2>1
<1>19. d.invites[q] = b[q]
  BY <1>5, <1>16, <1>17
<1> QED BY <1>2, <1>15, <1>18, <1>19 DEF OneLessFor

\* There is a party object left for a player in no party.
LEMMA OneFree ==
  ASSUME NEW g, NEW O \in SUBSET Players, Kept(g, {}, O, O), NEW p \in O, g.of[p] = None
  PROVE  /\ Min(PartyIds \ Live(g)) \in PartyIds
         /\ g.parties[Min(PartyIds \ Live(g))] = Dead
<1> DEFINE T == PartyIds \ Live(g)
<1>1. T # {}
  <2> SUFFICES ASSUME T = {} PROVE FALSE
    OBVIOUS
  <2> DEFINE f == [id \in PartyIds |-> g.parties[id].leader]
  <2>1. \A id \in PartyIds : Peopled(g.parties[id], O)
    BY DEF Kept, Live
  <2>2. \A id \in PartyIds : f[id] \in O /\ g.of[f[id]] = id
    BY <2>1 DEF Peopled, Kept, Mine
  <2>3. f \in [PartyIds -> Players \ {p}]
    BY <2>2, Nobody
  <2>4. \A x, y \in PartyIds : f[x] = f[y] => x = y
    BY <2>2
  <2> HIDE DEF f
  <2>5. IsFiniteSet(Players) /\ IsFiniteSet(Players \ {p}) /\ p \in Players
    BY OnlineAssumption, FS_RemoveElement
  <2>6. Cardinality(Players) \in Nat /\ Cardinality(Players \ {p}) = Cardinality(Players) - 1
    BY <2>5, FS_CardinalityType, FS_RemoveElement
  <2>7. PICK n \in Nat : n = Cardinality(Players)
    BY <2>6
  <2>8. IsFiniteSet(1..n) /\ Cardinality(1..n) = n
    <3>1. /\ IsFiniteSet(1..n)
          /\ Cardinality(1..n) = IF 1 > n THEN 0 ELSE n - 1 + 1
      <4>1. \A a, b \in Int : IsFiniteSet(a..b) /\ Cardinality(a..b) = IF a > b THEN 0 ELSE b - a + 1
        BY FS_Interval
      <4>2. 1 \in Int /\ n \in Int
        BY <2>7
      <4> QED BY <4>1, <4>2, Zenon
    <3> QED BY <3>1, <2>7
  <2>9. PartyIds = 1..n
    BY <2>7 DEF PartyIds
  <2>10. Cardinality(Players \ {p}) < Cardinality(PartyIds)
    BY <2>6, <2>7, <2>8, <2>9
  <2>11. \E x, y \in PartyIds : x # y /\ f[x] = f[y]
    BY <2>3, <2>5, <2>8, <2>9, <2>10, FS_PigeonHole
  <2> QED BY <2>4, <2>11
<1>2. T \in SUBSET Nat
  BY DEF PartyIds
<1>3. \E n \in T : \A m \in T : n <= m
  BY <1>1, <1>2, LeastNumber
<1>4. Min(T) \in T
  BY <1>3 DEF Min
<1> QED BY <1>4 DEF Live

\* A new party has its leader and nobody else.
LEMMA WithLeaderIs ==
  ASSUME NEW O \in SUBSET Players, NEW p \in O
  PROVE  LET Q == WithLeader(Dead, p) IN
         /\ Q \in Parties /\ Mine(Q) = {p} /\ Peopled(Q, O) /\ Q.invited = {} /\ Q # Dead
<1> DEFINE Q == WithLeader(Dead, p)
<1>1. Q \in Parties
  BY DeadIs DEF Parties, WithLeader
<1>2. Q.leader = p /\ Q.members = << >> /\ Q.invited = {}
  BY DEF Dead, WithLeader
<1> HIDE DEF Q
<1>3. In(Q.members) = {} /\ IsInjective(Q.members)
  BY <1>2, DeadIs
<1>4. Mine(Q) = {p} /\ Peopled(Q, O)
  BY <1>2, <1>3 DEF Mine, Peopled
<1>5. Q # Dead
  BY <1>2, DeadIs, Nobody
<1> QED BY <1>1, <1>2, <1>4, <1>5 DEF Q

\* The constructor, for somebody in no party.
LEMMA FoundedKeeps ==
  ASSUME NEW g, NEW O \in SUBSET Players, Kept(g, {}, O, O), NEW p \in O, g.of[p] = None
  PROVE  LET h == Founded(g, p) IN
         /\ h.of[p] \in PartyIds
         /\ \A q \in Players \ {p} : h.of[q] = g.of[q]
         /\ Kept(h, {h.of[p]}, O, O) /\ h.parties[h.of[p]] # Dead
<1> DEFINE id == Min(PartyIds \ Live(g))
           Q == WithLeader(Dead, p)
           a == [g.of EXCEPT ![p] = id]
           h == Rewire(g, id, Q, a, g.invites)
<1>1. id \in PartyIds /\ g.parties[id] = Dead
  BY OneFree
<1> HIDE DEF id
<1>2. g \in Groups
  BY DEF Kept
<1>3. h = Founded(g, p)
  <2>1. Founded(g, p) = [g EXCEPT !.of[p] = id, !.parties[id].leader = p]
    BY DEF Founded, id
  <2> QED BY <1>1, <1>2, <2>1 DEF Groups, Rewire, WithLeader
<1>4. Q \in Parties /\ Mine(Q) = {p} /\ Peopled(Q, O) /\ Q.invited = {} /\ Q # Dead
  BY WithLeaderIs
<1> HIDE DEF Q
<1>5. /\ a \in [Players -> PartyIds \union {None}] /\ g.invites \in [Players -> SUBSET PartyIds]
      /\ a[p] = id /\ \A r \in Players \ {p} : a[r] = g.of[r]
  BY <1>1, <1>2 DEF Groups
<1> HIDE DEF a
<1>6. /\ h \in Groups /\ h.parties[id] = Q /\ h.of = a /\ h.invites = g.invites
      /\ \A j \in PartyIds \ {id} : h.parties[j] = g.parties[j]
  BY <1>1, <1>2, <1>4, <1>5, RewireIs
<1> HIDE DEF h
<1>7. \A r \in O, j \in PartyIds \ {id} : h.of[r] = j <=> g.of[r] = j
  BY <1>5, <1>6, Nobody
<1>8. \A r \in O : h.of[r] = id <=> r \in Mine(h.parties[id])
  BY <1>1, <1>4, <1>5, <1>6, DeadIs, Nobody DEF Kept
<1>9. \A r \in O, j \in PartyIds \ {id} : j \in h.invites[r] <=> j \in g.invites[r]
  BY <1>6
<1>10. \A r \in O : id \in h.invites[r] <=> r \in h.parties[id].invited
  BY <1>1, <1>4, <1>6, DeadIs DEF Kept
<1>11. h.parties[id] = Dead \/ (Peopled(h.parties[id], O) /\ (id \notin {id} => ~Deserted(h.parties[id])))
  BY <1>4, <1>6
<1>12. \A j \in PartyIds \ {id} : j \in {} => j \in {id}
  OBVIOUS
<1>13. \A j \in PartyIds \ {id} : h.parties[j] = g.parties[j]
  BY <1>6
<1>14. h \in Groups
  BY <1>6
<1>15. Kept(h, {id}, O, O)
  BY <1>1, <1>7, <1>8, <1>9, <1>10, <1>11, <1>12, <1>13, <1>14, Rewired
<1>16. h.of[p] = id /\ h.parties[id] # Dead /\ \A q \in Players \ {p} : h.of[q] = g.of[q]
  BY <1>4, <1>5, <1>6
<1> QED BY <1>1, <1>3, <1>15, <1>16

\* The invitation FoldSet takes next, and the sets of n invitations at most.
Pick(s) == CHOOSE x \in s : TRUE
Smaller(D, n) == {s \in SUBSET D : Cardinality(s) <= n}

\* The two ways removeInvite is called.
Withdrawn(h, id, p) == InviteRemoved(h, id, p, FALSE)
Revoked(h, id, p) == InviteRemoved(h, id, p, TRUE)

\* An invitation of the player leaving is withdrawn, ...
LEMMA WithdrawnKeeps ==
  ASSUME NEW g, NEW O \in SUBSET Players, NEW N \in SUBSET O, NEW p \in O, p \notin N, NEW id \in PartyIds,
         Kept(g, {}, O, N), p \in g.parties[id].invited
  PROVE  LET h == Withdrawn(g, id, p) IN
         Kept(h, {}, O, N) /\ OneLessFor(h, g, id, p, g.invites[p])
<1>1. g \in Groups
  BY DEF Kept
<1>2. Withdrawn(g, id, p) = DisbandedIfEmpty([g EXCEPT !.parties[id].invited = @ \ {p}, !.invites[p] = @], id)
  BY Zenon DEF Withdrawn, InviteRemoved
<1>3. Withdrawn(g, id, p) = StruckOff(g, id, p, g.invites)
  <2>1. [g EXCEPT !.parties[id].invited = @ \ {p}, !.invites[p] = @]
        = Rewire(g, id, WithoutInvited(g.parties[id], p), g.of, g.invites)
    BY <1>1 DEF Groups, Rewire, WithoutInvited
  <2> QED BY <1>2, <2>1, Zenon DEF StruckOff
<1>4. g.invites \in [Players -> SUBSET PartyIds]
  BY <1>1 DEF Groups
<1> DEFINE b == g.invites
<1>5. (\A r \in Players \ {p} : b[r] = g.invites[r]) /\ (p \in N => b[p] = g.invites[p] \ {id})
  OBVIOUS
<1>6. b \in [Players -> SUBSET PartyIds] /\ b[p] = g.invites[p] /\ Withdrawn(g, id, p) = StruckOff(g, id, p, b)
  BY <1>3, <1>4
<1> HIDE DEF b
<1> DEFINE d == StruckOff(g, id, p, b)
<1>7. Kept(d, {}, O, N)
  BY <1>5, <1>6, StruckOffKeeps
<1>8. OneLessFor(d, g, id, p, b[p])
  BY <1>5, <1>6, StruckOffKeeps
<1> QED BY <1>6, <1>7, <1>8

\* ... and one of a player staying revoked.
LEMMA RevokedKeeps ==
  ASSUME NEW g, NEW O \in SUBSET Players, NEW p \in O, NEW id \in PartyIds,
         Kept(g, {}, O, O), p \in g.parties[id].invited
  PROVE  Kept(Revoked(g, id, p), {}, O, O)
<1> DEFINE b == [g.invites EXCEPT ![p] = g.invites[p] \ {id}]
<1>1. g \in Groups
  BY DEF Kept
<1>2. Revoked(g, id, p) = DisbandedIfEmpty([g EXCEPT !.parties[id].invited = @ \ {p}, !.invites[p] = @ \ {id}], id)
  BY Zenon DEF Revoked, InviteRemoved
<1>3. Revoked(g, id, p) = StruckOff(g, id, p, b)
  <2>1. [g EXCEPT !.parties[id].invited = @ \ {p}, !.invites[p] = @ \ {id}]
        = Rewire(g, id, WithoutInvited(g.parties[id], p), g.of, b)
    BY <1>1 DEF Groups, Rewire, WithoutInvited
  <2> QED BY <1>2, <2>1, Zenon DEF StruckOff
<1>4. /\ b \in [Players -> SUBSET PartyIds] /\ b[p] = g.invites[p] \ {id}
      /\ \A r \in Players \ {p} : b[r] = g.invites[r]
  BY <1>1 DEF Groups
<1> HIDE DEF b
<1>5. O \in SUBSET O
  OBVIOUS
<1> QED BY <1>3, <1>4, <1>5, StruckOffKeeps

\* f satisfies the recursion equation of the loop over p's invitations, on the
\* given sets of them.
WithdrawsOn(g, p, Ds, f) ==
  f = [s \in Ds |-> IF s = {} THEN g ELSE Withdrawn(f[s \ {Pick(s)}], Pick(s), p)]

\* The loop of clearPartyInvitations is that recursion.
LEMMA LoopIs ==
  ASSUME NEW g, NEW p
  PROVE  InvitationsCleared(g, p)
         = [(CHOOSE f : WithdrawsOn(g, p, SUBSET g.invites[p], f))[g.invites[p]] EXCEPT !.invites[p] = {}]
  BY DEF InvitationsCleared, FoldSet, MapThenFoldSet, WithdrawsOn, Pick, Withdrawn

\* A finite set without one of its elements.
LEMMA OneLess ==
  ASSUME NEW s, IsFiniteSet(s), NEW x \in s
  PROVE  /\ IsFiniteSet(s \ {x}) 
         /\ Cardinality(s) \in Nat /\ Cardinality(s \ {x}) \in Nat
         /\ Cardinality(s \ {x}) + 1 = Cardinality(s)
<1>1. IsFiniteSet(s \ {x})
  BY FS_RemoveElement
<1>2. Cardinality(s \ {x}) = Cardinality(s) - 1
  BY FS_RemoveElement
<1>3. Cardinality(s) \in Nat /\ Cardinality(s \ {x}) \in Nat
  BY <1>1, FS_CardinalityType
<1> QED BY <1>1, <1>2, <1>3

\* What is taken was in the set.
LEMMA PickIn ==
  ASSUME NEW s, s # {}
  PROVE  Pick(s) \in s
  BY DEF Pick

\* The recursion has a solution on the sets of n invitations at most, ...
LEMMA SolvableStep ==
  ASSUME NEW g, NEW p, NEW D, IsFiniteSet(D), NEW n \in Nat, NEW f, WithdrawsOn(g, p, Smaller(D, n), f)
  PROVE  \E h : WithdrawsOn(g, p, Smaller(D, n + 1), h)
<1> DEFINE h == [s \in Smaller(D, n + 1) |->
                   IF s = {} THEN g ELSE Withdrawn(f[s \ {Pick(s)}], Pick(s), p)]
<1>1. ASSUME NEW s \in Smaller(D, n + 1), s # {}
      PROVE  /\ s \ {Pick(s)} \in Smaller(D, n)
             /\ s \ {Pick(s)} \in Smaller(D, n + 1)
  <2>1. s \subseteq D /\ Cardinality(s) <= n + 1 /\ IsFiniteSet(s) /\ Pick(s) \in s
    BY <1>1, FS_Subset, PickIn DEF Smaller
  <2>2. Cardinality(s \ {Pick(s)}) \in Nat /\ Cardinality(s \ {Pick(s)}) + 1 = Cardinality(s)
    BY <2>1, OneLess
  <2>3. Cardinality(s \ {Pick(s)}) <= n
    BY <2>1, <2>2
  <2>4. s \ {Pick(s)} \subseteq D /\ Cardinality(s \ {Pick(s)}) <= n + 1
    BY <2>1, <2>2, <2>3
  <2> QED BY <2>3, <2>4 DEF Smaller
<1>2. ASSUME NEW s \in Smaller(D, n)
      PROVE  h[s] = f[s]
  <2>1. s \in Smaller(D, n + 1)
    <3>1. s \subseteq D /\ Cardinality(s) <= n /\ IsFiniteSet(s)
      BY <1>2, FS_Subset DEF Smaller
    <3>2. Cardinality(s) \in Nat
      BY <3>1, FS_CardinalityType
    <3> QED BY <3>1, <3>2 DEF Smaller
  <2> QED BY <2>1 DEF WithdrawsOn
<1>3. h = [s \in Smaller(D, n + 1) |-> IF s = {} THEN g ELSE Withdrawn(h[s \ {Pick(s)}], Pick(s), p)]
  BY <1>1, <1>2
<1>4. QED BY <1>3 DEF WithdrawsOn

\* ... and so on all.
LEMMA Solvable ==
  ASSUME NEW g, NEW p, NEW D, IsFiniteSet(D)
  PROVE  \E f : WithdrawsOn(g, p, SUBSET D, f)
<1> DEFINE Bad == {n \in Nat : ~\E f : WithdrawsOn(g, p, Smaller(D, n), f)}
<1>1. 0 \notin Bad
  <2>1. Smaller(D, 0) = {{}}
    <3>1. ASSUME NEW s \in SUBSET D PROVE Cardinality(s) <= 0 <=> s = {}
      <4>1. IsFiniteSet(s) /\ Cardinality(s) \in Nat
        BY FS_Subset, FS_CardinalityType
      <4>2. Cardinality(s) = 0 <=> s = {}
        BY <4>1, FS_EmptySet
      <4> QED BY <4>1, <4>2
    <3> QED BY <3>1 DEF Smaller
  <2>2. WithdrawsOn(g, p, {{}}, [s \in {{}} |-> g])
    BY DEF WithdrawsOn
  <2> QED BY <2>1, <2>2
<1>2. Bad = {}
  <2>1. SUFFICES ASSUME Bad # {} PROVE FALSE
    OBVIOUS
  <2>2. PICK n \in Bad : \A m \in Bad : n <= m
    BY <2>1, LeastNumber
  <2>3. n # 0 /\ n - 1 \in Nat /\ n - 1 \notin Bad
    BY <1>1, <2>2
  <2>4. PICK f : WithdrawsOn(g, p, Smaller(D, n - 1), f)
    BY <2>3
  <2>5. \E h : WithdrawsOn(g, p, Smaller(D, (n - 1) + 1), h)
    BY <2>3, <2>4, SolvableStep
  <2>6. (n - 1) + 1 = n
    BY <2>2
  <2> QED BY <2>2, <2>5, <2>6
<1>3. Smaller(D, Cardinality(D)) = SUBSET D
  <2>1. \A s \in SUBSET D : Cardinality(s) <= Cardinality(D)
    BY FS_Subset
  <2> QED BY <2>1 DEF Smaller
<1>4. Cardinality(D) \in Nat
  BY FS_CardinalityType
<1>5. Cardinality(D) \notin Bad
  BY <1>2
<1> QED BY <1>3, <1>4, <1>5

\* Of the invitations D of p, those in s are withdrawn: the parties and the
\* pointers agree, but for p's own list, and the others still invite him.
Halfway(h, O, p, D, s) ==
  /\ Kept(h, {}, O, O \ {p}) /\ h.invites[p] = D
  /\ \A j \in PartyIds : p \in h.parties[j].invited <=> j \in D \ s

\* The loop's body brings it one invitation further.
LEMMA OneWithdrawn ==
  ASSUME NEW h, NEW O \in SUBSET Players, NEW p \in O, NEW D \in SUBSET PartyIds,
         NEW s, NEW x \in D \ s, Halfway(h, O, p, D, s)
  PROVE  Halfway(Withdrawn(h, x, p), O, p, D, s \union {x})
<1> DEFINE v == Withdrawn(h, x, p)
<1>1. PICK N : N = O \ {p}
  OBVIOUS
<1>2. /\ N \in SUBSET O /\ p \notin N /\ Kept(h, {}, O, N) /\ x \in PartyIds
      /\ p \in h.parties[x].invited
  BY <1>1 DEF Halfway
<1>3. Kept(v, {}, O, N)
  BY <1>2, WithdrawnKeeps
<1>4. OneLessFor(v, h, x, p, h.invites[p])
  BY <1>2, WithdrawnKeeps
<1>5. v.invites[p] = h.invites[p]
  BY <1>4 DEF OneLessFor
<1>6. \A j \in PartyIds : p \in v.parties[j].invited <=> p \in h.parties[j].invited /\ j # x
  BY <1>4 DEF OneLessFor
<1> HIDE DEF v
<1>7. \A j \in PartyIds : p \in v.parties[j].invited <=> j \in D \ (s \union {x})
  BY <1>6 DEF Halfway
<1>8. Kept(v, {}, O, O \ {p}) /\ v.invites[p] = D
  BY <1>1, <1>3, <1>5 DEF Halfway
<1>9. Halfway(v, O, p, D, s \union {x})
  BY <1>7, <1>8 DEF Halfway
<1> QED BY <1>9 DEF v

\* The loop gets from one invitation to the next in that way.
LEMMA LoopKeeps ==
  ASSUME NEW g, NEW O \in SUBSET Players, NEW p \in O, Kept(g, {}, O, O),
         NEW D, D = g.invites[p], NEW f, WithdrawsOn(g, p, SUBSET D, f), NEW S \in SUBSET D
  PROVE  Halfway(f[S], O, p, D, S)
<1> DEFINE Fine(s) == Halfway(f[s], O, p, D, s)
           Bad == {n \in Nat : \E s \in SUBSET D : Cardinality(s) = n /\ ~Fine(s)}
<1>1. D \in SUBSET PartyIds
  BY DEF Kept, Groups
<1>2. IsFiniteSet(D)
  <2>1. IsFiniteSet(PartyIds)
    BY OnlineAssumption, FS_CardinalityType, FS_Interval DEF PartyIds
  <2> QED BY <1>1, <2>1, FS_Subset
<1>3. \A s \in SUBSET D : f[s] = IF s = {} THEN g ELSE Withdrawn(f[s \ {Pick(s)}], Pick(s), p)
  BY DEF WithdrawsOn
<1>4. Fine({})
  <2>1. f[{}] = g
    BY <1>3
  <2>2. Kept(g, {}, O, O \ {p})
    BY DEF Kept
  <2>3. \A j \in PartyIds : p \in g.parties[j].invited <=> j \in D
    BY DEF Kept
  <2> QED BY <2>1, <2>2, <2>3 DEF Halfway
<1>5. ASSUME NEW s \in SUBSET D, s # {}, Fine(s \ {Pick(s)}) PROVE Fine(s)
  <2>1. PICK x : x = Pick(s)
    OBVIOUS
  <2>2. PICK u : u = s \ {x}
    OBVIOUS
  <2>3. x \in D \ u /\ s = u \union {x}
    BY <1>5, <2>1, <2>2, PickIn
  <2>4. f[s] = Withdrawn(f[u], x, p)
    BY <1>3, <1>5, <2>1, <2>2
  <2>5. Halfway(f[u], O, p, D, u)
    BY <1>5, <2>1, <2>2
  <2>6. Halfway(Withdrawn(f[u], x, p), O, p, D, u \union {x})
    BY <1>1, <2>3, <2>5, OneWithdrawn
  <2> QED BY <2>3, <2>4, <2>6
<1>6. SUFFICES ASSUME ~Fine(S) PROVE FALSE
  OBVIOUS
<1>7. Bad # {} /\ Bad \in SUBSET Nat
  <2>1. Cardinality(S) \in Nat
    BY <1>2, FS_Subset, FS_CardinalityType
  <2> QED BY <1>6, <2>1
<1>8. PICK n \in Bad : \A m \in Bad : n <= m
  BY <1>7, LeastNumber
<1>9. PICK s \in SUBSET D : Cardinality(s) = n /\ ~Fine(s)
  BY <1>8
<1> HIDE DEF Fine
<1>10. s # {}
  BY <1>4, <1>9
<1> DEFINE u == s \ {Pick(s)}
<1>11. Pick(s) \in s /\ IsFiniteSet(s) /\ u \in SUBSET D
  BY <1>2, <1>10, FS_Subset, PickIn
<1>12. Cardinality(u) \in Nat /\ Cardinality(u) + 1 = n
  BY <1>9, <1>11, OneLess
<1>13. ~Fine(u)
  BY <1>5, <1>9, <1>10
<1>14. Cardinality(u) \in Bad
  BY <1>11, <1>12, <1>13
<1>15. n <= Cardinality(u) /\ n \in Nat
  BY <1>8, <1>14
<1> QED BY <1>12, <1>15

\* clearPartyInvitations: p is invited by nobody.
LEMMA ClearedKeeps ==
  ASSUME NEW g, NEW O \in SUBSET Players, NEW p \in O, Kept(g, {}, O, O)
  PROVE  LET h == InvitationsCleared(g, p) IN
         Kept(h, {}, O, O) /\ h.invites[p] = {}
<1>1. PICK D : D = g.invites[p]
  OBVIOUS
<1>2. IsFiniteSet(D)
  <2>1. IsFiniteSet(PartyIds)
    BY OnlineAssumption, FS_CardinalityType, FS_Interval DEF PartyIds
  <2>2. D \subseteq PartyIds
    BY <1>1 DEF Kept, Groups
  <2> QED BY <2>1, <2>2, FS_Subset
<1>3. PICK f : f = CHOOSE x : WithdrawsOn(g, p, SUBSET D, x)
  OBVIOUS
<1>4. WithdrawsOn(g, p, SUBSET D, f)
  BY <1>2, <1>3, Solvable
<1>5. PICK v : v = f[D]
  OBVIOUS
<1>6. Halfway(v, O, p, D, D)
  BY <1>1, <1>4, <1>5, LoopKeeps
<1>7. PICK h : h = [v EXCEPT !.invites[p] = {}]
  OBVIOUS
<1>8. InvitationsCleared(g, p) = h
  BY <1>1, <1>3, <1>5, <1>7, LoopIs
<1>9. v \in Groups /\ p \in Players
  BY <1>6 DEF Halfway, Kept
<1>10. /\ h.of = v.of /\ h.parties = v.parties /\ h.invites[p] = {} /\ h \in Groups
       /\ \A q \in Players \ {p} : h.invites[q] = v.invites[q]
  BY <1>7, <1>9 DEF Groups
<1>11. /\ Kept(v, {}, O, O \ {p}) /\ \A j \in PartyIds : p \notin v.parties[j].invited
  BY <1>6 DEF Halfway
<1>12. Kept(h, {}, O, O)
  BY <1>10, <1>11 DEF Kept
<1> QED BY <1>8, <1>10, <1>12

\* The parties of the players in O and the pointers to them agree.
Agreeing(g, O) == O \subseteq Players /\ Kept(g, {}, O, O)
\* The inductive invariant.
PartyInv == Agreeing(groups, online)

\* Somebody in no party and invited by nobody goes, ...
LEMMA Gone ==
  ASSUME NEW g, NEW O, Agreeing(g, O), NEW p \in O, g.of[p] = None, g.invites[p] = {}
  PROVE  Agreeing(g, O \ {p})
<1> DEFINE R == O \ {p}
<1>1. g \in Groups
  BY DEF Agreeing, Kept
<1>2. \A id \in PartyIds : p \notin Mine(g.parties[id]) /\ p \notin g.parties[id].invited
  BY Nobody DEF Agreeing, Kept
<1>3. ASSUME NEW id \in PartyIds, g.parties[id] # Dead
      PROVE  Peopled(g.parties[id], R) /\ ~Deserted(g.parties[id])
  <2>1. Peopled(g.parties[id], O) /\ ~Deserted(g.parties[id])
    BY <1>3 DEF Agreeing, Kept
  <2>2. p \notin Mine(g.parties[id]) /\ p \notin g.parties[id].invited
    BY <1>2
  <2> QED BY <2>1, <2>2 DEF Peopled, Mine
<1>4. \A q \in R, id \in PartyIds : /\ g.of[q] = id <=> q \in Mine(g.parties[id])
                                    /\ id \in g.invites[q] <=> q \in g.parties[id].invited
  BY DEF Agreeing, Kept
<1>5. R \subseteq Players
  BY DEF Agreeing
<1> HIDE DEF R
<1>6. Agreeing(g, R)
  BY <1>1, <1>3, <1>4, <1>5 DEF Agreeing, Kept
<1> QED BY <1>6 DEF R

\* ... and comes.
LEMMA Come ==
  ASSUME NEW g, NEW O, Agreeing(g, O), NEW p \in Players, p \notin O, NEW h,
         h = [g EXCEPT !.of[p] = None, !.invites[p] = {}]
  PROVE  Agreeing(h, O \union {p})
<1> DEFINE R == O \union {p}
<1>1. g \in Groups
  BY DEF Agreeing, Kept
<1>2. /\ h \in Groups /\ h.parties = g.parties /\ h.of[p] = None /\ h.invites[p] = {}
      /\ \A q \in Players \ {p} : h.of[q] = g.of[q] /\ h.invites[q] = g.invites[q]
  BY <1>1 DEF Groups
<1>3. ASSUME NEW id \in PartyIds
      PROVE  /\ p \notin Mine(g.parties[id]) /\ p \notin g.parties[id].invited
             /\ g.parties[id] = Dead \/ (Peopled(g.parties[id], R) /\ ~Deserted(g.parties[id]))
  <2>1. CASE g.parties[id] = Dead
    BY <2>1, DeadIs, Nobody
  <2>2. CASE g.parties[id] # Dead
    <3>1. Peopled(g.parties[id], O) /\ ~Deserted(g.parties[id])
      BY <2>2 DEF Agreeing, Kept
    <3> QED BY <3>1 DEF Peopled, Mine
  <2> QED BY <2>1, <2>2
<1>4. \A q \in O : q \in Players \ {p}
  BY DEF Agreeing
<1>5. \A q \in R, id \in PartyIds : h.of[q] = id <=> q \in Mine(h.parties[id])
  BY <1>2, <1>3, <1>4, Nobody DEF Agreeing, Kept
<1>6. \A q \in R, id \in PartyIds : id \in h.invites[q] <=> q \in h.parties[id].invited
  BY <1>2, <1>3, <1>4 DEF Agreeing, Kept
<1>7. R \subseteq Players
  BY DEF Agreeing
<1> HIDE DEF R
<1>8. Agreeing(h, R)
  BY <1>2, <1>3, <1>5, <1>6, <1>7 DEF Agreeing, Kept
<1> QED BY <1>8 DEF R

\* onRemoveCreature withdraws the invitations, then leaves the party.
LEMMA LogoutKeepsParties ==
  ASSUME PartyInv, NEW p \in online, PartyLogout(p), online' = online \ {p}
  PROVE  PartyInv'
<1>1. PICK O : O = online
  OBVIOUS
<1>2. PICK g : g = InvitationsCleared(groups, p)
  OBVIOUS
<1>3. Agreeing(groups, O) /\ p \in O /\ O \in SUBSET Players
  BY <1>1 DEF PartyInv, Agreeing
<1>4. Kept(g, {}, O, O) /\ g.invites[p] = {}
  BY <1>2, <1>3, ClearedKeeps DEF Agreeing
<1>5. groups' = IF g.of[p] # None THEN Left(g, p) ELSE g
  BY <1>2 DEF PartyLogout
<1>6. PICK h : h = groups'
  OBVIOUS
<1>7. Kept(h, {}, O, O) /\ h.of[p] = None /\ h.invites[p] = {}
  <2>1. CASE g.of[p] # None
    <3>1. h = Left(g, p) /\ O \in SUBSET O
      BY <1>5, <1>6, <2>1
    <3>2. Kept(h, {}, O, O) /\ h.of[p] = None /\ \A q \in Players : h.invites[q] \subseteq g.invites[q]
      <4>1. Kept(g, {}, O, O) /\ O \in SUBSET Players /\ O \in SUBSET O /\ p \in O
        BY <1>3, <1>4, <3>1
      <4>2. /\ Kept(Left(g, p), {}, O, O) /\ Left(g, p).of[p] = None
            /\ \A q \in Players : Left(g, p).invites[q] \subseteq g.invites[q]
        BY <2>1, <4>1, LeftKeeps
      <4>3. h = Left(g, p)
        BY <3>1
      <4> QED BY <4>2, <4>3, Zenon
    <3> QED BY <1>3, <1>4, <3>2
  <2>2. CASE g.of[p] = None
    BY <1>4, <1>5, <1>6, <2>2
  <2> QED BY <2>1, <2>2
<1>8. Agreeing(h, O)
  BY <1>3, <1>7 DEF Agreeing
<1>9. Agreeing(h, O \ {p})
  BY <1>3, <1>7, <1>8, Gone
<1> QED BY <1>1, <1>6, <1>9 DEF PartyInv

\* placeCreature: a new Player object is in no party and invited by nobody.
LEMMA LoginKeepsParties ==
  ASSUME PartyInv, NEW p \in Players, p \notin online, PartyLogin(p), online' = online \union {p}
  PROVE  PartyInv'
<1>1. PICK h : h = groups'
  OBVIOUS
<1>2. h = [groups EXCEPT !.of[p] = None, !.invites[p] = {}]
  BY <1>1 DEF PartyLogin
<1>3. Agreeing(h, online \union {p})
  BY <1>2, Come DEF PartyInv
<1> QED BY <1>1, <1>3 DEF PartyInv

\* The requests.
LEMMA RequestsKeep ==
  ASSUME PartyInv, PartyNext
  PROVE  PartyInv'
<1>1. PICK O : O = online
  OBVIOUS
<1>2. O \in SUBSET Players /\ O \in SUBSET O /\ Kept(groups, {}, O, O) /\ groups \in Groups
  BY <1>1 DEF PartyInv, Agreeing, Kept
<1>3. PICK p \in Players :
         \/ LeaveParty(p)
         \/ \E q \in Players :
              \/ InviteToParty(p, q) \/ JoinParty(p, q)
              \/ RevokePartyInvitation(p, q) \/ PassPartyLeadership(p, q)
  BY DEF PartyNext
<1>4. SUFFICES Kept(groups', {}, O, O) /\ online' = O
  BY <1>1, <1>2 DEF PartyInv, Agreeing
<1>5. online' = O
  BY <1>1, <1>3 DEF LeaveParty, InviteToParty, JoinParty, RevokePartyInvitation, PassPartyLeadership
<1>6. ASSUME LeaveParty(p) PROVE Kept(groups', {}, O, O)
  <2>1. p \in O /\ groups.of[p] # None /\ groups' = Left(groups, p)
    BY <1>1, <1>6 DEF LeaveParty
  <2>2. Kept(Left(groups, p), {}, O, O)
    BY <1>2, <2>1, LeftKeeps
  <2> QED BY <2>1, <2>2
<1>7. ASSUME NEW q \in Players, InviteToParty(p, q) PROVE Kept(groups', {}, O, O)
  <2>1. PICK g : g = IF groups.of[p] = None THEN Founded(groups, p) ELSE groups
    OBVIOUS
  <2>2. /\ p \in O /\ q \in O /\ p # q /\ groups.of[q] = None
        /\ groups.of[p] = None \/ Leads(groups, p)
        /\ groups' = Invited(g, g.of[p], q)
    BY <1>1, <1>7, <2>1 DEF InviteToParty
  <2>3. g.of[p] \in PartyIds /\ g.of[q] = None /\ Kept(g, {g.of[p]}, O, O) /\ g.parties[g.of[p]] # Dead
    <3>1. CASE groups.of[p] = None
      <4>1. g = Founded(groups, p)
        BY <2>1, <3>1
      <4> QED BY <1>2, <2>2, <3>1, <4>1, FoundedKeeps
    <3>2. CASE groups.of[p] # None
      <4>1. g = groups /\ groups.of[p] \in PartyIds /\ groups.parties[groups.of[p]].leader = p
        BY <1>2, <2>1, <2>2, <3>2 DEF Groups, Leads
      <4>2. Kept(groups, {groups.of[p]}, O, O)
        BY <1>2 DEF Kept
      <4> QED BY <1>2, <2>2, <4>1, <4>2, DeadIs, Nobody
    <3> QED BY <3>1, <3>2
  <2>4. Kept(Invited(g, g.of[p], q), {}, O, O)
    BY <1>2, <2>2, <2>3, InvitedKeeps
  <2> QED BY <2>2, <2>4
<1>8. ASSUME NEW q \in Players, JoinParty(p, q) PROVE Kept(groups', {}, O, O)
  <2>1. PICK id : id = groups.of[q]
    OBVIOUS
  <2>2. /\ p \in O /\ groups.of[p] = None /\ p \in groups.parties[id].invited
        /\ id # None /\ groups' = Joined(groups, id, p)
    BY <1>1, <1>8, <2>1 DEF JoinParty, Inviting, Leads
  <2>3. id \in PartyIds
    BY <1>2, <2>1, <2>2 DEF Groups
  <2>4. Kept(Joined(groups, id, p), {}, O, O)
    BY <1>2, <2>2, <2>3, JoinedKeeps
  <2> QED BY <2>2, <2>4
<1>9. ASSUME NEW q \in Players, RevokePartyInvitation(p, q) PROVE Kept(groups', {}, O, O)
  <2>1. PICK id : id = groups.of[p]
    OBVIOUS
  <2>2. q \in O /\ q \in groups.parties[id].invited /\ id # None
    BY <1>1, <1>9, <2>1 DEF RevokePartyInvitation, Inviting, Leads
  <2>3. groups' = Revoked(groups, id, q)
    BY <1>9, <2>1, Zenon DEF RevokePartyInvitation, Revoked
  <2>4. id \in PartyIds
    BY <1>2, <2>1, <2>2 DEF Groups
  <2>5. Kept(Revoked(groups, id, q), {}, O, O)
    BY <1>2, <2>2, <2>4, RevokedKeeps
  <2> QED BY <2>3, <2>5
<1>10. ASSUME NEW q \in Players, PassPartyLeadership(p, q) PROVE Kept(groups', {}, O, O)
  <2>1. PICK id : id = groups.of[p]
    OBVIOUS
  <2>2. /\ q \in O /\ p # q /\ groups.of[q] = id /\ id # None /\ groups.parties[id].leader = p
        /\ groups' = Passed(groups, id, q)
    BY <1>1, <1>10, <2>1 DEF PassPartyLeadership, Leads
  <2>3. id \in PartyIds
    BY <1>2, <2>1, <2>2 DEF Groups
  <2>4. q \in In(groups.parties[id].members)
    BY <1>2, <2>2, <2>3 DEF Kept, Mine
  <2>5. Kept(Passed(groups, id, q), {}, O, O)
    BY <1>2, <2>3, <2>4, PassedKeeps
  <2> QED BY <2>2, <2>5
<1> QED BY <1>3, <1>5, <1>6, <1>7, <1>8, <1>9, <1>10

\* There are no parties when the server starts.
LEMMA PartiesInitially == Init => PartyInv
<1> SUFFICES ASSUME Init PROVE PartyInv
  OBVIOUS
<1>1. /\ online = {}
      /\ groups = [of |-> [p \in Players |-> None], invites |-> [p \in Players |-> {}],
                   parties |-> [id \in PartyIds |-> Dead]]
  BY DEF Init, OnlineInit, PartyInit
<1>2. groups \in Groups /\ \A id \in PartyIds : groups.parties[id] = Dead
  BY <1>1, DeadIs DEF Groups
<1> QED BY <1>1, <1>2 DEF PartyInv, Agreeing, Kept

\* Every step keeps the parties in order.
LEMMA StepKeepsParties == PartyInv /\ [Next]_vars => PartyInv'
<1> SUFFICES ASSUME PartyInv, [Next]_vars PROVE PartyInv'
  OBVIOUS
<1>1. ASSUME UNCHANGED <<online, groups>> PROVE PartyInv'
  BY <1>1 DEF PartyInv
<1>2. ASSUME TradeNext, UNCHANGED groups PROVE PartyInv'
  <2>1. online' = online
    BY <1>2 DEF TradeNext, CloseTrade, AcceptFirst, AcceptSecond, AcceptNothing, RequestTrade, MoveItem
  <2> QED BY <1>1, <1>2, <2>1
<1>3. ASSUME NEW i \in Items, RemoveItem(i), UNCHANGED groups PROVE PartyInv'
  BY <1>1, <1>3 DEF RemoveItem
<1>4. ASSUME PartyNext PROVE PartyInv'
  BY <1>4, RequestsKeep
<1>5. ASSUME NEW p \in Players, Login(p) PROVE PartyInv'
  BY <1>5, LoginKeepsParties DEF Login
<1>6. ASSUME NEW p \in Players, Logout(p) PROVE PartyInv'
  BY <1>6, LogoutKeepsParties DEF Logout
<1>7. ASSUME UNCHANGED vars PROVE PartyInv'
  BY <1>1, <1>7 DEF vars
<1> QED BY <1>2, <1>3, <1>4, <1>5, <1>6, <1>7 DEF Next

\* What is asked of the parties follows.
LEMMA PartiesAgree == PartyInv => PartiesConsistent
<1> SUFFICES ASSUME PartyInv PROVE PartiesConsistent
  OBVIOUS
<1>1. /\ online \subseteq Players
      /\ \A id \in PartyIds :
           LET P == groups.parties[id] IN P = Dead \/ (Peopled(P, online) /\ ~Deserted(P))
      /\ \A q \in online, id \in PartyIds : groups.of[q] = id <=> q \in Mine(groups.parties[id])
      /\ \A q \in online, id \in PartyIds : id \in groups.invites[q] <=> q \in groups.parties[id].invited
  BY DEF PartyInv, Agreeing, Kept
<1>2. \A id \in PartyIds : MembersOf(groups.parties[id]) = In(groups.parties[id].members)
  BY DEF MembersOf, In
<1>3. MembersAgree
  <2>1. \A p \in online, id \in PartyIds :
          (groups.of[p] = id) <=> (p \in {groups.parties[id].leader} \union MembersOf(groups.parties[id]))
    BY <1>1, <1>2 DEF Mine
  <2>2. ASSUME NEW id \in PartyIds
        PROVE  /\ IsInjective(groups.parties[id].members)
               /\ groups.parties[id].leader \notin MembersOf(groups.parties[id])
    <3>1. CASE groups.parties[id] = Dead
      BY <1>2, <3>1, DeadIs
    <3>2. CASE groups.parties[id] # Dead
      BY <1>1, <1>2, <3>2 DEF Peopled
    <3> QED BY <3>1, <3>2
  <2> QED BY <2>1, <2>2 DEF MembersAgree
<1>4. InvitationsAgree
  <2>1. ASSUME NEW id \in PartyIds
        PROVE  /\ groups.parties[id].invited \subseteq online
               /\ groups.parties[id].invited \intersect
                    ({groups.parties[id].leader} \union MembersOf(groups.parties[id])) = {}
    <3>1. CASE groups.parties[id] = Dead
      BY <1>2, <3>1, DeadIs
    <3>2. CASE groups.parties[id] # Dead
      BY <1>1, <1>2, <3>2 DEF Peopled, Mine
    <3> QED BY <3>1, <3>2
  <2> QED BY <1>1, <2>1 DEF InvitationsAgree
<1>5. PartiesAlive
  BY <1>1, <1>2 DEF PartiesAlive, Live, Peopled, Deserted, Empty
<1> QED BY <1>3, <1>4, <1>5 DEF PartiesConsistent

\* However parties are founded, joined, passed on, left and emptied, and whoever
\* logs in and out, the parties and the Player objects name each other.
THEOREM PartiesConsistentHolds == Spec => []PartiesConsistent
BY PartiesInitially, StepKeepsParties, PartiesAgree, PTL DEF Spec

-----------------------------------------------------------------------------
(* Saving.  Neither SavedWhole nor QueriesKept is inductive: what Commit   *)
(* writes is what the statements before it left in the transaction, and    *)
(* what other records and queries it writes is what BEGIN saw.  So the     *)
(* invariant follows the script from statement to statement (Progress),    *)
(* says that the transaction has all that is not its own as the database   *)
(* has it (Rest), and ties it to the lock and to the place in the script   *)
(* (Stages).                                                               *)

SaveState == [of : Records \union {Nothing}, at : {-1, 0, 1, 2, 3, 4}, tries : Int, leaves : BOOLEAN]

TypesKept ==
  /\ mem \in [Records -> Int \union {Nothing}]
  /\ store \in Databases /\ work \in Databases \union {Nothing}
  /\ save \in SaveState
  /\ asked \in SUBSET Queries /\ told \in [Records -> Int]
  /\ done \in [all : SUBSET Queries, slipped : SUBSET Queries]
  /\ torn \in [lost : SUBSET Records, skipped : SUBSET Records, times : Int]

\* A table that is only updated always has a row to load.
RowsKept ==
  /\ \A r \in Records : store.rows[r]["row"] # << >>
  /\ work # Nothing => \A r \in Records : work.rows[r]["row"] # << >>

\* Where in a save the transaction is open, and the lock held.
Stages ==
  /\ save.of = Nothing => save = NoSave /\ work = Nothing /\ lock = Nothing
  /\ save.of # Nothing =>
       /\ mem[save.of] # Nothing
       /\ save.at = AtBegin => work = Nothing
       /\ save.at \in {AtBegin, AtLock} => lock = Nothing
       /\ save.at \in {1, 2, 3, 4} => lock = "game"
       /\ save.at # AtBegin /\ work = Nothing => save.of \in torn.lost

\* What the transaction has of others is as the database has it.
Rest ==
  work # Nothing =>
    /\ \A r \in Records \ {save.of} : work.rows[r] = store.rows[r]
    /\ store.log \subseteq work.log

\* What the statements so far have made of the record, in the transaction.
Reached(row, rest) == work.rows[save.of]["row"] = <<row>> /\ work.rows[save.of]["rest"] = rest
Progress ==
  work # Nothing /\ save.of \notin torn.lost \union torn.skipped =>
    LET old == told[save.of]
        new == mem[save.of]
    IN /\ save.at \in {0, 1} => Reached(old, <<old>>)
       /\ save.at = 2 => Reached(IF save.of \in Characters THEN new ELSE old,
                                 IF save.of \in Characters THEN <<old>> ELSE << >>)
       /\ save.at = 3 => Reached(new, << >>)
       /\ save.at = 4 => Reached(new, <<new>>)

SavingInv ==
  /\ TypesKept /\ RowsKept /\ Stages /\ Rest /\ Progress
  /\ SavedWhole /\ done.all \ done.slipped \subseteq store.log

-----------------------------------------------------------------------------
(* The scripts and what their statements do *)

Updates(do) == do.verb = "update" /\ do.table = "row"
Deletes(do) == do.verb = "delete" /\ do.table = "rest"
Inserts(do) == do.verb = "insert" /\ do.table = "rest"

\* IOLoginData::savePlayer and IOMapSerialize::saveHouseInfo have three statements.
LEMMA Scripts ==
  ASSUME NEW r \in Records
  PROVE  /\ Len(Script(r)) = 3
         /\ r \in Characters => Updates(Script(r)[1]) /\ Deletes(Script(r)[2])
         /\ r \notin Characters => Deletes(Script(r)[1]) /\ Updates(Script(r)[2])
         /\ Inserts(Script(r)[3])
  BY DEF Script, CharacterScript, HousesScript, Do, Updates, Deletes, Inserts

\* A statement that updates replaces the row; the tables stay tables.
LEMMA UpdateApplied ==
  ASSUME NEW rows \in [Tables -> Seq(Int)], NEW v \in Int, NEW do, Updates(do)
  PROVE  /\ Applied(rows, v, do) \in [Tables -> Seq(Int)]
         /\ Applied(rows, v, do)["row"] = <<v>>
         /\ Applied(rows, v, do)["rest"] = rows["rest"]
<1>1. Applied(rows, v, do) = [rows EXCEPT !["row"] = <<v>>]
  BY DEF Applied, Updates
<1>2. <<v>> \in Seq(Int)
  OBVIOUS
<1> QED BY <1>1, <1>2 DEF Tables

\* One that deletes empties the rest.
LEMMA DeleteApplied ==
  ASSUME NEW rows \in [Tables -> Seq(Int)], NEW v \in Int, NEW do, Deletes(do)
  PROVE  /\ Applied(rows, v, do) \in [Tables -> Seq(Int)]
         /\ Applied(rows, v, do)["row"] = rows["row"]
         /\ Applied(rows, v, do)["rest"] = << >>
<1>1. Applied(rows, v, do) = [rows EXCEPT !["rest"] = << >>]
  BY DEF Applied, Deletes
<1> QED BY <1>1 DEF Tables

\* One that inserts adds the version to the rest.
LEMMA InsertApplied ==
  ASSUME NEW rows \in [Tables -> Seq(Int)], NEW v \in Int, NEW do, Inserts(do)
  PROVE  /\ Applied(rows, v, do) \in [Tables -> Seq(Int)]
         /\ Applied(rows, v, do)["row"] = rows["row"]
         /\ Applied(rows, v, do)["rest"] = Append(rows["rest"], v)
<1>1. Applied(rows, v, do) = [rows EXCEPT !["rest"] = Append(rows["rest"], v)]
  BY DEF Applied, Inserts
<1>2. Append(rows["rest"], v) \in Seq(Int)
  BY DEF Tables
<1> QED BY <1>1, <1>2 DEF Tables

\* The database is empty but for the records' first versions.
LEMMA SavingInitially == SavingInit => SavingInv
<1> SUFFICES ASSUME SavingInit PROVE SavingInv
  OBVIOUS
<1> USE SavingAssumption DEF SavingInit, NoSave
<1>1. TypesKept
  <2>1. <<0>> \in Seq(Int)
    OBVIOUS
  <2>2. store \in Databases
    BY <2>1 DEF Databases
  <2> QED BY <2>2 DEF TypesKept, SaveState
<1>2. RowsKept
  BY DEF RowsKept, Tables
<1>3. Stages /\ Rest /\ Progress
  BY DEF Stages, Rest, Progress
<1>4. SavedWhole /\ done.all \ done.slipped \subseteq store.log
  BY DEF SavedWhole, IsWhole
<1> QED BY <1>1, <1>2, <1>3, <1>4 DEF SavingInv

-----------------------------------------------------------------------------
(* The steps between saves *)

\* Loading takes the version of the row.
LEMMA LoadPlayerKeeps ==
  ASSUME SavingInv, NEW r \in Records, LoadPlayer(r)
  PROVE  SavingInv'
<1> USE SavingAssumption DEF SavingInv
<1>1. /\ mem' = [mem EXCEPT ![r] = store.rows[r]["row"][1]] /\ save = NoSave
      /\ UNCHANGED <<store, work, lock, save, asked, told, done, torn>>
  BY DEF LoadPlayer
<1>2. store.rows[r]["row"] \in Seq(Int) /\ store.rows[r]["row"] # << >>
  BY DEF TypesKept, RowsKept, Databases, Tables
<1>3. store.rows[r]["row"][1] \in Int
  BY <1>2
<1>4. TypesKept'
  BY <1>1, <1>3 DEF TypesKept
<1>5. work = Nothing /\ save.of = Nothing
  BY <1>1 DEF Stages, NoSave
<1> QED BY <1>1, <1>4, <1>5 DEF RowsKept, Stages, Rest, Progress, SavedWhole, IsWhole

\* A character plays, a house is bought: only the memory changes.
LEMMA PlayKeeps ==
  ASSUME SavingInv, NEW r \in Records, Play(r)
  PROVE  SavingInv'
<1> USE SavingAssumption DEF SavingInv
<1>1. /\ mem' = [mem EXCEPT ![r] = @ + 1] /\ save = NoSave /\ mem[r] # Nothing
      /\ UNCHANGED <<store, work, lock, save, asked, told, done, torn>>
  BY DEF Play
<1>2. mem[r] + 1 \in Int
  BY <1>1 DEF TypesKept
<1>3. TypesKept'
  BY <1>1, <1>2 DEF TypesKept
<1>4. work = Nothing /\ save.of = Nothing
  BY <1>1 DEF Stages, NoSave
<1> QED BY <1>1, <1>3, <1>4 DEF RowsKept, Stages, Rest, Progress, SavedWhole, IsWhole

\* A save starts with no transaction open.
LEMMA StartSaveKeeps ==
  ASSUME SavingInv, NEW r \in Records, NEW leaves \in BOOLEAN, StartSave(r, leaves)
  PROVE  SavingInv'
<1> USE SavingAssumption DEF SavingInv
<1>1. /\ save' = [of |-> r, at |-> AtBegin, leaves |-> leaves,
                  tries |-> IF leaves \/ r \in Houses THEN 3 ELSE 1]
      /\ save = NoSave /\ mem[r] # Nothing
      /\ UNCHANGED <<mem, store, work, lock, asked, told, done, torn>>
  BY DEF StartSave
<1>2. work = Nothing /\ lock = Nothing /\ save.of = Nothing
  BY <1>1 DEF Stages, NoSave
<1>3. save' \in SaveState /\ save'.of = r /\ save'.at = AtBegin
  BY <1>1 DEF SaveState, AtBegin
<1>4. TypesKept'
  BY <1>1, <1>3 DEF TypesKept
<1>5. Stages'
  BY <1>1, <1>2, <1>3 DEF Stages, AtBegin, AtLock
<1> QED BY <1>1, <1>2, <1>4, <1>5 DEF RowsKept, Rest, Progress, SavedWhole, IsWhole

\* A query is asked.
LEMMA AskKeeps ==
  ASSUME SavingInv, NEW q \in Queries, Ask(q)
  PROVE  SavingInv'
<1>1. /\ asked' = asked \union {q}
      /\ UNCHANGED <<mem, store, work, lock, save, told, done, torn>>
  BY DEF Ask
<1>2. TypesKept'
  BY <1>1 DEF SavingInv, TypesKept
<1> QED BY <1>1, <1>2 DEF SavingInv, RowsKept, Stages, Rest, Progress, Reached, SavedWhole, IsWhole

\* The database thread executes a query: in a transaction only before the lock.
LEMMA RunQueryKeeps ==
  ASSUME SavingInv, NEW q \in Queries, RunQuery(q)
  PROVE  SavingInv'
<1> USE SavingAssumption DEF SavingInv
<1>1. /\ lock = Nothing /\ asked' = asked \ {q}
      /\ done' = [all |-> done.all \union {q},
                  slipped |-> IF work # Nothing /\ save.at = AtLock
                              THEN done.slipped \union {q} ELSE done.slipped]
      /\ UNCHANGED <<mem, lock, save, told, torn>>
  BY DEF RunQuery
<1>2. TypesKept /\ store \in Databases /\ work \in Databases \union {Nothing}
  BY DEF TypesKept
<1>3. CASE work # Nothing
  <2>1. work' = [work EXCEPT !.log = @ \union {q}] /\ store' = store /\ work \in Databases
    BY <1>2, <1>3 DEF RunQuery
  <2>2. work' \in Databases /\ work'.rows = work.rows /\ work'.log = work.log \union {q}
    BY <2>1 DEF Databases
  <2>3. save.at = AtLock /\ save.of # Nothing
    BY <1>1, <1>2, <1>3 DEF Stages, SaveState, TypesKept, AtBegin, AtLock
  <2>4. done'.all \ done'.slipped \subseteq store.log
    BY <1>1, <1>3, <2>3
  <2>5. TypesKept'
    BY <1>1, <1>2, <2>1, <2>2, <1>3, <2>3 DEF TypesKept
  <2>6. Rest' /\ RowsKept'
    BY <1>1, <1>3, <2>1, <2>2 DEF Rest, RowsKept
  <2>7. Stages'
    BY <1>1, <1>3, <2>2, <2>3 DEF Stages
  <2>8. Progress'
    BY <1>1, <1>3, <2>2 DEF Progress, Reached
  <2> QED BY <1>1, <2>1, <2>4, <2>5, <2>6, <2>7, <2>8 DEF SavedWhole, IsWhole
<1>4. CASE work = Nothing
  <2>1. store' = [store EXCEPT !.log = @ \union {q}] /\ work' = work
    BY <1>4 DEF RunQuery
  <2>2. store' \in Databases /\ store'.rows = store.rows /\ store'.log = store.log \union {q}
    BY <1>2, <2>1 DEF Databases
  <2>3. TypesKept'
    BY <1>1, <1>2, <2>1, <2>2, <1>4 DEF TypesKept
  <2>4. RowsKept' /\ Stages' /\ Rest' /\ Progress' /\ SavedWhole'
    BY <1>1, <1>4, <2>1, <2>2 DEF RowsKept, Stages, Rest, Progress, SavedWhole, IsWhole
  <2> QED BY <1>1, <1>4, <2>2, <2>3, <2>4
<1> QED BY <1>3, <1>4

\* A connection that ends takes the transaction with it.
LEMMA LoseConnectionKeeps ==
  ASSUME SavingInv, LoseConnection
  PROVE  SavingInv'
<1> USE SavingAssumption DEF SavingInv
<1>1. /\ work' = Nothing
      /\ torn' = [torn EXCEPT !.times = @ + 1,
                              !.lost = IF work # Nothing THEN @ \union {save.of} ELSE @]
      /\ UNCHANGED <<mem, store, lock, save, asked, told, done>>
  BY DEF LoseConnection
<1>2. work # Nothing => save.of \in Records
  BY DEF Stages, TypesKept, SaveState
<1>3. /\ torn'.lost = IF work # Nothing THEN torn.lost \union {save.of} ELSE torn.lost
      /\ torn'.skipped = torn.skipped
      /\ torn' \in [lost : SUBSET Records, skipped : SUBSET Records, times : Int]
  <2> DEFINE now == IF work # Nothing THEN torn.lost \union {save.of} ELSE torn.lost
  <2>1. now \in SUBSET Records /\ torn \in [lost : SUBSET Records, skipped : SUBSET Records, times : Int]
    BY <1>2 DEF TypesKept
  <2>2. torn' = [torn EXCEPT !.times = @ + 1, !.lost = now]
    BY <1>1
  <2> HIDE DEF now
  <2>3. torn' = [lost |-> now, skipped |-> torn.skipped, times |-> torn.times + 1]
    BY <2>1, <2>2
  <2>4. torn.skipped \in SUBSET Records /\ torn.times + 1 \in Int
    BY <2>1
  <2>5. torn'.lost = now /\ torn'.skipped = torn.skipped
        /\ torn' \in [lost : SUBSET Records, skipped : SUBSET Records, times : Int]
    BY <2>1, <2>3, <2>4
  <2> QED BY <2>5 DEF now
<1>4. TypesKept' /\ RowsKept'
  BY <1>1, <1>3 DEF TypesKept, RowsKept
<1>5. Stages'
  BY <1>1, <1>3 DEF Stages
<1> QED BY <1>1, <1>3, <1>4, <1>5 DEF Rest, Progress, SavedWhole, IsWhole

\* A crash leaves what was committed.
LEMMA CrashKeeps ==
  ASSUME SavingInv, Crash
  PROVE  SavingInv'
<1> USE SavingAssumption DEF SavingInv
<1>1. /\ mem' = [r \in Records |-> Nothing]
      /\ work' = Nothing /\ lock' = Nothing /\ save' = NoSave /\ asked' = {}
      /\ UNCHANGED <<store, told, done, torn>>
  BY DEF Crash
<1>2. NoSave \in SaveState /\ NoSave.of = Nothing
  BY DEF NoSave, SaveState
<1>3. TypesKept' /\ RowsKept' /\ Stages'
  BY <1>1, <1>2 DEF TypesKept, RowsKept, Stages
<1> QED BY <1>1, <1>3 DEF Rest, Progress, SavedWhole, IsWhole

-----------------------------------------------------------------------------
(* The steps of a save *)

\* BEGIN: the transaction has everything as the database has it.
LEMMA BeginKeeps ==
  ASSUME SavingInv, Begin
  PROVE  SavingInv'
<1> USE SavingAssumption DEF SavingInv
<1>1. /\ save.of # Nothing /\ save.at = AtBegin /\ work' = store
      /\ save' = [save EXCEPT !.at = AtLock]
      /\ UNCHANGED <<mem, store, lock, asked, told, done, torn>>
  BY DEF Begin, Begun
<1>2. /\ save' \in SaveState /\ save'.of = save.of /\ save'.at = AtLock
      /\ save.of \in Records /\ store \in Databases /\ work' # Nothing
  BY <1>1 DEF TypesKept, SaveState, AtLock
<1>3. TypesKept' /\ RowsKept'
  BY <1>1, <1>2 DEF TypesKept, RowsKept
<1>4. Stages'
  BY <1>1, <1>2 DEF Stages, AtBegin, AtLock
<1>5. Rest'
  BY <1>1, <1>2 DEF Rest
<1>6. Progress'
  BY <1>1, <1>2 DEF Progress, Reached, SavedWhole, IsWhole, Tables, AtLock
<1> QED BY <1>1, <1>3, <1>4, <1>5, <1>6 DEF SavedWhole, IsWhole

\* The lock is taken.
LEMMA TakeLockKeeps ==
  ASSUME SavingInv, TakeLock
  PROVE  SavingInv'
<1> USE SavingAssumption DEF SavingInv
<1>1. /\ save.of # Nothing /\ save.at = AtLock /\ lock' = "game"
      /\ save' = [save EXCEPT !.at = 1]
      /\ UNCHANGED <<mem, store, work, asked, told, done, torn>>
  BY DEF TakeLock, Locked
<1>2. save' \in SaveState /\ save'.of = save.of /\ save'.at = 1
  BY <1>1 DEF TypesKept, SaveState
<1>3. TypesKept' /\ RowsKept'
  BY <1>1, <1>2 DEF TypesKept, RowsKept
<1>4. Stages'
  BY <1>1, <1>2 DEF Stages, AtBegin, AtLock
<1>5. Rest' /\ Progress'
  BY <1>1, <1>2 DEF Rest, Progress, Reached, AtLock
<1> QED BY <1>1, <1>3, <1>4, <1>5 DEF SavedWhole, IsWhole

\* A save that ends, either way, with the transaction closed and the lock given back.
LEMMA EndedStages ==
  ASSUME SavingInv, NEW ok \in BOOLEAN, save.of # Nothing, Ended(ok),
         work' = Nothing, lock' = Nothing
  PROVE  /\ mem' \in [Records -> Int \union {Nothing}] /\ save' \in SaveState
         /\ Stages'
<1> USE SavingAssumption DEF SavingInv
<1>1. /\ mem \in [Records -> Int \union {Nothing}] /\ save \in SaveState
      /\ save.of \in Records /\ mem[save.of] # Nothing
  BY DEF TypesKept, SaveState, Stages
<1>2. CASE ~ok /\ save.tries > 1
  <2>1. save' = [save EXCEPT !.at = AtBegin, !.tries = @ - 1] /\ mem' = mem
    BY <1>2 DEF Ended
  <2>2. save' = [of |-> save.of, at |-> -1, tries |-> save.tries - 1, leaves |-> save.leaves]
    BY <1>1, <2>1 DEF SaveState, AtBegin
  <2>3. save.of \in Records /\ save.tries - 1 \in Int /\ save.leaves \in BOOLEAN
    BY <1>1 DEF SaveState
  <2>4. save' \in SaveState /\ save'.of = save.of /\ save'.at = AtBegin
    BY <2>2, <2>3 DEF SaveState, AtBegin
  <2> QED BY <1>1, <2>1, <2>4 DEF Stages, AtBegin, AtLock
<1>3. CASE ~(~ok /\ save.tries > 1)
  <2>1. /\ save' = NoSave
        /\ mem' = [mem EXCEPT ![save.of] = IF save.leaves THEN Nothing ELSE @]
    BY <1>3 DEF Ended
  <2>2. NoSave \in SaveState /\ NoSave.of = Nothing
    BY DEF NoSave, SaveState
  <2> QED BY <1>1, <2>1, <2>2 DEF Stages
<1> QED BY <1>2, <1>3

\* A failure rolls back.
LEMMA FailureKeeps ==
  ASSUME SavingInv, save.of # Nothing, Ended(FALSE), work' = Nothing, lock' = Nothing,
         UNCHANGED <<store, asked, told, done, torn>>
  PROVE  SavingInv'
<1> USE DEF SavingInv
<1>1. /\ mem' \in [Records -> Int \union {Nothing}] /\ save' \in SaveState
      /\ Stages'
  BY EndedStages
<1>2. TypesKept' /\ RowsKept'
  BY <1>1 DEF TypesKept, RowsKept
<1> QED BY <1>1, <1>2 DEF Rest, Progress, SavedWhole, IsWhole

\* COMMIT fails.
LEMMA CommitFailsKeeps ==
  ASSUME SavingInv, CommitFails
  PROVE  SavingInv'
  BY FailureKeeps DEF CommitFails

\* COMMIT: the record is in the database as it is in the memory.
LEMMA CommitKeeps ==
  ASSUME SavingInv, Commit
  PROVE  SavingInv'
<1> USE SavingAssumption DEF SavingInv
<1>1. /\ save.of # Nothing /\ save.at = Len(Script(save.of)) + 1
      /\ store' = (IF work # Nothing THEN work ELSE store)
      /\ told' = [told EXCEPT ![save.of] = mem[save.of]]
      /\ work' = Nothing /\ lock' = Nothing /\ Ended(TRUE)
      /\ UNCHANGED <<asked, done, torn>>
  BY DEF Commit, Statements
<1>2. /\ save.of \in Records /\ mem[save.of] \in Int /\ told \in [Records -> Int]
      /\ store' \in Databases
  <2>1. save.of \in Records /\ mem[save.of] # Nothing
    BY <1>1 DEF TypesKept, SaveState, Stages
  <2>2. store' \in Databases
    BY <1>1 DEF TypesKept
  <2> QED BY <2>1, <2>2 DEF TypesKept
<1>3. save.at = 4
  <2>1. Len(Script(save.of)) = 3
    BY <1>2, Scripts
  <2> QED BY <1>1, <2>1
<1>4. /\ mem' \in [Records -> Int \union {Nothing}] /\ save' \in SaveState
      /\ Stages'
  BY <1>1, EndedStages
<1>5. TypesKept' /\ RowsKept'
  BY <1>1, <1>2, <1>4 DEF TypesKept, RowsKept
<1>6. Rest' /\ Progress'
  BY <1>1 DEF Rest, Progress
<1>7. SavedWhole'
  <2> SUFFICES ASSUME NEW r \in Records, r \notin torn.lost \union torn.skipped
               PROVE  IsWhole(store'.rows[r], told'[r])
    BY <1>1 DEF SavedWhole
  <2>1. CASE r = save.of
    <3>1. work # Nothing
      BY <1>1, <1>3, <2>1 DEF Stages, AtBegin
    <3>2. Reached(mem[save.of], <<mem[save.of]>>)
      BY <1>3, <2>1, <3>1 DEF Progress
    <3> QED BY <1>1, <1>2, <2>1, <3>1, <3>2 DEF Reached, IsWhole, Tables
  <2>2. CASE r # save.of
    <3>1. store'.rows[r] = store.rows[r] /\ told'[r] = told[r]
      BY <1>1, <1>2, <2>2 DEF Rest
    <3> QED BY <3>1 DEF SavedWhole
  <2> QED BY <2>1, <2>2
<1>8. done'.all \ done'.slipped \subseteq store'.log
  BY <1>1 DEF Rest
<1> QED BY <1>4, <1>5, <1>6, <1>7, <1>8

\* A statement turns tables into tables, and never leaves the row empty.
LEMMA StatementTables ==
  ASSUME NEW r \in Records, NEW i \in {1, 2, 3}, NEW v \in Int,
         NEW rows \in [Tables -> Seq(Int)]
  PROVE  /\ Applied(rows, v, Script(r)[i]) \in [Tables -> Seq(Int)]
         /\ rows["row"] # << >> => Applied(rows, v, Script(r)[i])["row"] # << >>
<1>1. Updates(Script(r)[i]) \/ Deletes(Script(r)[i]) \/ Inserts(Script(r)[i])
  BY Scripts
<1>2. <<v>> # << >>
  OBVIOUS
<1>3. PICK do : do = Script(r)[i]
  OBVIOUS
<1>4. CASE Updates(do)
  BY <1>2, <1>3, <1>4, UpdateApplied
<1>5. CASE Deletes(do)
  BY <1>3, <1>5, DeleteApplied
<1>6. CASE Inserts(do)
  <2>1. Applied(rows, v, do)["row"] = rows["row"] /\ Applied(rows, v, do) \in [Tables -> Seq(Int)]
    BY <1>6, InsertApplied
  <2> QED BY <1>3, <2>1
<1> QED BY <1>1, <1>3, <1>4, <1>5, <1>6

\* A statement: the transaction gets one step further, or, where it is lost, the
\* database itself.
LEMMA StatementKeeps ==
  ASSUME SavingInv, Statement
  PROVE  SavingInv'
<1> USE SavingAssumption DEF SavingInv
<1> DEFINE r == save.of
           v == mem[save.of]
           do == Script(save.of)[save.at]
<1>1. /\ r # Nothing /\ save.at \in 1..Len(Script(r)) /\ Execute(r, do)
      /\ save' = [save EXCEPT !.at = @ + 1]
      /\ UNCHANGED <<mem, lock, asked, told, done, torn>>
  BY DEF Statement, AtStatement, Statements
<1>2. r \in Records /\ v \in Int
  <2>1. r \in Records /\ mem[r] # Nothing
    BY <1>1 DEF TypesKept, SaveState, Stages
  <2> QED BY <2>1 DEF TypesKept
<1>3. save.at \in {1, 2, 3}
  <2>1. Len(Script(r)) = 3
    BY <1>2, Scripts
  <2>2. save.at \in 1..3
    BY <1>1, <2>1
  <2> QED BY <2>2
<1>4. save' = [of |-> r, at |-> save.at + 1, tries |-> save.tries, leaves |-> save.leaves]
  BY <1>1 DEF TypesKept, SaveState
<1>5. save' \in SaveState /\ save'.of = r /\ save'.at = save.at + 1 /\ save'.at \in {2, 3, 4}
  BY <1>3, <1>4 DEF TypesKept, SaveState
<1>6. lock = "game" /\ (work = Nothing => r \in torn.lost)
  BY <1>1, <1>3 DEF Stages, AtBegin
<1>7. CASE work # Nothing
  <2> DEFINE t == Applied(work.rows[r], v, do)
  <2>1. work \in Databases /\ work.rows[r] \in [Tables -> Seq(Int)] /\ work.rows[r]["row"] # << >>
    BY <1>2, <1>7 DEF TypesKept, Databases, RowsKept
  <2>2. t \in [Tables -> Seq(Int)] /\ t["row"] # << >>
    BY <1>2, <1>3, <2>1, StatementTables
  <2>3. work' = [work EXCEPT !.rows[r] = t] /\ store' = store
    BY <1>1, <1>7 DEF Execute
  <2>4. /\ work' \in Databases /\ work'.log = work.log /\ work'.rows[r] = t
        /\ \A s \in Records \ {r} : work'.rows[s] = work.rows[s]
    <3> HIDE DEF t, r
    <3> QED BY <1>2, <2>1, <2>2, <2>3 DEF Databases
  <2>5. TypesKept'
    BY <1>1, <1>5, <2>3, <2>4 DEF TypesKept
  <2>6. RowsKept'
    <3> HIDE DEF t
    <3> QED BY <1>2, <1>7, <2>2, <2>3, <2>4 DEF RowsKept
  <2>7. Stages'
    BY <1>1, <1>5, <1>6, <2>4 DEF Stages, AtBegin, AtLock
  <2>8. Rest'
    <3> HIDE DEF t
    <3> QED BY <1>5, <1>7, <2>3, <2>4 DEF Rest
  <2>9. Progress'
    <3> SUFFICES ASSUME r \notin torn.lost \union torn.skipped
                 PROVE  Progress'
      BY <1>1, <1>5 DEF Progress
    <3>1. /\ save.at = 1 => Reached(told[r], <<told[r]>>)
          /\ save.at = 2 => Reached(IF r \in Characters THEN v ELSE told[r],
                                    IF r \in Characters THEN <<told[r]>> ELSE << >>)
          /\ save.at = 3 => Reached(v, << >>)
      BY <1>7 DEF Progress
    <3>2. Append(<< >>, v) = <<v>>
      BY <1>2
    <3>3. /\ Updates(do) => t["row"] = <<v>> /\ t["rest"] = work.rows[r]["rest"]
          /\ Deletes(do) => t["row"] = work.rows[r]["row"] /\ t["rest"] = << >>
          /\ Inserts(do) => /\ t["row"] = work.rows[r]["row"]
                            /\ t["rest"] = Append(work.rows[r]["rest"], v)
      <4> DEFINE before == work.rows[r]
      <4>1. before \in [Tables -> Seq(Int)] /\ v \in Int
        BY <1>2, <2>1
      <4> HIDE DEF before, v, do
      <4>2. ASSUME Updates(do) PROVE Applied(before, v, do)["row"] = <<v>>
                                     /\ Applied(before, v, do)["rest"] = before["rest"]
        BY <4>1, <4>2, UpdateApplied
      <4>3. ASSUME Deletes(do) PROVE Applied(before, v, do)["row"] = before["row"]
                                     /\ Applied(before, v, do)["rest"] = << >>
        BY <4>1, <4>3, DeleteApplied
      <4>4. ASSUME Inserts(do) PROVE Applied(before, v, do)["row"] = before["row"]
                                     /\ Applied(before, v, do)["rest"] = Append(before["rest"], v)
        BY <4>1, <4>4, InsertApplied
      <4> QED BY <4>2, <4>3, <4>4 DEF before
    <3>4. CASE save.at = 1
      <4>1. IF r \in Characters THEN Updates(do) ELSE Deletes(do)
        BY <1>2, <3>4, Scripts
      <4> QED BY <1>1, <1>5, <2>4, <3>1, <3>3, <3>4, <4>1 DEF Progress, Reached
    <3>5. CASE save.at = 2
      <4>1. IF r \in Characters THEN Deletes(do) ELSE Updates(do)
        BY <1>2, <3>5, Scripts
      <4> QED BY <1>1, <1>5, <2>4, <3>1, <3>3, <3>5, <4>1 DEF Progress, Reached
    <3>6. CASE save.at = 3
      <4>1. Inserts(do)
        BY <1>2, <3>6, Scripts
      <4>2. work.rows[r]["row"] = <<v>> /\ work.rows[r]["rest"] = << >>
        BY <3>1, <3>6 DEF Reached
      <4>3. t["row"] = <<v>> /\ t["rest"] = <<v>>
        <5> HIDE DEF t, v
        <5> QED BY <3>2, <3>3, <4>1, <4>2
      <4> HIDE DEF t
      <4> QED BY <1>1, <1>5, <2>4, <3>6, <4>3 DEF Progress, Reached
    <3> QED BY <1>3, <3>4, <3>5, <3>6
  <2> QED BY <1>1, <2>3, <2>5, <2>6, <2>7, <2>8, <2>9 DEF SavedWhole, IsWhole
<1>8. CASE work = Nothing
  <2> DEFINE t == Applied(store.rows[r], v, do)
  <2>1. store \in Databases /\ store.rows[r] \in [Tables -> Seq(Int)] /\ store.rows[r]["row"] # << >>
    BY <1>2 DEF TypesKept, Databases, RowsKept
  <2>2. t \in [Tables -> Seq(Int)] /\ t["row"] # << >>
    BY <1>2, <1>3, <2>1, StatementTables
  <2>3. store' = [store EXCEPT !.rows[r] = t] /\ work' = work
    BY <1>1, <1>8 DEF Execute
  <2>4. /\ store' \in Databases /\ store'.log = store.log /\ store'.rows[r] = t
        /\ \A s \in Records \ {r} : store'.rows[s] = store.rows[s]
    <3> HIDE DEF t, r
    <3> QED BY <1>2, <2>1, <2>2, <2>3 DEF Databases
  <2>5. TypesKept'
    BY <1>1, <1>5, <2>3, <2>4 DEF TypesKept
  <2>6. RowsKept'
    <3> HIDE DEF t
    <3> QED BY <1>2, <1>8, <2>2, <2>3, <2>4 DEF RowsKept
  <2>7. Stages'
    BY <1>1, <1>5, <1>6, <1>8, <2>3 DEF Stages, AtBegin, AtLock
  <2>8. Rest' /\ Progress'
    BY <1>8, <2>3 DEF Rest, Progress
  <2>9. SavedWhole'
    BY <1>1, <1>6, <1>8, <2>4 DEF SavedWhole
  <2> QED BY <1>1, <2>4, <2>5, <2>6, <2>7, <2>8, <2>9
<1> QED BY <1>7, <1>8

\* A statement that fails: a rollback, or a record that does not count any more.
LEMMA StatementFailsKeeps ==
  ASSUME SavingInv, StatementFails
  PROVE  SavingInv'
<1> USE SavingAssumption DEF SavingInv
<1>1. /\ save.of # Nothing /\ save.at \in 1..Len(Script(save.of))
      /\ UNCHANGED <<store, asked, told, done>>
  BY DEF StatementFails, AtStatement, Statements
<1>2. CASE Script(save.of)[save.at].checked
  BY <1>1, <1>2, FailureKeeps DEF StatementFails
<1>3. CASE ~Script(save.of)[save.at].checked
  <2>1. /\ save' = [save EXCEPT !.at = @ + 1]
        /\ torn' = [torn EXCEPT !.skipped = @ \union {save.of}]
        /\ UNCHANGED <<mem, work, lock>>
    BY <1>3 DEF StatementFails
  <2>2. save.of \in Records /\ save \in SaveState
    BY <1>1 DEF TypesKept, SaveState
  <2>3. save.at \in {1, 2, 3}
    <3>1. Len(Script(save.of)) = 3
      BY <2>2, Scripts
    <3>2. save.at \in 1..3
      BY <1>1, <3>1
    <3> QED BY <3>2
  <2>4. save' = [of |-> save.of, at |-> save.at + 1, tries |-> save.tries, leaves |-> save.leaves]
    BY <2>1, <2>2 DEF SaveState
  <2>5. save' \in SaveState /\ save'.of = save.of /\ save'.at \in {2, 3, 4}
    BY <2>2, <2>3, <2>4 DEF SaveState
  <2>6. /\ torn'.lost = torn.lost /\ torn'.skipped = torn.skipped \union {save.of}
        /\ torn' \in [lost : SUBSET Records, skipped : SUBSET Records, times : Int]
    BY <2>1, <2>2 DEF TypesKept
  <2>7. TypesKept' /\ RowsKept'
    BY <1>1, <2>1, <2>5, <2>6 DEF TypesKept, RowsKept
  <2>8. Stages'
    BY <1>1, <2>1, <2>3, <2>5, <2>6 DEF Stages, AtBegin, AtLock
  <2>9. Rest' /\ Progress' /\ SavedWhole'
    BY <1>1, <2>1, <2>5, <2>6 DEF Rest, Progress, SavedWhole, IsWhole
  <2> QED BY <1>1, <2>7, <2>8, <2>9
<1> QED BY <1>2, <1>3

-----------------------------------------------------------------------------
(* The theorems *)

\* The invariant holds of every state.
THEOREM SavingInvHolds == SavingSpec => []SavingInv
<1>1. ASSUME SavingInv, [SavingNext]_savingVars
      PROVE  SavingInv'
  <2>1. CASE SavingNext
    BY <1>1, <2>1, LoadPlayerKeeps, PlayKeeps, StartSaveKeeps, BeginKeeps, TakeLockKeeps,
       StatementKeeps, StatementFailsKeeps, CommitKeeps, CommitFailsKeeps, AskKeeps,
       RunQueryKeeps, LoseConnectionKeeps, CrashKeeps
    DEF SavingNext
  <2>2. CASE UNCHANGED savingVars
    BY <1>1, <2>2 DEF savingVars, SavingInv, TypesKept, RowsKept, Stages, Rest, Progress, Reached,
       SavedWhole, IsWhole
  <2> QED BY <1>1, <2>1, <2>2
<1> QED BY <1>1, SavingInitially, PTL DEF SavingSpec

\* Whatever fails and whenever the server crashes, the database holds of each
\* record the state of the last save that succeeded, as a whole.
THEOREM SavedWholeHolds == SavingSpec => []SavedWhole
<1>1. SavingInv => SavedWhole
  BY DEF SavingInv
<1> QED BY <1>1, SavingInvHolds, PTL

\* An executed query stays executed, and the lock comes free when a save ends.
THEOREM QueriesKeptHolds == SavingSpec => []QueriesKept
<1>1. SavingInv => QueriesKept
  BY DEF SavingInv, QueriesKept, Stages, NoSave
<1> QED BY <1>1, SavingInvHolds, PTL

-----------------------------------------------------------------------------
(* The map's lists of creatures *)

\* The capacities: 2, doubled as often as it takes.
Powers == {n \in Nat : \A T \in SUBSET Nat : (2 \in T /\ \A m \in T : 2 * m \in T) => n \in T}

\* They are 2 or twice another.
LEMMA PowersHalve ==
  /\ 2 \in Powers
  /\ \A n \in Powers : n \in Nat /\ n >= 2 /\ 2 * n \in Powers
  /\ \A n \in Powers : n = 2 \/ \E m \in Powers : n = 2 * m
<1>1. 2 \in Powers
  BY DEF Powers
<1>2. \A n \in Powers : n \in Nat /\ 2 * n \in Powers
  <2> SUFFICES ASSUME NEW n \in Powers PROVE n \in Nat /\ 2 * n \in Powers
    OBVIOUS
  <2>1. n \in Nat /\ 2 * n \in Nat
    BY DEF Powers
  <2>2. ASSUME NEW T \in SUBSET Nat, 2 \in T, \A m \in T : 2 * m \in T
        PROVE  2 * n \in T
    <3>1. n \in T
      BY <2>2 DEF Powers
    <3> QED BY <2>2, <3>1
  <2> QED BY <2>1, <2>2 DEF Powers
<1>3. \A n \in Powers : n >= 2
  <2> SUFFICES ASSUME NEW n \in Powers PROVE n >= 2
    OBVIOUS
  <2> DEFINE T == {m \in Nat : m >= 2}
  <2>1. T \in SUBSET Nat /\ 2 \in T /\ \A m \in T : 2 * m \in T
    OBVIOUS
  <2>2. n \in T
    BY <2>1 DEF Powers
  <2> QED BY <2>2
<1>4. \A n \in Powers : n = 2 \/ \E m \in Powers : n = 2 * m
  <2> SUFFICES ASSUME NEW n \in Powers PROVE n = 2 \/ \E m \in Powers : n = 2 * m
    OBVIOUS
  <2> DEFINE T == {k \in Powers : k = 2 \/ \E m \in Powers : k = 2 * m}
  <2>1. T \in SUBSET Nat /\ 2 \in T /\ \A m \in T : 2 * m \in T
    BY <1>1, <1>2
  <2>2. n \in T
    <3> HIDE DEF T
    <3> QED BY <2>1 DEF Powers
  <2> QED BY <2>2
<1> QED BY <1>1, <1>2, <1>3, <1>4

\* What a slot holds.
Seats == [creature : Everyone \union {Off}, pos : Spots \union {Off}, player : BOOLEAN]

\* In the n slots f the creatures H stand where ids says, np players before the others.
Arranged(f, n, ids, ats, H, np) ==
  /\ f \in [0..(n - 1) -> Seats]
  /\ \A i \in 0..(n - 1) : f[i].creature # Off =>
       /\ f[i].creature \in H
       /\ ids[f[i].creature] = i
       /\ f[i].pos = ats[f[i].creature]
       /\ f[i].player <=> f[i].creature \in Watchers
  /\ \A c \in H : ids[c] \in 0..(n - 1) /\ f[ids[c]].creature = c
  /\ np \in 0..n
  /\ \A i \in 0..(n - 1) : f[i].creature \in Watchers <=> i < np

\* Every creature in the n slots f is one of H and remembers its slot.
Known(f, n, ids, H) ==
  \A i \in 0..(n - 1) : f[i].creature # Off => f[i].creature \in H /\ ids[f[i].creature] = i

\* With fewer creatures than slots a slot is free.
LEMMA Room ==
  ASSUME NEW n \in Nat, NEW f, NEW ids, NEW H, IsFiniteSet(H), Cardinality(H) < n,
         Known(f, n, ids, H)
  PROVE  \E i \in 0..(n - 1) : f[i].creature = Off
<1> USE DEF Known
<1> SUFFICES ASSUME \A i \in 0..(n - 1) : f[i].creature # Off PROVE FALSE
  OBVIOUS
<1> DEFINE S == 0..(n - 1)
           g == [i \in S |-> f[i].creature]
<1>1. g \in Injection(S, H)
  <2>1. g \in [S -> H]
    OBVIOUS
  <2>2. \A i, j \in S : g[i] = g[j] => i = j
    OBVIOUS
  <2> HIDE DEF g, S
  <2>3. DOMAIN g = S
    BY <2>1
  <2> QED BY <2>1, <2>2, <2>3, Zenon DEF Injection, IsInjective
<1>2. 0 \in Int /\ n - 1 \in Int
  OBVIOUS
<1>3. Cardinality(S) = IF 0 > n - 1 THEN 0 ELSE n - 1 - 0 + 1
  BY <1>2, FS_Interval
<1>4. Cardinality(S) <= Cardinality(H)
  <2> HIDE DEF g, S
  <2> QED BY <1>1, FS_Injection
<1>5. Cardinality(H) \in Nat
  BY FS_CardinalityType
<1> HIDE DEF S
<1> QED BY <1>3, <1>4, <1>5

\* There are no more players than creatures.
LEMMA FewPlayers ==
  ASSUME NEW n \in Nat, NEW f, NEW ids, NEW ats, NEW H, IsFiniteSet(H), NEW np,
         Off \notin Everyone, Arranged(f, n, ids, ats, H, np)
  PROVE  np \in Nat /\ np <= Cardinality(H)
<1> DEFINE S == 0..(np - 1)
           g == [i \in S |-> f[i].creature]
<1>0. np \in 0..n /\ \A i \in S : i \in 0..(n - 1) /\ f[i].creature \in Watchers
  BY DEF Arranged
<1>1. g \in Injection(S, H)
  <2>1. g \in [S -> H]
    BY <1>0 DEF Arranged, Everyone
  <2>2. \A i, j \in S : g[i] = g[j] => i = j
    BY <1>0 DEF Arranged, Everyone
  <2> HIDE DEF g, S
  <2>3. DOMAIN g = S
    BY <2>1
  <2> QED BY <2>1, <2>2, <2>3, Zenon DEF Injection, IsInjective
<1>2. 0 \in Int /\ np - 1 \in Int
  BY <1>0
<1>3. Cardinality(S) = IF 0 > np - 1 THEN 0 ELSE np - 1 - 0 + 1
  BY <1>2, FS_Interval
<1>4. Cardinality(S) <= Cardinality(H)
  <2> HIDE DEF g, S
  <2> QED BY <1>1, FS_Injection
<1>5. Cardinality(H) \in Nat
  BY FS_CardinalityType
<1> HIDE DEF S
<1> QED BY <1>0, <1>3, <1>4, <1>5

\* Only the slots and spots of the creatures in the array count.
LEMMA ArrangedFrame ==
  ASSUME NEW n, NEW f, NEW ids, NEW ats, NEW ids2, NEW ats2, NEW H, NEW np,
         \A c \in H : ids2[c] = ids[c] /\ ats2[c] = ats[c],
         Arranged(f, n, ids, ats, H, np)
  PROVE  Arranged(f, n, ids2, ats2, H, np)
BY DEF Arranged

\* A creature that is no player takes the free slot i of f, which makes it h.
BeastPut(f, h, n, ids, ids2, ats, c, i) ==
  /\ c \notin Watchers /\ i \in 0..(n - 1) /\ f[i].creature = Off
  /\ \A d \in Everyone : ids2[d] = IF d = c THEN i ELSE ids[d]
  /\ h \in [0..(n - 1) -> Seats]
  /\ \E s : /\ s.creature = c /\ s.pos = ats[c] /\ s.player = FALSE
            /\ \A j \in 0..(n - 1) : h[j] = IF j = i THEN s ELSE f[j]

\* That keeps the order of the slots (FastSpectatorHolder::_add).
LEMMA PutBeast ==
  ASSUME NEW n \in Nat, NEW f, NEW ids, NEW ids2, NEW ats, NEW H \in SUBSET Everyone, NEW np,
         Off \notin Everyone, Arranged(f, n, ids, ats, H, np),
         NEW c \in Everyone \ H, NEW h, NEW i, BeastPut(f, h, n, ids, ids2, ats, c, i)
  PROVE  Arranged(h, n, ids2, ats, H \union {c}, np)
<1>0. /\ c \notin Watchers /\ i \in 0..(n - 1) /\ f[i].creature = Off
      /\ \A d \in Everyone : ids2[d] = IF d = c THEN i ELSE ids[d]
      /\ h \in [0..(n - 1) -> Seats]
  BY DEF BeastPut
<1>10. PICK s : /\ s.creature = c /\ s.pos = ats[c] /\ s.player = FALSE
                /\ \A j \in 0..(n - 1) : h[j] = IF j = i THEN s ELSE f[j]
  BY DEF BeastPut
<1> USE <1>0, <1>10
<1>1. ~(i < np)
  BY DEF Arranged, Everyone
<1>2. ASSUME NEW j \in 0..(n - 1), h[j].creature # Off
      PROVE  /\ h[j].creature \in H \union {c}
             /\ ids2[h[j].creature] = j
             /\ h[j].pos = ats[h[j].creature]
             /\ h[j].player <=> h[j].creature \in Watchers
  <2>1. CASE j = i
    BY <2>1
  <2>2. CASE j # i
    <3>1. h[j] = f[j] /\ f[j].creature \in H /\ f[j].creature # c
      BY <1>2, <2>2 DEF Arranged
    <3> QED BY <1>2, <3>1 DEF Arranged
  <2> QED BY <2>1, <2>2
<1>3. ASSUME NEW d \in H \union {c}
      PROVE  ids2[d] \in 0..(n - 1) /\ h[ids2[d]].creature = d
  BY DEF Arranged
<1>4. ASSUME NEW j \in 0..(n - 1)
      PROVE  h[j].creature \in Watchers <=> j < np
  BY <1>1 DEF Arranged
<1> QED BY <1>2, <1>3, <1>4 DEF Arranged

\* A player takes the slot np, and whoever was there the free slot i.
PlayerPut(f, h, n, ids, ids2, ats, c, i, np) ==
  /\ c \in Watchers /\ i \in 0..(n - 1) /\ f[i].creature = Off
  /\ \A d \in Everyone : ids2[d] = IF d = c THEN np
                                   ELSE IF i # np /\ d = f[np].creature THEN i ELSE ids[d]
  /\ h \in [0..(n - 1) -> Seats]
  /\ \E s : /\ s.creature = c /\ s.pos = ats[c] /\ s.player = TRUE
            /\ \A j \in 0..(n - 1) : h[j] = IF j = np THEN s ELSE IF j = i THEN f[np] ELSE f[j]

\* So the players stay before the others (FastSpectatorHolder::_add).
LEMMA PutPlayer ==
  ASSUME NEW n \in Nat, NEW f, NEW ids, NEW ids2, NEW ats, NEW H \in SUBSET Everyone, NEW np,
         Off \notin Everyone, Arranged(f, n, ids, ats, H, np), np < n,
         NEW c \in Everyone \ H, NEW h, NEW i, PlayerPut(f, h, n, ids, ids2, ats, c, i, np)
  PROVE  Arranged(h, n, ids2, ats, H \union {c}, np + 1)
<1>10. /\ c \in Watchers /\ i \in 0..(n - 1) /\ f[i].creature = Off
       /\ \A d \in Everyone : ids2[d] = IF d = c THEN np
                                        ELSE IF i # np /\ d = f[np].creature THEN i ELSE ids[d]
       /\ h \in [0..(n - 1) -> Seats]
  BY DEF PlayerPut
<1>11. PICK s : /\ s.creature = c /\ s.pos = ats[c] /\ s.player = TRUE
                /\ \A j \in 0..(n - 1) : h[j] = IF j = np THEN s ELSE IF j = i THEN f[np] ELSE f[j]
  BY DEF PlayerPut
<1> USE <1>10, <1>11
<1>0. np \in 0..(n - 1) /\ np + 1 \in 0..n
  BY DEF Arranged
<1>1. ~(i < np)
  BY DEF Arranged, Everyone
<1>2. ASSUME NEW j \in 0..(n - 1), h[j].creature # Off
      PROVE  /\ h[j].creature \in H \union {c}
             /\ ids2[h[j].creature] = j
             /\ h[j].pos = ats[h[j].creature]
             /\ h[j].player <=> h[j].creature \in Watchers
  <2>1. CASE j = np
    BY <2>1
  <2>2. CASE j # np /\ j = i
    <3>1. h[j] = f[np] /\ f[np].creature \in H /\ f[np].creature # c
      BY <1>0, <1>2, <2>2 DEF Arranged
    <3> QED BY <1>0, <1>2, <2>2, <3>1 DEF Arranged
  <2>3. CASE j # np /\ j # i
    <3>1. h[j] = f[j] /\ f[j].creature \in H /\ f[j].creature # c /\ ids[f[j].creature] = j
      BY <1>2, <2>3 DEF Arranged
    <3>2. f[j].creature # f[np].creature
      BY <1>0, <2>3, <3>1 DEF Arranged
    <3> QED BY <1>2, <3>1, <3>2 DEF Arranged
  <2> QED BY <2>1, <2>2, <2>3
<1>3. ASSUME NEW d \in H \union {c}
      PROVE  ids2[d] \in 0..(n - 1) /\ h[ids2[d]].creature = d
  <2>1. CASE d = c
    BY <1>0, <2>1
  <2>2. CASE d # c /\ i # np /\ d = f[np].creature
    BY <2>2
  <2>3. CASE d # c /\ ~(i # np /\ d = f[np].creature)
    <3>1. d \in H /\ ids2[d] = ids[d] /\ ids[d] \in 0..(n - 1) /\ f[ids[d]].creature = d
      BY <2>3 DEF Arranged
    <3>2. ids[d] # np /\ ids[d] # i
      BY <2>3, <3>1
    <3> QED BY <3>1, <3>2
  <2> QED BY <2>1, <2>2, <2>3
<1>4. ASSUME NEW j \in 0..(n - 1)
      PROVE  h[j].creature \in Watchers <=> j < np + 1
  <2>1. CASE j = np
    BY <1>0, <2>1
  <2>2. CASE j # np /\ j = i
    BY <1>0, <1>1, <2>2 DEF Arranged
  <2>3. CASE j # np /\ j # i
    BY <1>0, <2>3 DEF Arranged
  <2> QED BY <2>1, <2>2, <2>3
<1> QED BY <1>0, <1>2, <1>3, <1>4 DEF Arranged

\* A creature that is no player leaves its slot.
BeastTaken(f, h, n, ids, c) ==
  /\ c \notin Watchers
  /\ h \in [0..(n - 1) -> Seats]
  /\ \A j \in 0..(n - 1) : /\ j = ids[c] => h[j].creature = Off
                           /\ j # ids[c] => h[j] = f[j]

\* That disturbs nobody (FastSpectatorHolder::remove).
LEMMA TakeBeast ==
  ASSUME NEW n \in Nat, NEW f, NEW ids, NEW ats, NEW H \in SUBSET Everyone, NEW np,
         Off \notin Everyone, Arranged(f, n, ids, ats, H, np),
         NEW c \in H, NEW h, BeastTaken(f, h, n, ids, c)
  PROVE  Arranged(h, n, ids, ats, H \ {c}, np)
<1> USE DEF BeastTaken
<1>1. ids[c] \in 0..(n - 1) /\ f[ids[c]].creature = c /\ Off \notin Watchers
  BY DEF Arranged, Everyone
<1>2. ASSUME NEW j \in 0..(n - 1), h[j].creature # Off
      PROVE  /\ h[j].creature \in H \ {c}
             /\ ids[h[j].creature] = j
             /\ h[j].pos = ats[h[j].creature]
             /\ h[j].player <=> h[j].creature \in Watchers
  <2>1. j # ids[c] /\ h[j] = f[j] /\ ids[f[j].creature] = j
    BY <1>2 DEF Arranged
  <2> QED BY <1>2, <2>1 DEF Arranged
<1>3. ASSUME NEW d \in H \ {c}
      PROVE  ids[d] \in 0..(n - 1) /\ h[ids[d]].creature = d
  <2>1. ids[d] \in 0..(n - 1) /\ f[ids[d]].creature = d
    BY DEF Arranged
  <2> QED BY <1>1, <2>1
<1>4. ASSUME NEW j \in 0..(n - 1)
      PROVE  h[j].creature \in Watchers <=> j < np
  <2>1. f[j].creature \in Watchers <=> j < np
    BY DEF Arranged
  <2> QED BY <1>1, <2>1
<1>5. np \in 0..n
  BY DEF Arranged
<1> QED BY <1>2, <1>3, <1>4, <1>5 DEF Arranged

\* A player leaves slot i, and the player in the slot last takes it.
PlayerTaken(f, h, n, ids, ids2, c, i, last) ==
  /\ c \in Watchers /\ i = ids[c]
  /\ \A d \in Everyone \ {c} : ids2[d] = IF last # i /\ d = f[last].creature THEN i ELSE ids[d]
  /\ h \in [0..(n - 1) -> Seats]
  /\ \A j \in 0..(n - 1) : /\ j = last => h[j].creature = Off
                           /\ j # last => h[j] = IF j = i THEN f[last] ELSE f[j]

\* If that is the last player, nobody else is disturbed (FastSpectatorHolder::remove).
LEMMA TakePlayer ==
  ASSUME NEW n \in Nat, NEW f, NEW ids, NEW ids2, NEW ats, NEW H \in SUBSET Everyone, NEW np,
         Off \notin Everyone, Arranged(f, n, ids, ats, H, np),
         NEW c \in H, NEW h, NEW i, NEW last, PlayerTaken(f, h, n, ids, ids2, c, i, last),
         last = np - 1
  PROVE  Arranged(h, n, ids2, ats, H \ {c}, np - 1)
<1> USE DEF PlayerTaken
<1>1. i \in 0..(n - 1) /\ f[i].creature = c /\ Off \notin Watchers
  BY DEF Arranged, Everyone
<1>2. i < np /\ np \in 1..n /\ last \in 0..(n - 1) /\ i <= last
  BY <1>1 DEF Arranged
<1>3. ASSUME NEW j \in 0..(n - 1), h[j].creature # Off
      PROVE  /\ h[j].creature \in H \ {c}
             /\ ids2[h[j].creature] = j
             /\ h[j].pos = ats[h[j].creature]
             /\ h[j].player <=> h[j].creature \in Watchers
  <2>0. j # last
    BY <1>3
  <2>1. CASE j = i
    <3>1. h[j] = f[last] /\ f[last].creature \in H /\ ids[f[last].creature] = last
      BY <1>2, <1>3, <2>0, <2>1 DEF Arranged
    <3>2. f[last].creature # c
      BY <2>0, <2>1, <3>1
    <3> QED BY <1>2, <1>3, <2>0, <2>1, <3>1, <3>2 DEF Arranged
  <2>2. CASE j # i
    <3>1. h[j] = f[j] /\ f[j].creature \in H /\ ids[f[j].creature] = j
      BY <1>3, <2>0, <2>2 DEF Arranged
    <3>2. f[j].creature # c /\ (f[j].creature = f[last].creature => f[last].creature # Off)
      BY <1>3, <2>2, <3>1
    <3>3. f[j].creature # f[last].creature
      BY <1>2, <2>0, <3>1, <3>2 DEF Arranged
    <3> QED BY <1>3, <3>1, <3>2, <3>3 DEF Arranged
  <2> QED BY <2>1, <2>2
<1>4. ASSUME NEW d \in H \ {c}
      PROVE  ids2[d] \in 0..(n - 1) /\ h[ids2[d]].creature = d
  <2>1. ids[d] \in 0..(n - 1) /\ f[ids[d]].creature = d
    BY DEF Arranged
  <2>2. CASE last # i /\ d = f[last].creature
    BY <1>1, <2>2
  <2>3. CASE ~(last # i /\ d = f[last].creature)
    <3>1. ids2[d] = ids[d] /\ ids[d] # i
      BY <1>1, <2>1, <2>3
    <3>2. ids[d] # last
      BY <2>1, <2>3, <3>1
    <3> QED BY <2>1, <3>1, <3>2
  <2> QED BY <2>2, <2>3
<1>5. ASSUME NEW j \in 0..(n - 1)
      PROVE  h[j].creature \in Watchers <=> j < np - 1
  <2>1. CASE j = last
    BY <1>1, <1>2, <2>1
  <2>2. CASE j # last /\ j = i
    BY <1>2, <2>2 DEF Arranged
  <2>3. CASE j # last /\ j # i
    BY <1>2, <2>3 DEF Arranged
  <2> QED BY <2>1, <2>2, <2>3
<1>6. np - 1 \in 0..n
  BY <1>2
<1> QED BY <1>3, <1>4, <1>5, <1>6 DEF Arranged

\* Whoever is in slot i is elsewhere.
Stepped(f, h, n, i, p) ==
  /\ h \in [0..(n - 1) -> Seats]
  /\ \A j \in 0..(n - 1) : /\ h[j].creature = f[j].creature /\ (h[j].player <=> f[j].player)
                           /\ h[j].pos = IF j = i THEN p ELSE f[j].pos

\* A creature steps within its part of the map (FastSpectatorHolder::move).
LEMMA StepWithin ==
  ASSUME NEW n \in Nat, NEW f, NEW ids, NEW ats, NEW ats2, NEW H \in SUBSET Everyone, NEW np,
         Off \notin Everyone, Arranged(f, n, ids, ats, H, np), NEW c \in H,
         \A d \in H : d # c => ats2[d] = ats[d],
         NEW h, Stepped(f, h, n, ids[c], ats2[c])
  PROVE  Arranged(h, n, ids, ats2, H, np)
<1> USE DEF Stepped
<1>1. ids[c] \in 0..(n - 1) /\ f[ids[c]].creature = c
  BY DEF Arranged
<1>2. ASSUME NEW j \in 0..(n - 1), h[j].creature # Off
      PROVE  /\ h[j].creature \in H
             /\ ids[h[j].creature] = j
             /\ h[j].pos = ats2[h[j].creature]
             /\ h[j].player <=> h[j].creature \in Watchers
  <2>1. /\ f[j].creature \in H /\ ids[f[j].creature] = j /\ f[j].pos = ats[f[j].creature]
        /\ f[j].player <=> f[j].creature \in Watchers
    BY <1>2 DEF Arranged
  <2> QED BY <1>1, <2>1
<1>3. /\ \A d \in H : ids[d] \in 0..(n - 1) /\ h[ids[d]].creature = d
      /\ np \in 0..n
      /\ \A j \in 0..(n - 1) : h[j].creature \in Watchers <=> j < np
  BY DEF Arranged
<1> QED BY <1>2, <1>3 DEF Arranged

\* The array doubles (FastSpectatorHolder::add).
LEMMA Grows ==
  ASSUME NEW n \in Nat, NEW f, NEW ids, NEW ats, NEW H \in SUBSET Everyone, NEW np,
         Off \notin Everyone, Arranged(f, n, ids, ats, H, np),
         NEW h, h \in [0..(2 * n - 1) -> Seats],
         \A j \in 0..(2 * n - 1) : h[j] = IF j < n THEN f[j] ELSE Free
  PROVE  Arranged(h, 2 * n, ids, ats, H, np)
<1>1. \A j \in 0..(n - 1) : j \in 0..(2 * n - 1) /\ h[j] = f[j]
  OBVIOUS
<1>2. \A j \in 0..(2 * n - 1) : j \in 0..(n - 1) \/ h[j].creature = Off
  BY DEF Free
<1>3. np \in 0..n /\ np \in 0..(2 * n) /\ Off \notin Watchers
  BY DEF Arranged, Everyone
<1>4. \A j \in 0..(2 * n - 1) : h[j].creature \in Watchers <=> j < np
  <2> TAKE j \in 0..(2 * n - 1)
  <2>1. CASE j < n
    BY <1>1, <2>1 DEF Arranged
  <2>2. CASE ~(j < n)
    BY <1>3, <2>2 DEF Free
  <2> QED BY <2>1, <2>2
<1>5. ASSUME NEW j \in 0..(2 * n - 1), h[j].creature # Off
      PROVE  /\ h[j].creature \in H
             /\ ids[h[j].creature] = j
             /\ h[j].pos = ats[h[j].creature]
             /\ h[j].player <=> h[j].creature \in Watchers
  <2>1. j \in 0..(n - 1) /\ h[j] = f[j]
    BY <1>1, <1>2, <1>5
  <2> QED BY <1>5, <2>1 DEF Arranged
<1>6. \A d \in H : ids[d] \in 0..(2 * n - 1) /\ h[ids[d]].creature = d
  BY <1>1 DEF Arranged
<1> QED BY <1>3, <1>4, <1>5, <1>6 DEF Arranged

\* A creature in slot i of f is one of H, and it is known there.
Settled(f, i, ids, ats, H) ==
  f[i].creature # Off =>
    /\ f[i].creature \in H
    /\ ids[f[i].creature] = i
    /\ f[i].pos = ats[f[i].creature]
    /\ f[i].player <=> f[i].creature \in Watchers

\* The array f0 of 2m slots is being halved: of its upper half the first k slots
\* are emptied into the new array f.
Halving(f0, f, m, k, ids, ats, H, np) ==
  /\ f \in [0..(m - 1) -> Seats]
  /\ \A i \in 0..(m - 1) : Settled(f, i, ids, ats, H)
  /\ \A i \in (m + k)..(2 * m - 1) : Settled(f0, i, ids, ats, H) /\ f0[i].creature \notin Watchers
  /\ \A c \in H : \/ ids[c] \in 0..(m - 1) /\ f[ids[c]].creature = c
                  \/ ids[c] \in (m + k)..(2 * m - 1) /\ f0[ids[c]].creature = c
  /\ np \in 0..m
  /\ \A i \in 0..(m - 1) : f[i].creature \in Watchers <=> i < np

\* At first the lower half is copied.
LEMMA HalfBegins ==
  ASSUME NEW m \in Nat, NEW f0, NEW f, NEW ids, NEW ats, NEW H \in SUBSET Everyone, NEW np,
         Off \notin Everyone, Arranged(f0, 2 * m, ids, ats, H, np), np <= m,
         f \in [0..(m - 1) -> Seats],
         \A i \in 0..(m - 1) : f[i] = IF f0[i].creature # Off THEN f0[i] ELSE Free
  PROVE  Halving(f0, f, m, 0, ids, ats, H, np)
<1>1. \A i \in 0..(m - 1) : i \in 0..(2 * m - 1) /\ f[i].creature = f0[i].creature
  BY DEF Free
<1>2. ASSUME NEW i \in 0..(2 * m - 1) PROVE Settled(f0, i, ids, ats, H)
  BY DEF Arranged, Settled
<1>3. ASSUME NEW i \in 0..(m - 1) PROVE Settled(f, i, ids, ats, H)
  <2>1. CASE f[i].creature = Off
    BY <2>1 DEF Settled
  <2>2. CASE f[i].creature # Off
    <3>1. f[i] = f0[i] /\ Settled(f0, i, ids, ats, H)
      BY <1>1, <1>2, <2>2
    <3> QED BY <3>1 DEF Settled
  <2> QED BY <2>1, <2>2
<1>4. ASSUME NEW i \in (m + 0)..(2 * m - 1)
      PROVE  Settled(f0, i, ids, ats, H) /\ f0[i].creature \notin Watchers
  <2>1. i \in 0..(2 * m - 1) /\ ~(i < np)
    BY DEF Arranged
  <2> QED BY <1>2, <2>1 DEF Arranged
<1>5. ASSUME NEW c \in H
      PROVE  \/ ids[c] \in 0..(m - 1) /\ f[ids[c]].creature = c
             \/ ids[c] \in (m + 0)..(2 * m - 1) /\ f0[ids[c]].creature = c
  <2>1. ids[c] \in 0..(2 * m - 1) /\ f0[ids[c]].creature = c
    BY DEF Arranged
  <2> QED BY <1>1, <2>1
<1>6. np \in 0..m /\ \A i \in 0..(m - 1) : f[i].creature \in Watchers <=> i < np
  BY <1>1 DEF Arranged
<1> QED BY <1>3, <1>4, <1>5, <1>6 DEF Halving

\* An empty slot of the upper half is passed over.
LEMMA HalfSkips ==
  ASSUME NEW m \in Nat, NEW f0, NEW f, NEW k \in 0..(m - 1), NEW ids, NEW ats,
         NEW H \in SUBSET Everyone, NEW np,
         Off \notin Everyone, Halving(f0, f, m, k, ids, ats, H, np), f0[m + k].creature = Off
  PROVE  Halving(f0, f, m, k + 1, ids, ats, H, np)
<1>1. \A i \in (m + (k + 1))..(2 * m - 1) : i \in (m + k)..(2 * m - 1)
  OBVIOUS
<1>2. ASSUME NEW c \in H, ids[c] \in (m + k)..(2 * m - 1) /\ f0[ids[c]].creature = c
      PROVE  ids[c] \in (m + (k + 1))..(2 * m - 1)
  <2>1. ids[c] # m + k
    BY <1>2
  <2> QED BY <1>2, <2>1
<1> QED BY <1>1, <1>2 DEF Halving

\* c and all its slot s held take the free slot j of f.
PulledTo(f, h, m, ids, ids2, s, c, j) ==
  /\ j \in 0..(m - 1) /\ f[j].creature = Off
  /\ \A d \in Everyone : ids2[d] = IF d = c THEN j ELSE ids[d]
  /\ h \in [0..(m - 1) -> Seats]
  /\ \A i \in 0..(m - 1) : h[i] = IF i = j THEN s ELSE f[i]

\* The creature of an occupied one takes a free slot of the new array.
LEMMA HalfPulls ==
  ASSUME NEW m \in Nat, NEW f0, NEW f, NEW k \in 0..(m - 1), NEW ids, NEW ids2, NEW ats,
         NEW H \in SUBSET Everyone, NEW np,
         Off \notin Everyone, Halving(f0, f, m, k, ids, ats, H, np),
         NEW c, c = f0[m + k].creature, c # Off, NEW h, NEW j,
         PulledTo(f, h, m, ids, ids2, f0[m + k], c, j)
  PROVE  Halving(f0, h, m, k + 1, ids2, ats, H, np)
<1> USE DEF PulledTo
<1>0. \A i \in (m + (k + 1))..(2 * m - 1) : i \in (m + k)..(2 * m - 1) /\ i # m + k
  OBVIOUS
<1>1. m + k \in (m + k)..(2 * m - 1)
  OBVIOUS
<1>2. /\ c \in H /\ c \in Everyone /\ ids[c] = m + k /\ c \notin Watchers
      /\ f0[m + k].pos = ats[c] /\ (f0[m + k].player <=> c \in Watchers)
  BY <1>1 DEF Halving, Settled
<1>3. ASSUME NEW i \in 0..(m - 1) PROVE Settled(h, i, ids2, ats, H)
  <2>1. CASE i = j
    BY <1>2, <2>1 DEF Settled
  <2>2. CASE i # j /\ f[i].creature # Off
    <3>1. h[i] = f[i] /\ Settled(f, i, ids, ats, H)
      BY <2>2 DEF Halving
    <3>2. f[i].creature # c /\ f[i].creature \in Everyone
      BY <1>2, <2>2, <3>1 DEF Settled
    <3> QED BY <3>1, <3>2 DEF Settled
  <2>3. CASE i # j /\ f[i].creature = Off
    BY <2>3 DEF Settled
  <2> QED BY <2>1, <2>2, <2>3
<1>4. ASSUME NEW i \in (m + (k + 1))..(2 * m - 1)
      PROVE  Settled(f0, i, ids2, ats, H) /\ f0[i].creature \notin Watchers
  <2>1. i # m + k /\ Settled(f0, i, ids, ats, H) /\ f0[i].creature \notin Watchers
    BY <1>0 DEF Halving
  <2>2. CASE f0[i].creature # Off
    <3>1. f0[i].creature # c /\ f0[i].creature \in Everyone
      BY <1>2, <2>1, <2>2 DEF Settled
    <3> QED BY <2>1, <3>1 DEF Settled
  <2>3. CASE f0[i].creature = Off
    BY <2>1, <2>3 DEF Settled
  <2> QED BY <2>2, <2>3
<1>5. ASSUME NEW d \in H
      PROVE  \/ ids2[d] \in 0..(m - 1) /\ h[ids2[d]].creature = d
             \/ ids2[d] \in (m + (k + 1))..(2 * m - 1) /\ f0[ids2[d]].creature = d
  <2>1. CASE d = c
    BY <1>2, <2>1
  <2>2. CASE d # c
    <3>1. ids2[d] = ids[d] /\ d # Off
      BY <2>2
    <3>2. CASE ids[d] \in 0..(m - 1) /\ f[ids[d]].creature = d
      <4>1. ids[d] # j
        BY <3>1, <3>2
      <4> QED BY <3>1, <3>2, <4>1
    <3>3. CASE ids[d] \in (m + k)..(2 * m - 1) /\ f0[ids[d]].creature = d
      <4>1. ids[d] # m + k
        BY <2>2, <3>3
      <4> QED BY <3>1, <3>3, <4>1
    <3> QED BY <3>2, <3>3 DEF Halving
  <2> QED BY <2>1, <2>2
<1>6. ASSUME NEW i \in 0..(m - 1)
      PROVE  h[i].creature \in Watchers <=> i < np
  <2>1. f[i].creature \in Watchers <=> i < np
    BY DEF Halving
  <2>2. Off \notin Watchers
    BY DEF Everyone
  <2> QED BY <1>2, <2>1, <2>2
<1>7. np \in 0..m
  BY DEF Halving
<1> QED BY <1>3, <1>4, <1>5, <1>6, <1>7 DEF Halving

\* In the end everybody is in the new array.
LEMMA HalfEnds ==
  ASSUME NEW m \in Nat, NEW f0, NEW f, NEW ids, NEW ats, NEW H \in SUBSET Everyone, NEW np,
         Halving(f0, f, m, m, ids, ats, H, np)
  PROVE  Arranged(f, m, ids, ats, H, np)
<1>1. \A i \in (m + m)..(2 * m - 1) : FALSE
  OBVIOUS
<1>2. \A c \in H : ids[c] \in 0..(m - 1) /\ f[ids[c]].creature = c
  BY <1>1 DEF Halving
<1> QED BY <1>2 DEF Halving, Settled, Arranged

Before(n) == IF n = 0 THEN Wrap - 1 ELSE n - 1

\* The holders of the leaves, and all that is kept.
Holders == [slot : UNION {[0..(n - 1) -> Seats] : n \in Powers}, capacity : Powers,
            index : Nat, count : Nat, playerIndex : Nat]
Maps == [holder : [Leaves -> Holders], id : [Everyone -> Nat], at : [Everyone -> Spots \union {Off}]]

\* A holder of the creatures H.
Good(a, ids, ats, H) ==
  /\ a.index < a.capacity
  /\ a.count = Cardinality(H)
  /\ \E np \in Nat : a.playerIndex = Before(np) /\ Arranged(a.slot, a.capacity, ids, ats, H, np)

\* From u to v leaf l alone has changed, and it now holds J instead of H.
Only(u, v, l, H, J) ==
  /\ v \in Maps
  /\ v.at = u.at
  /\ \A k \in Leaves \ {l} : v.holder[k] = u.holder[k]
  /\ \A d \in Everyone \ (H \union J) : v.id[d] = u.id[d]
  /\ Good(v.holder[l], v.id, v.at, J)

\* The index of the last player, from one more or one less.
LEMMA BeforeNext ==
  ASSUME NEW n \in Nat, n < Wrap
  PROVE  Before(n) \in Nat /\ (Before(n) + 1) % Wrap = n /\ Before(n + 1) = n /\ (n - 1) % Wrap = Before(n)
BY DEF Before, Wrap

\* A holder's fields.
LEMMA HolderIs ==
  ASSUME NEW a \in Holders
  PROVE  /\ a.capacity \in Powers /\ a.capacity \in Nat /\ a.capacity >= 2
         /\ a.index \in Nat /\ a.count \in Nat /\ a.playerIndex \in Nat
         /\ a = [slot |-> a.slot, capacity |-> a.capacity, index |-> a.index, count |-> a.count,
                 playerIndex |-> a.playerIndex]
BY PowersHalve DEF Holders

\* b is a holder with these fields; v is u but for the holder of leaf l and for the
\* slots remembered.
HolderOf(b, f, n, k, m, x) ==
  b = [slot |-> f, capacity |-> n, index |-> k, count |-> m, playerIndex |-> x]
MapWith(u, v, l, b, ids) == v = [holder |-> [u.holder EXCEPT ![l] = b], id |-> ids, at |-> u.at]

\* What FastSpectatorHolder::_add makes of the holder and of the slots remembered
\* when a creature comes that is no player.
LEMMA PutBeastIs ==
  ASSUME NEW u \in Maps, NEW l \in Leaves, NEW c \in Everyone, c \notin Watchers, NEW pos, NEW i,
         NEW a, a = u.holder[l],
         NEW s, s = [creature |-> c, pos |-> pos, player |-> FALSE]
  PROVE  \E b : /\ HolderOf(b, [a.slot EXCEPT ![i] = s], a.capacity, (i + 1) % a.capacity,
                            a.count + 1, a.playerIndex)
                /\ MapWith(u, PutAt(u, l, c, pos, i), l, b, [u.id EXCEPT ![c] = i])
<1>1. /\ u = [holder |-> u.holder, id |-> u.id, at |-> u.at] /\ DOMAIN u.holder = Leaves
      /\ DOMAIN u.id = Everyone /\ a \in Holders
  BY DEF Maps
<1>2. a = [slot |-> a.slot, capacity |-> a.capacity, index |-> a.index, count |-> a.count,
           playerIndex |-> a.playerIndex]
  BY <1>1, HolderIs
<1>3. PICK b : b = [a EXCEPT !.slot[i] = s, !.index = (i + 1) % a.capacity, !.count = @ + 1]
  OBVIOUS
<1>4. b = [slot |-> [a.slot EXCEPT ![i] = s], capacity |-> a.capacity,
           index |-> (i + 1) % a.capacity, count |-> a.count + 1, playerIndex |-> a.playerIndex]
  BY <1>2, <1>3
<1>5. s = [creature |-> c, pos |-> pos, player |-> c \in Watchers]
  <2>1. (c \in Watchers) = FALSE
    OBVIOUS
  <2> QED BY <2>1, Zenon
<1>6. PICK v : v = PutAt(u, l, c, pos, i)
  OBVIOUS
<1>7. v = [u EXCEPT !.holder[l] = b, !.id[c] = i]
  BY <1>3, <1>5, <1>6 DEF PutAt
<1>8. v = [holder |-> [u.holder EXCEPT ![l] = b], id |-> [u.id EXCEPT ![c] = i], at |-> u.at]
  BY <1>1, <1>7
<1>9. MapWith(u, v, l, b, [u.id EXCEPT ![c] = i])
  BY <1>8, Zenon DEF MapWith
<1>10. HolderOf(b, [a.slot EXCEPT ![i] = s], a.capacity, (i + 1) % a.capacity, a.count + 1,
                a.playerIndex)
  BY <1>4, Zenon DEF HolderOf
<1> QED BY <1>6, <1>9, <1>10, Zenon

\* The slots f after s came into slot i and was swapped to slot last, and the slots
\* remembered then.
SwapMakes(f, h, i, last, s) ==
  h = [j \in DOMAIN f |-> IF j = last THEN s ELSE IF j = i THEN f[last] ELSE f[j]]
ToldIs(f, ids, ids2, c, i, last) ==
  ids2 = [d \in Everyone |-> IF d = c THEN last
                             ELSE IF i # last /\ d = f[last].creature THEN i ELSE ids[d]]

\* And when a player comes.
LEMMA PutPlayerIs ==
  ASSUME NEW u \in Maps, NEW l \in Leaves, NEW c \in Everyone, c \in Watchers, NEW pos, NEW i,
         NEW a, a = u.holder[l], NEW last, last = (a.playerIndex + 1) % Wrap,
         NEW f, f = a.slot, i \in DOMAIN f, last \in DOMAIN f,
         NEW s, s = [creature |-> c, pos |-> pos, player |-> TRUE]
  PROVE  \E b, h, ids :
            /\ HolderOf(b, h, a.capacity, (i + 1) % a.capacity, a.count + 1, last)
            /\ SwapMakes(f, h, i, last, s)
            /\ ToldIs(f, u.id, ids, c, i, last)
            /\ MapWith(u, PutAt(u, l, c, pos, i), l, b, ids)
<1>1. /\ u = [holder |-> u.holder, id |-> u.id, at |-> u.at] /\ DOMAIN u.holder = Leaves
      /\ DOMAIN u.id = Everyone /\ a \in Holders
  BY DEF Maps
<1>2. a = [slot |-> a.slot, capacity |-> a.capacity, index |-> a.index, count |-> a.count,
           playerIndex |-> a.playerIndex]
  BY <1>1, HolderIs
<1>3. PICK put : put = [a EXCEPT !.slot[i] = s, !.index = (i + 1) % a.capacity, !.count = @ + 1]
  OBVIOUS
<1>4. put = [slot |-> [f EXCEPT ![i] = s], capacity |-> a.capacity,
             index |-> (i + 1) % a.capacity, count |-> a.count + 1, playerIndex |-> a.playerIndex]
  <2>1. PICK j, k, h : j = (i + 1) % a.capacity /\ k = a.count + 1 /\ h = [f EXCEPT ![i] = s]
    OBVIOUS
  <2>2. put = [a EXCEPT !.slot = h, !.index = j, !.count = k]
    BY <1>3, <2>1, Zenon
  <2>3. put = [slot |-> h, capacity |-> a.capacity, index |-> j, count |-> k,
               playerIndex |-> a.playerIndex]
    BY <1>2, <2>2
  <2> QED BY <2>1, <2>3, Zenon
<1>5. PICK b : b = [put EXCEPT !.playerIndex = last,
                               !.slot[i] = put.slot[last], !.slot[last] = put.slot[i]]
  OBVIOUS
<1>6. PICK h : h = [[f EXCEPT ![i] = s] EXCEPT ![i] = [f EXCEPT ![i] = s][last],
                                               ![last] = [f EXCEPT ![i] = s][i]]
  OBVIOUS
<1>7. b = [slot |-> h, capacity |-> a.capacity, index |-> (i + 1) % a.capacity,
           count |-> a.count + 1, playerIndex |-> last]
  BY <1>4, <1>5, <1>6
<1>8. DOMAIN h = DOMAIN f
  BY <1>6
<1>9. \A j \in DOMAIN f : h[j] = IF j = last THEN s ELSE IF j = i THEN f[last] ELSE f[j]
  BY <1>6
<1>10. h = [j \in DOMAIN f |-> IF j = last THEN s ELSE IF j = i THEN f[last] ELSE f[j]]
  <2>1. h = [j \in DOMAIN h |-> h[j]]
    BY <1>6
  <2> QED BY <1>8, <1>9, <2>1
<1>11. PICK ids : ids = Told(u.id, put, c, i, last)
  OBVIOUS
<1>12. ids = [d \in Everyone |-> IF d = c THEN last
                                 ELSE IF i # last /\ d = f[last].creature THEN i ELSE u.id[d]]
  <2>1. put.slot[last].creature = IF i = last THEN c ELSE f[last].creature
    BY <1>4
  <2> QED BY <1>11, <2>1 DEF Told
<1>13. s = [creature |-> c, pos |-> pos, player |-> c \in Watchers]
  OBVIOUS
<1>14. PICK v : v = PutAt(u, l, c, pos, i)
  OBVIOUS
<1>15. v = [u EXCEPT !.holder[l] = b, !.id = ids]
  BY <1>3, <1>5, <1>11, <1>13, <1>14 DEF PutAt
<1>16. v = [holder |-> [u.holder EXCEPT ![l] = b], id |-> ids, at |-> u.at]
  BY <1>1, <1>15
<1>17. MapWith(u, v, l, b, ids)
  BY <1>16, Zenon DEF MapWith
<1>18. HolderOf(b, h, a.capacity, (i + 1) % a.capacity, a.count + 1, last)
  BY <1>7, Zenon DEF HolderOf
<1>19. SwapMakes(f, h, i, last, s) /\ ToldIs(f, u.id, ids, c, i, last)
  BY <1>10, <1>12, Zenon DEF SwapMakes, ToldIs
<1> QED BY <1>14, <1>17, <1>18, <1>19, Zenon

\* A new holder of leaf l, new slots remembered, and nothing else.
LEMMA OnlyLeaf ==
  ASSUME NEW u \in Maps, NEW l \in Leaves, NEW H, NEW J, NEW n \in Powers,
         NEW h, NEW k \in Nat, k < n, NEW m \in Nat, m = Cardinality(J),
         NEW np \in Nat, NEW x \in Nat, x = Before(np),
         NEW b, HolderOf(b, h, n, k, m, x),
         NEW ids \in [Everyone -> Nat], \A d \in Everyone \ (H \union J) : ids[d] = u.id[d],
         Arranged(h, n, ids, u.at, J, np),
         NEW v, MapWith(u, v, l, b, ids)
  PROVE  Only(u, v, l, H, J)
<1>0. /\ b = [slot |-> h, capacity |-> n, index |-> k, count |-> m, playerIndex |-> x]
      /\ v = [holder |-> [u.holder EXCEPT ![l] = b], id |-> ids, at |-> u.at]
  BY Zenon DEF HolderOf, MapWith
<1>1. u.holder \in [Leaves -> Holders] /\ u.at \in [Everyone -> Spots \union {Off}]
  BY DEF Maps
<1>2. h \in [0..(n - 1) -> Seats]
  BY DEF Arranged
<1>3. b \in Holders
  BY <1>0, <1>2 DEF Holders
<1>4. v \in Maps
  BY <1>0, <1>1, <1>3 DEF Maps
<1>5. /\ v.at = u.at /\ v.id = ids /\ v.holder[l] = b
      /\ \A d \in Leaves \ {l} : v.holder[d] = u.holder[d]
  BY <1>0, <1>1
<1>6. Good(b, ids, u.at, J)
  BY <1>0 DEF Good
<1> QED BY <1>4, <1>5, <1>6 DEF Only

\* FastSpectatorHolder::_add, when there is room and slot i is free.
LEMMA PutsAt ==
  ASSUME SpectatorAssumption, NEW u \in Maps, NEW l \in Leaves, NEW H \in SUBSET Everyone,
         NEW c \in Everyone \ H, NEW pos \in Spots, u.at[c] = pos,
         Good(u.holder[l], u.id, u.at, H), Cardinality(H) < u.holder[l].capacity,
         NEW i \in 0..(u.holder[l].capacity - 1), u.holder[l].slot[i].creature = Off
  PROVE  Only(u, PutAt(u, l, c, pos, i), l, H, H \union {c})
<1>0. Off \notin Everyone /\ IsFiniteSet(Everyone) /\ 2 * Cardinality(Everyone) <= Wrap
  BY DEF SpectatorAssumption
<1>1. PICK a \in Holders : a = u.holder[l]
  BY DEF Maps
<1>2. PICK n \in Nat : n = a.capacity /\ n >= 2 /\ n \in Powers
  BY <1>1, HolderIs
<1>3. PICK f, ids, ats : f = a.slot /\ ids = u.id /\ ats = u.at
  OBVIOUS
<1>4. PICK np \in Nat : a.playerIndex = Before(np) /\ Arranged(f, n, ids, ats, H, np)
  BY <1>1, <1>2, <1>3 DEF Good
<1>5. PICK J : J = H \union {c}
  OBVIOUS
<1>6. /\ IsFiniteSet(H) /\ IsFiniteSet(J) /\ Cardinality(H) \in Nat /\ Cardinality(J) = Cardinality(H) + 1
      /\ Cardinality(J) <= Cardinality(Everyone) /\ Cardinality(Everyone) \in Nat
  <2>1. IsFiniteSet(H)
    BY <1>0, FS_Subset
  <2>2. IsFiniteSet(J) /\ Cardinality(J) = Cardinality(H) + 1
    BY <1>5, <2>1, FS_AddElement
  <2>3. J \in SUBSET Everyone
    BY <1>5
  <2>4. Cardinality(J) <= Cardinality(Everyone)
    BY <1>0, <2>3, FS_Subset
  <2> QED BY <1>0, <2>1, <2>2, <2>4, FS_CardinalityType
<1>7. np <= Cardinality(H) /\ np < n /\ np < Wrap /\ np + 1 < Wrap
  <2>1. np <= Cardinality(H)
    <3>1. Off \notin Everyone /\ IsFiniteSet(H) /\ n \in Nat
      BY <1>0, <1>6
    <3>2. Arranged(f, n, ids, ats, H, np)
      BY <1>4, Zenon
    <3> QED BY <3>1, <3>2, FewPlayers
  <2> QED BY <1>0, <1>1, <1>2, <1>6, <2>1 DEF Wrap
<1>8. /\ f \in [0..(n - 1) -> Seats] /\ i \in 0..(n - 1) /\ f[i].creature = Off /\ i \in Nat
      /\ DOMAIN f = 0..(n - 1) /\ a.count = Cardinality(H)
  BY <1>1, <1>2, <1>3, <1>4 DEF Arranged, Good
<1>9. (i + 1) % n \in Nat /\ (i + 1) % n < n
  BY <1>2, <1>8
<1>10. /\ u.holder \in [Leaves -> Holders] /\ ids \in [Everyone -> Nat]
       /\ ats \in [Everyone -> Spots \union {Off}] /\ ats[c] = pos
  BY <1>3 DEF Maps
<1>11. PICK k \in Nat, m \in Nat : k = (i + 1) % n /\ k < n /\ m = Cardinality(J)
  BY <1>6, <1>9
<1>12. PICK v : v = PutAt(u, l, c, pos, i)
  OBVIOUS
<1>13. CASE c \notin Watchers
  <2>1. PICK s : s = [creature |-> c, pos |-> pos, player |-> FALSE]
    OBVIOUS
  <2>2. s \in Seats /\ s.creature = c /\ s.pos = ats[c] /\ s.player = FALSE
    BY <1>10, <2>1 DEF Seats
  <2>3. PICK b : /\ HolderOf(b, [a.slot EXCEPT ![i] = s], a.capacity, (i + 1) % a.capacity,
                             a.count + 1, a.playerIndex)
                 /\ MapWith(u, PutAt(u, l, c, pos, i), l, b, [u.id EXCEPT ![c] = i])
    BY <1>1, <1>13, <2>1, PutBeastIs
  <2>4. PICK h : h = [f EXCEPT ![i] = s]
    OBVIOUS
  <2>5. PICK ids2 : ids2 = [ids EXCEPT ![c] = i]
    OBVIOUS
  <2>6. /\ h \in [0..(n - 1) -> Seats] /\ \A j \in 0..(n - 1) : h[j] = IF j = i THEN s ELSE f[j]
        /\ ids2 \in [Everyone -> Nat] /\ \A d \in Everyone : ids2[d] = IF d = c THEN i ELSE ids[d]
    BY <1>8, <1>10, <2>2, <2>4, <2>5
  <2>7. BeastPut(f, h, n, ids, ids2, ats, c, i)
    BY <1>8, <1>13, <2>2, <2>6 DEF BeastPut
  <2>8. Arranged(h, n, ids2, ats, H \union {c}, np)
    BY <1>0, <1>4, <2>7, PutBeast
  <2>9. Arranged(h, n, ids2, u.at, J, np)
    BY <1>3, <1>5, <2>8
  <2>10. PICK x \in Nat : x = Before(np)
    BY <1>7, BeforeNext
  <2>11. HolderOf(b, h, n, k, m, x)
    BY <1>2, <1>3, <1>4, <1>6, <1>8, <1>11, <2>3, <2>4, <2>10
  <2>12. MapWith(u, v, l, b, ids2)
    BY <1>3, <1>12, <2>3, <2>5
  <2>13. \A d \in Everyone \ (H \union J) : ids2[d] = u.id[d]
    BY <1>3, <1>5, <2>6
  <2>14. Only(u, v, l, H, J)
    BY <1>2, <1>11, <2>6, <2>9, <2>10, <2>11, <2>12, <2>13, OnlyLeaf
  <2> QED BY <1>5, <1>12, <2>14
<1>14. CASE c \in Watchers
  <2>1. PICK s : s = [creature |-> c, pos |-> pos, player |-> TRUE]
    OBVIOUS
  <2>2. s \in Seats /\ s.creature = c /\ s.pos = ats[c] /\ s.player = TRUE
    BY <1>10, <2>1 DEF Seats
  <2>3. np = (a.playerIndex + 1) % Wrap /\ np \in DOMAIN f /\ i \in DOMAIN f
    BY <1>4, <1>7, <1>8, BeforeNext
  <2>4. PICK b, h, ids2 :
           /\ HolderOf(b, h, a.capacity, (i + 1) % a.capacity, a.count + 1, np)
           /\ SwapMakes(f, h, i, np, s)
           /\ ToldIs(f, u.id, ids2, c, i, np)
           /\ MapWith(u, PutAt(u, l, c, pos, i), l, b, ids2)
    BY <1>1, <1>3, <1>14, <2>1, <2>3, PutPlayerIs
  <2>5. /\ h \in [0..(n - 1) -> Seats]
        /\ \A j \in 0..(n - 1) : h[j] = IF j = np THEN s ELSE IF j = i THEN f[np] ELSE f[j]
        /\ ids2 \in [Everyone -> Nat]
        /\ \A d \in Everyone : ids2[d] = IF d = c THEN np
                                         ELSE IF i # np /\ d = f[np].creature THEN i ELSE ids[d]
    BY <1>3, <1>8, <1>10, <2>2, <2>3, <2>4 DEF SwapMakes, ToldIs
  <2>6. PlayerPut(f, h, n, ids, ids2, ats, c, i, np)
    BY <1>8, <1>14, <2>2, <2>5 DEF PlayerPut
  <2>7. Arranged(h, n, ids2, ats, H \union {c}, np + 1)
    BY <1>0, <1>4, <1>7, <2>6, PutPlayer
  <2>8. PICK q \in Nat : q = np + 1 /\ np = Before(q)
    BY <1>7, BeforeNext
  <2>9. Arranged(h, n, ids2, u.at, J, q)
    BY <1>3, <1>5, <2>7, <2>8
  <2>10. HolderOf(b, h, n, k, m, np)
    BY <1>2, <1>6, <1>8, <1>11, <2>4
  <2>11. \A d \in Everyone \ (H \union J) : ids2[d] = u.id[d]
    <3>1. \A d \in Everyone \ (H \union J) : d # c /\ d # f[np].creature
      BY <1>0, <1>4, <1>5, <2>3, <1>8 DEF Arranged
    <3> QED BY <1>3, <2>5, <3>1
  <2>12. MapWith(u, v, l, b, ids2)
    BY <1>12, <2>4
  <2>13. Only(u, v, l, H, J)
    BY <1>2, <1>11, <2>5, <2>8, <2>9, <2>10, <2>11, <2>12, OnlyLeaf
  <2> QED BY <1>5, <1>12, <2>13
<1> QED BY <1>13, <1>14

\* The creatures fit.
LEMMA FitsWithin ==
  ASSUME NEW n \in Nat, NEW f, NEW ids, NEW ats, NEW H, IsFiniteSet(H), NEW np,
         Arranged(f, n, ids, ats, H, np)
  PROVE  Cardinality(H) <= n
<1> DEFINE S == 0..(n - 1)
           g == [c \in H |-> ids[c]]
<1>1. g \in Injection(H, S)
  <2>1. g \in [H -> S]
    BY DEF Arranged
  <2>2. \A c, d \in H : g[c] = g[d] => c = d
    BY DEF Arranged
  <2> HIDE DEF g, S
  <2>3. DOMAIN g = H
    BY <2>1
  <2> QED BY <2>1, <2>2, <2>3, Zenon DEF Injection, IsInjective
<1>2. 0 \in Int /\ n - 1 \in Int
  OBVIOUS
<1>3. IsFiniteSet(S) /\ Cardinality(S) = IF 0 > n - 1 THEN 0 ELSE n - 1 - 0 + 1
  BY <1>2, FS_Interval
<1>4. Cardinality(H) <= Cardinality(S)
  <2> HIDE DEF g, S
  <2> QED BY <1>1, <1>3, FS_Injection
<1>5. Cardinality(H) \in Nat
  BY FS_CardinalityType
<1> HIDE DEF S
<1> QED BY <1>3, <1>4, <1>5

\* The least of a set of numbers is one of them.
LEMMA MinIn ==
  ASSUME NEW S \in SUBSET Nat, S # {}
  PROVE  Min(S) \in S
<1>1. \E x \in S : \A y \in S : x <= y
  BY LeastNumber
<1> QED BY <1>1 DEF Min

\* FastSpectatorHolder::add, with a slot to spare.
LEMMA AddsToRoom ==
  ASSUME SpectatorAssumption, NEW u \in Maps, NEW l \in Leaves, NEW H \in SUBSET Everyone,
         NEW c \in Everyone \ H, NEW pos \in Spots, u.at[c] = pos,
         Good(u.holder[l], u.id, u.at, H), u.holder[l].count < u.holder[l].capacity
  PROVE  Only(u, Add(u, l, c, pos), l, H, H \union {c})
<1>1. PICK a \in Holders : a = u.holder[l]
  BY DEF Maps
<1>2. PICK n \in Nat : n = a.capacity /\ n >= 2 /\ n \in Powers
  BY <1>1, HolderIs
<1>3. PICK k \in Nat : k = a.index /\ k < n
  BY <1>1, <1>2, HolderIs DEF Good
<1>4. IsFiniteSet(H) /\ Cardinality(H) < n
  <2>1. IsFiniteSet(H)
    BY FS_Subset DEF SpectatorAssumption
  <2> QED BY <1>1, <1>2, <2>1 DEF Good
<1>5. PICK f, ids : f = a.slot /\ ids = u.id
  OBVIOUS
<1>6. Known(f, n, ids, H)
  BY <1>1, <1>2, <1>5 DEF Good, Arranged, Known
<1>7. PICK i \in 0..(n - 1) : f[i].creature = Off
  BY <1>4, <1>6, Room
<1>8. PICK ahead, behind : /\ ahead = {j \in k..(n - 1) : f[j].creature = Off}
                           /\ behind = {j \in 0..k : f[j].creature = Off}
  OBVIOUS
<1>9. PICK S : S = IF ahead # {} THEN ahead ELSE behind
  OBVIOUS
<1>10. S \in SUBSET (0..(n - 1)) /\ S # {} /\ \A j \in S : f[j].creature = Off
  BY <1>3, <1>7, <1>8, <1>9
<1>11. PICK j \in S : j = Min(S)
  BY <1>10, MinIn
<1>12. j \in 0..(n - 1) /\ f[j].creature = Off
  BY <1>10, <1>11
<1>13. Add(u, l, c, pos) = PutAt(u, l, c, pos, Min(S))
  <2>1. /\ ahead = {i_1 \in a.index..a.capacity - 1 : ~Occupied(a, i_1)}
        /\ behind = {i_1 \in 0..a.index : ~Occupied(a, i_1)}
    BY <1>2, <1>3, <1>5, <1>8 DEF Occupied
  <2>2. a.count < a.capacity
    BY <1>1
  <2> QED BY <1>1, <1>9, <2>1, <2>2, Zenon DEF Add
<1>14. Only(u, PutAt(u, l, c, pos, j), l, H, H \union {c})
  <2>1. /\ j \in 0..(u.holder[l].capacity - 1) /\ u.holder[l].slot[j].creature = Off
        /\ Cardinality(H) < u.holder[l].capacity
    BY <1>1, <1>2, <1>4, <1>5, <1>12
  <2> QED BY <2>1, PutsAt
<1> QED BY <1>11, <1>13, <1>14

\* And with none.
LEMMA AddsGrown ==
  ASSUME SpectatorAssumption, NEW u \in Maps, NEW l \in Leaves, NEW H \in SUBSET Everyone,
         NEW c \in Everyone \ H, NEW pos \in Spots, u.at[c] = pos,
         Good(u.holder[l], u.id, u.at, H), ~(u.holder[l].count < u.holder[l].capacity)
  PROVE  Only(u, Add(u, l, c, pos), l, H, H \union {c})
<1>0. Off \notin Everyone /\ IsFiniteSet(H)
  BY FS_Subset DEF SpectatorAssumption
<1>1. PICK a \in Holders : a = u.holder[l]
  BY DEF Maps
<1>2. PICK n \in Nat : n = a.capacity /\ n >= 2 /\ n \in Powers /\ 2 * n \in Powers
  BY <1>1, HolderIs, PowersHalve
<1>3. PICK f, ids, ats : f = a.slot /\ ids = u.id /\ ats = u.at
  OBVIOUS
<1>4. PICK np \in Nat : a.playerIndex = Before(np) /\ Arranged(f, n, ids, ats, H, np)
  BY <1>1, <1>2, <1>3 DEF Good
<1>5. Cardinality(H) \in Nat /\ Cardinality(H) <= n
  BY <1>0, <1>4, FitsWithin, FS_CardinalityType
<1>6. f \in [0..(n - 1) -> Seats] /\ Free \in Seats
  BY <1>4 DEF Arranged, Free, Seats
<1>7. PICK h : h = [i \in 0..(2 * n - 1) |-> IF i < n THEN f[i] ELSE Free]
  OBVIOUS
<1>8. /\ h \in [0..(2 * n - 1) -> Seats]
      /\ \A i \in 0..(2 * n - 1) : h[i] = IF i < n THEN f[i] ELSE Free
  BY <1>6, <1>7
<1>9. Arranged(h, 2 * n, ids, ats, H, np)
  BY <1>0, <1>4, <1>8, Grows
<1>10. PICK g : g = [a EXCEPT !.capacity = 2 * @,
                              !.slot = [i \in 0..2 * a.capacity - 1 |->
                                          IF i < a.capacity THEN a.slot[i] ELSE Free]]
  OBVIOUS
<1>11. g = [slot |-> h, capacity |-> 2 * n, index |-> a.index, count |-> a.count,
            playerIndex |-> a.playerIndex]
  <2>1. a = [slot |-> a.slot, capacity |-> a.capacity, index |-> a.index, count |-> a.count,
             playerIndex |-> a.playerIndex]
    BY <1>1, HolderIs
  <2>2. g = [a EXCEPT !.capacity = 2 * n, !.slot = h]
    BY <1>2, <1>3, <1>7, <1>10, <2>1
  <2> QED BY <2>1, <2>2
<1>12. PICK w : w = [u EXCEPT !.holder[l] = g]
  OBVIOUS
<1>13. MapWith(u, w, l, g, ids)
  <2>1. u = [holder |-> u.holder, id |-> u.id, at |-> u.at]
    BY DEF Maps
  <2> QED BY <1>3, <1>12, <2>1 DEF MapWith
<1>14. HolderOf(g, h, 2 * n, a.index, a.count, a.playerIndex)
  BY <1>11, Zenon DEF HolderOf
<1>15. Only(u, w, l, H, H)
  <2>1. /\ a.index \in Nat /\ a.count \in Nat /\ a.playerIndex \in Nat /\ a.index < 2 * n
        /\ a.count = Cardinality(H)
    BY <1>1, <1>2, HolderIs DEF Good
  <2>2. ids \in [Everyone -> Nat] /\ Arranged(h, 2 * n, ids, u.at, H, np)
    BY <1>3, <1>9 DEF Maps
  <2>3. \A d \in Everyone \ (H \union H) : ids[d] = u.id[d]
    BY <1>3
  <2> QED BY <1>2, <1>4, <1>13, <1>14, <2>1, <2>2, <2>3, OnlyLeaf
<1>16. /\ w \in Maps /\ w.at = u.at /\ Good(w.holder[l], w.id, w.at, H) /\ w.holder[l] = g
       /\ \A k \in Leaves \ {l} : w.holder[k] = u.holder[k]
       /\ \A d \in Everyone \ H : w.id[d] = u.id[d]
  <2>1. w.holder[l] = g
    BY <1>12 DEF Maps
  <2> QED BY <1>15, <2>1 DEF Only
<1>17. /\ Cardinality(H) < w.holder[l].capacity /\ n \in 0..(w.holder[l].capacity - 1)
       /\ w.holder[l].slot[n].creature = Off
  BY <1>2, <1>5, <1>8, <1>11, <1>16 DEF Free
<1>18. Only(w, PutAt(w, l, c, pos, n), l, H, H \union {c})
  <2>1. w.at[c] = pos
    BY <1>16
  <2> QED BY <1>16, <1>17, <2>1, PutsAt
<1>19. Add(u, l, c, pos) = PutAt(w, l, c, pos, n)
  <2>1. ~(a.count < a.capacity)
    BY <1>1
  <2> QED BY <1>1, <1>2, <1>10, <1>12, <2>1, Zenon DEF Add
<1>20. PICK v : v = PutAt(w, l, c, pos, n)
  OBVIOUS
<1>21. Only(u, v, l, H, H \union {c})
  BY <1>16, <1>18, <1>20 DEF Only
<1> QED BY <1>19, <1>20, <1>21

\* FastSpectatorHolder::add
LEMMA Adds ==
  ASSUME SpectatorAssumption, NEW u \in Maps, NEW l \in Leaves, NEW H \in SUBSET Everyone,
         NEW c \in Everyone \ H, NEW pos \in Spots, u.at[c] = pos,
         Good(u.holder[l], u.id, u.at, H)
  PROVE  Only(u, Add(u, l, c, pos), l, H, H \union {c})
BY AddsToRoom, AddsGrown

\* x holds what the second loop of FastSpectatorHolder::remove makes of u, step by step.
Pulls(u, l, a, half, x) ==
  x = [n \in 0..half |->
         IF n = 0 THEN [u EXCEPT !.holder[l] = Halved(a)]
         ELSE IF Occupied(a, half + n - 1) THEN Pulled(x[n - 1], l, a.slot[half + n - 1])
         ELSE x[n - 1]]

\* The last step is the result.
LEMMA ShrunkIs ==
  ASSUME NEW u, NEW l, NEW a, a = u.holder[l], NEW half, half = a.capacity \div 2
  PROVE  Shrunk(u, l) = (CHOOSE x : Pulls(u, l, a, half, x))[half]
BY DEF Shrunk, Pulls

\* There are such steps.
LEMMA Pullable ==
  ASSUME NEW u, NEW l, NEW a, NEW half \in Nat
  PROVE  \E x : Pulls(u, l, a, half, x)
<1> DEFINE U == [u EXCEPT !.holder[l] = Halved(a)]
           Nx(y, n) == IF Occupied(a, half + n - 1) THEN Pulled(y, l, a.slot[half + n - 1]) ELSE y
           Steps(n, x) == x = [j \in 0..n |-> IF j = 0 THEN U ELSE Nx(x[j - 1], j)]
           Bad == {m \in Nat : ~ \E x : Steps(m, x)}
<1>1. Bad = {}
  <2> HIDE DEF U, Nx
  <2>1. SUFFICES ASSUME Bad # {} PROVE FALSE
    OBVIOUS
  <2>2. Bad \in SUBSET Nat
    OBVIOUS
  <2>3. PICK m \in Bad : \A k \in Bad : m <= k
    BY <2>1, <2>2, LeastNumber
  <2>4. CASE m = 0
    <3>1. Steps(0, [j \in 0..0 |-> U])
      OBVIOUS
    <3> QED BY <2>3, <2>4, <3>1
  <2>5. CASE m # 0
    <3>1. m - 1 \in Nat /\ m - 1 \notin Bad
      BY <2>3, <2>5
    <3>2. PICK x : Steps(m - 1, x)
      BY <3>1
    <3> DEFINE on == [j \in 0..m |-> IF j = m THEN Nx(x[m - 1], m) ELSE x[j]]
    <3>3. /\ DOMAIN on = 0..m /\ on[m] = Nx(on[m - 1], m)
          /\ \A j \in 0..(m - 1) : on[j] = x[j]
      BY <3>1
    <3>4. \A j \in 0..(m - 1) : x[j] = IF j = 0 THEN U ELSE Nx(x[j - 1], j)
      BY <3>1, <3>2
    <3>5. \A j \in 0..m : on[j] = IF j = 0 THEN U ELSE Nx(on[j - 1], j)
      <4> TAKE j \in 0..m
      <4>1. CASE j = m
        BY <2>5, <3>3, <4>1
      <4>2. CASE j # m
        <5>1. j \in 0..(m - 1) /\ (j # 0 => j - 1 \in 0..(m - 1))
          BY <3>1, <4>2
        <5> HIDE DEF on
        <5> QED BY <3>3, <3>4, <5>1
      <4> QED BY <4>1, <4>2
    <3>6. on = [j \in 0..m |-> on[j]]
      OBVIOUS
    <3> HIDE DEF on
    <3>7. Steps(m, on)
      BY <3>5, <3>6
    <3> QED BY <2>3, <3>7
  <2> QED BY <2>4, <2>5
<1>2. PICK x : Steps(half, x)
  BY <1>1
<1>3. Pulls(u, l, a, half, x)
  BY <1>2, Zenon DEF Pulls
<1> QED BY <1>3

\* After n steps: the new array f, and the creatures that have not been pulled yet.
Midway(u, x, l, a, half, n, H, np) ==
  \E b, f, ids :
    /\ MapWith(u, x, l, b, ids)
    /\ HolderOf(b, f, half, 0, a.count, a.playerIndex)
    /\ ids \in [Everyone -> Nat] /\ \A d \in Everyone \ H : ids[d] = u.id[d]
    /\ Halving(a.slot, f, half, n, ids, u.at, H, np)

\* One of the creatures is pulled.
LEMMA PullsOne ==
  ASSUME NEW u \in Maps, NEW x, NEW l \in Leaves, NEW a, NEW half \in Nat, NEW k \in 0..(half - 1),
         NEW H \in SUBSET Everyone, NEW np, Off \notin Everyone, IsFiniteSet(H), Cardinality(H) < half,
         a.slot \in [0..(2 * half - 1) -> Seats],
         NEW s, s = a.slot[half + k], s.creature # Off,
         Midway(u, x, l, a, half, k, H, np)
  PROVE  Midway(u, Pulled(x, l, s), l, a, half, k + 1, H, np)
<1>1. PICK b, f, ids :
         /\ MapWith(u, x, l, b, ids)
         /\ HolderOf(b, f, half, 0, a.count, a.playerIndex)
         /\ ids \in [Everyone -> Nat] /\ \A d \in Everyone \ H : ids[d] = u.id[d]
         /\ Halving(a.slot, f, half, k, ids, u.at, H, np)
  BY DEF Midway
<1>2. f \in [0..(half - 1) -> Seats] /\ DOMAIN f = 0..(half - 1) /\ Known(f, half, ids, H)
  BY <1>1 DEF Halving, Known, Settled
<1>3. \E i \in 0..(half - 1) : f[i].creature = Off
  BY <1>2, Room
<1>4. PICK S : S = {i \in 0..(half - 1) : f[i].creature = Off}
  OBVIOUS
<1>5. S \in SUBSET Nat /\ S # {}
  BY <1>3, <1>4
<1>6. PICK j \in S : j = Min(S)
  BY <1>5, MinIn
<1>7. PICK c : c = s.creature
  OBVIOUS
<1>8. c \in H /\ c \in Everyone /\ half + k \in 0..(2 * half - 1) /\ s \in Seats
  <2>1. half + k \in (half + k)..(2 * half - 1) /\ half + k \in 0..(2 * half - 1)
    OBVIOUS
  <2> QED BY <1>1, <1>7, <2>1 DEF Halving, Settled
<1>9. PICK h, ids2 : h = [f EXCEPT ![j] = s] /\ ids2 = [ids EXCEPT ![c] = j]
  OBVIOUS
<1>10. PulledTo(f, h, half, ids, ids2, s, c, j)
  BY <1>1, <1>2, <1>4, <1>6, <1>8, <1>9 DEF PulledTo
<1>11. Halving(a.slot, h, half, k + 1, ids2, u.at, H, np)
  BY <1>1, <1>7, <1>10, HalfPulls
<1>12. /\ b = [slot |-> f, capacity |-> half, index |-> 0, count |-> a.count,
               playerIndex |-> a.playerIndex]
       /\ x = [holder |-> [u.holder EXCEPT ![l] = b], id |-> ids, at |-> u.at]
  BY <1>1, Zenon DEF MapWith, HolderOf
<1>13. PICK g : g = [slot |-> h, capacity |-> half, index |-> 0, count |-> a.count,
                     playerIndex |-> a.playerIndex]
  OBVIOUS
<1>14. x.holder[l] = b /\ DOMAIN u.holder = Leaves
  BY <1>12 DEF Maps
<1>15. PICK y : y = Pulled(x, l, s)
  OBVIOUS
<1>16. y = [x EXCEPT !.holder[l].slot[j] = s, !.id[c] = j]
  <2>1. S = {i \in DOMAIN x.holder[l].slot : ~Occupied(x.holder[l], i)}
    BY <1>2, <1>4, <1>12, <1>14 DEF Occupied
  <2> QED BY <1>6, <1>7, <1>15, <2>1, Zenon DEF Pulled
<1>17. g = [b EXCEPT !.slot[j] = s]
  <2>1. b = [slot |-> f, capacity |-> half, index |-> 0, count |-> a.count,
             playerIndex |-> a.playerIndex]
    BY <1>12
  <2>2. h = [f EXCEPT ![j] = s]
    BY <1>9
  <2> QED BY <1>13, <2>1, <2>2
<1>18. y = [holder |-> [u.holder EXCEPT ![l] = g], id |-> ids2, at |-> u.at]
  <2>1. y = [holder |-> [x.holder EXCEPT ![l] = g], id |-> ids2, at |-> u.at]
    BY <1>9, <1>12, <1>14, <1>16, <1>17
  <2>2. [x.holder EXCEPT ![l] = g] = [u.holder EXCEPT ![l] = g]
    BY <1>12, <1>14
  <2> QED BY <2>1, <2>2
<1>19. MapWith(u, y, l, g, ids2) /\ HolderOf(g, h, half, 0, a.count, a.playerIndex)
  BY <1>13, <1>18, Zenon DEF MapWith, HolderOf
<1>20. ids2 \in [Everyone -> Nat] /\ \A d \in Everyone \ H : ids2[d] = u.id[d]
  BY <1>1, <1>4, <1>6, <1>8, <1>9
<1>21. Midway(u, y, l, a, half, k + 1, H, np)
  BY <1>11, <1>19, <1>20, Zenon DEF Midway
<1> QED BY <1>15, <1>21

\* The lower half is copied.
LEMMA PullsNone ==
  ASSUME NEW u \in Maps, NEW l \in Leaves, NEW a, a = u.holder[l], NEW half \in Nat,
         a.capacity = 2 * half, NEW H \in SUBSET Everyone, NEW np, np <= half, Off \notin Everyone,
         Arranged(a.slot, 2 * half, u.id, u.at, H, np)
  PROVE  Midway(u, [u EXCEPT !.holder[l] = Halved(a)], l, a, half, 0, H, np)
<1>1. u = [holder |-> u.holder, id |-> u.id, at |-> u.at] /\ a \in Holders /\ u.id \in [Everyone -> Nat]
  BY DEF Maps
<1>2. a = [slot |-> a.slot, capacity |-> a.capacity, index |-> a.index, count |-> a.count,
           playerIndex |-> a.playerIndex]
  BY <1>1, HolderIs
<1>3. PICK f : f = [i \in 0..(half - 1) |-> IF Occupied(a, i) THEN a.slot[i] ELSE Free]
  OBVIOUS
<1>4. a.slot \in [0..(2 * half - 1) -> Seats] /\ Free \in Seats
  BY DEF Arranged, Free, Seats
<1>5. /\ f \in [0..(half - 1) -> Seats]
      /\ \A i \in 0..(half - 1) : f[i] = IF a.slot[i].creature # Off THEN a.slot[i] ELSE Free
  BY <1>3, <1>4 DEF Occupied
<1>6. Halving(a.slot, f, half, 0, u.id, u.at, H, np)
  BY <1>5, HalfBegins
<1>7. PICK b : b = Halved(a)
  OBVIOUS
<1>8. b = [slot |-> f, capacity |-> half, index |-> 0, count |-> a.count,
           playerIndex |-> a.playerIndex]
  <2>1. a.capacity \div 2 = half
    OBVIOUS
  <2>2. b = [a EXCEPT !.capacity = half, !.index = 0, !.slot = f]
    BY <1>3, <1>7, <2>1, Zenon DEF Halved
  <2> QED BY <1>2, <2>2
<1>9. PICK x : x = [u EXCEPT !.holder[l] = Halved(a)]
  OBVIOUS
<1>10. MapWith(u, x, l, b, u.id)
  BY <1>1, <1>7, <1>9 DEF MapWith
<1>11. HolderOf(b, f, half, 0, a.count, a.playerIndex)
  BY <1>8, Zenon DEF HolderOf
<1>12. \A d \in Everyone \ H : u.id[d] = u.id[d]
  OBVIOUS
<1>13. Midway(u, x, l, a, half, 0, H, np)
  BY <1>1, <1>6, <1>10, <1>11, <1>12, Zenon DEF Midway
<1> QED BY <1>9, <1>13

\* After each step the array is halfway between the two.
LEMMA PullsAll ==
  ASSUME NEW u \in Maps, NEW l \in Leaves, NEW a, a = u.holder[l], NEW half \in Nat,
         a.capacity = 2 * half, NEW H \in SUBSET Everyone, IsFiniteSet(H), Cardinality(H) < half,
         NEW np, np <= half, Off \notin Everyone,
         Arranged(a.slot, 2 * half, u.id, u.at, H, np), NEW x, Pulls(u, l, a, half, x)
  PROVE  \A n \in 0..half : Midway(u, x[n], l, a, half, n, H, np)
<1> DEFINE Bad == {n \in 0..half : ~Midway(u, x[n], l, a, half, n, H, np)}
<1>0. a.slot \in [0..(2 * half - 1) -> Seats]
  BY DEF Arranged
<1>1. \A n \in 0..half :
        x[n] = IF n = 0 THEN [u EXCEPT !.holder[l] = Halved(a)]
               ELSE IF Occupied(a, half + n - 1) THEN Pulled(x[n - 1], l, a.slot[half + n - 1])
               ELSE x[n - 1]
  BY DEF Pulls
<1>2. SUFFICES ASSUME Bad # {} PROVE FALSE
  OBVIOUS
<1>3. Bad \in SUBSET Nat
  OBVIOUS
<1>4. PICK n \in Bad : \A k \in Bad : n <= k
  BY <1>2, <1>3, LeastNumber
<1>5. n # 0
  <2>1. Midway(u, [u EXCEPT !.holder[l] = Halved(a)], l, a, half, 0, H, np)
    BY PullsNone
  <2>2. 0 \in 0..half
    OBVIOUS
  <2>3. x[0] = [u EXCEPT !.holder[l] = Halved(a)]
    BY <1>1, <2>2
  <2>4. Midway(u, x[0], l, a, half, 0, H, np)
    BY <2>1, <2>3, Zenon
  <2> QED BY <1>4, <2>4
<1>6. PICK k \in 0..(half - 1) : n = k + 1 /\ k = n - 1 /\ half + k = half + n - 1
  BY <1>4, <1>5
<1>7. k \in 0..half /\ k \notin Bad /\ n \in 0..half
  BY <1>4, <1>6
<1>8. PICK y : y = x[k]
  OBVIOUS
<1>9. Midway(u, y, l, a, half, k, H, np)
  BY <1>7, <1>8
<1>10. PICK s : s = a.slot[half + k]
  OBVIOUS
<1>11. x[n] = IF s.creature # Off THEN Pulled(y, l, s) ELSE y
  BY <1>1, <1>5, <1>6, <1>7, <1>8, <1>10 DEF Occupied
<1>12. CASE s.creature # Off
  <2>1. Midway(u, Pulled(y, l, s), l, a, half, k + 1, H, np)
    BY <1>0, <1>9, <1>10, <1>12, PullsOne
  <2>2. Midway(u, x[n], l, a, half, n, H, np)
    BY <1>6, <1>11, <1>12, <2>1
  <2> QED BY <1>4, <2>2
<1>13. CASE s.creature = Off
  <2>1. PICK b, f, ids :
           /\ MapWith(u, y, l, b, ids)
           /\ HolderOf(b, f, half, 0, a.count, a.playerIndex)
           /\ ids \in [Everyone -> Nat] /\ \A d \in Everyone \ H : ids[d] = u.id[d]
           /\ Halving(a.slot, f, half, k, ids, u.at, H, np)
    BY <1>9 DEF Midway
  <2>2. Halving(a.slot, f, half, k + 1, ids, u.at, H, np)
    BY <1>10, <1>13, <2>1, HalfSkips
  <2>3. Midway(u, y, l, a, half, k + 1, H, np)
    BY <2>1, <2>2, Zenon DEF Midway
  <2>4. Midway(u, x[n], l, a, half, n, H, np)
    BY <1>6, <1>11, <1>13, <2>3
  <2> QED BY <1>4, <2>4
<1> QED BY <1>12, <1>13

\* The end of FastSpectatorHolder::remove.
LEMMA Shrinks ==
  ASSUME SpectatorAssumption, NEW u \in Maps, NEW l \in Leaves, NEW H \in SUBSET Everyone,
         Good(u.holder[l], u.id, u.at, H), u.holder[l].capacity # 2,
         2 * u.holder[l].capacity > 5 * u.holder[l].count
  PROVE  Only(u, Shrunk(u, l), l, H, H)
<1>0. Off \notin Everyone /\ IsFiniteSet(H) /\ Cardinality(H) \in Nat
  BY FS_Subset, FS_CardinalityType DEF SpectatorAssumption
<1>1. PICK a \in Holders : a = u.holder[l]
  BY DEF Maps
<1>2. PICK half \in Powers : a.capacity = 2 * half
  BY <1>1, HolderIs, PowersHalve
<1>3. half \in Nat /\ half >= 2 /\ half = a.capacity \div 2
  BY <1>2, PowersHalve
<1>4. PICK np \in Nat : a.playerIndex = Before(np) /\ Arranged(a.slot, 2 * half, u.id, u.at, H, np)
  BY <1>1, <1>2 DEF Good
<1>5. a.count = Cardinality(H) /\ Cardinality(H) < half
  <2>1. a.count = Cardinality(H)
    BY <1>1 DEF Good
  <2> QED BY <1>0, <1>1, <1>2, <1>3, <2>1
<1>6. np <= half
  <2>1. np <= Cardinality(H)
    <3>1. 2 * half \in Nat
      BY <1>3
    <3> QED BY <1>0, <1>4, <3>1, FewPlayers
  <2> QED BY <1>0, <1>3, <1>5, <2>1
<1>7. PICK x : x = CHOOSE z : Pulls(u, l, a, half, z)
  OBVIOUS
<1>8. Pulls(u, l, a, half, x)
  BY <1>3, <1>7, Pullable
<1>9. PICK v : v = Shrunk(u, l)
  OBVIOUS
<1>10. v = x[half]
  <2>1. Shrunk(u, l) = (CHOOSE z : Pulls(u, l, a, half, z))[half]
    <3>1. a = u.holder[l] /\ half = a.capacity \div 2
      BY <1>1, <1>3
    <3> QED BY <3>1, ShrunkIs
  <2> QED BY <1>7, <1>9, <2>1, Zenon
<1>11. \A n \in 0..half : Midway(u, x[n], l, a, half, n, H, np)
  BY <1>0, <1>1, <1>2, <1>3, <1>4, <1>5, <1>6, <1>8, PullsAll
<1>12. Midway(u, v, l, a, half, half, H, np)
  BY <1>3, <1>10, <1>11
<1>13. PICK b, f, ids :
          /\ MapWith(u, v, l, b, ids)
          /\ HolderOf(b, f, half, 0, a.count, a.playerIndex)
          /\ ids \in [Everyone -> Nat] /\ \A d \in Everyone \ H : ids[d] = u.id[d]
          /\ Halving(a.slot, f, half, half, ids, u.at, H, np)
  BY <1>12 DEF Midway
<1>14. Arranged(f, half, ids, u.at, H, np)
  BY <1>3, <1>13, HalfEnds
<1>15. \A d \in Everyone \ (H \union H) : ids[d] = u.id[d]
  BY <1>13
<1>16. /\ a.count \in Nat /\ a.playerIndex \in Nat /\ a.playerIndex = Before(np)
       /\ a.count = Cardinality(H) /\ 0 \in Nat /\ 0 < half
  BY <1>1, <1>3, <1>4, <1>5, HolderIs
<1>17. Only(u, v, l, H, H)
  BY <1>13, <1>14, <1>15, <1>16, OnlyLeaf
<1> QED BY <1>9, <1>17

\* The array may be halved when a creature has left.
LEMMA TakesRest ==
  ASSUME SpectatorAssumption, NEW u \in Maps, NEW l \in Leaves, NEW H \in SUBSET Everyone,
         NEW J \in SUBSET H, NEW w, Only(u, w, l, H, J),
         NEW b, b = w.holder[l],
         NEW r, r = IF b.capacity # 2 /\ 2 * b.capacity > 5 * b.count THEN Shrunk(w, l) ELSE w
  PROVE  Only(u, r, l, H, J)
<1>1. CASE b.capacity # 2 /\ 2 * b.capacity > 5 * b.count
  <2>1. w \in Maps /\ Good(w.holder[l], w.id, w.at, J) /\ J \in SUBSET Everyone
    BY DEF Only
  <2>2. Only(w, Shrunk(w, l), l, J, J)
    BY <1>1, <2>1, Shrinks
  <2>3. Only(w, r, l, J, J)
    BY <1>1, <2>2
  <2> QED BY <2>3 DEF Only
<1>2. CASE ~(b.capacity # 2 /\ 2 * b.capacity > 5 * b.count)
  BY <1>2
<1> QED BY <1>1, <1>2

\* The slot that FastSpectatorHolder::remove takes for the last player's.
LastPlayer(a) == IF Occupied(a, a.playerIndex) THEN a.playerIndex ELSE a.playerIndex - 1

\* The array of a player who leaves, and of a creature that is none, may be halved.
LEMMA TakeOffIs ==
  ASSUME NEW u, NEW l, NEW c, NEW i, i = u.id[c],
         NEW last, last = LastPlayer(u.holder[l]),
         NEW w, w = IF u.holder[l].slot[i].player THEN Vacated(Exchanged(u, l, i, last), l, last)
                    ELSE Vacated(u, l, i)
  PROVE  TakeOff(u, l, c) =
           IF w.holder[l].capacity # 2 /\ 2 * w.holder[l].capacity > 5 * w.holder[l].count
           THEN Shrunk(w, l) ELSE w
BY Zenon DEF TakeOff, LastPlayer

\* What is freed.
LEMMA VacatedIs ==
  ASSUME NEW u, NEW v, NEW l \in DOMAIN u.holder, NEW b, NEW f, NEW n, NEW k, NEW m, NEW x, NEW ids,
         MapWith(u, v, l, b, ids), HolderOf(b, f, n, k, m, x), NEW i \in DOMAIN f,
         NEW s, s = f[i]
  PROVE  \E g : /\ HolderOf(g, [f EXCEPT ![i] = [s EXCEPT !.creature = Off]], n, i, m - 1, x)
                /\ MapWith(u, Vacated(v, l, i), l, g, ids)
<1>1. /\ b = [slot |-> f, capacity |-> n, index |-> k, count |-> m, playerIndex |-> x]
      /\ v = [holder |-> [u.holder EXCEPT ![l] = b], id |-> ids, at |-> u.at]
  BY Zenon DEF MapWith, HolderOf
<1>2. PICK h, w : h = [f EXCEPT ![i] = [s EXCEPT !.creature = Off]] /\ w = Vacated(v, l, i)
  OBVIOUS
<1>3. PICK g : g = [v.holder[l] EXCEPT !.slot[i].creature = Off, !.index = i, !.count = @ - 1]
  OBVIOUS
<1>4. v.holder[l] = b /\ DOMAIN v.holder = DOMAIN u.holder
  BY <1>1
<1>5. w = [v EXCEPT !.holder[l] = g]
  BY <1>2, <1>3, Zenon DEF Vacated
<1>6. w = [holder |-> [u.holder EXCEPT ![l] = g], id |-> ids, at |-> u.at]
  <2>1. [v.holder EXCEPT ![l] = g] = [u.holder EXCEPT ![l] = g]
    BY <1>1
  <2>2. w = [holder |-> [v.holder EXCEPT ![l] = g], id |-> ids, at |-> u.at]
    BY <1>1, <1>5
  <2> QED BY <2>1, <2>2
<1>7. MapWith(u, w, l, g, ids)
  BY <1>6, Zenon DEF MapWith
<1>8. HolderOf(g, h, n, i, m - 1, x)
  <2>1. h = [f EXCEPT ![i].creature = Off]
    BY <1>2
  <2>2. g = [slot |-> h, capacity |-> n, index |-> i, count |-> m - 1, playerIndex |-> x]
    <3>1. g = [b EXCEPT !.slot[i].creature = Off, !.index = i, !.count = @ - 1]
      BY <1>3, <1>4
    <3> QED BY <1>1, <2>1, <3>1
  <2> QED BY <2>2, Zenon DEF HolderOf
<1> QED BY <1>2, <1>7, <1>8, Zenon

\* The slots remembered when the players in slots i and last of f change places.
SwapTells(f, ids, ids2, i, last) ==
  ids2 = [d \in Everyone |-> IF d = f[last].creature /\ last # i THEN i ELSE ids[d]]

\* What is swapped.
LEMMA SwappedHolder ==
  ASSUME NEW u \in Maps, NEW l \in Leaves, NEW a, a = u.holder[l], NEW f, f = a.slot,
         NEW i, NEW last
  PROVE  \E g, ids :
            /\ HolderOf(g, [f EXCEPT ![i] = f[last], ![last] = f[i]], a.capacity, a.index, a.count,
                        (last - 1) % Wrap)
            /\ SwapTells(f, u.id, ids, i, last)
            /\ MapWith(u, Exchanged(u, l, i, last), l, g, ids)
<1>1. /\ u = [holder |-> u.holder, id |-> u.id, at |-> u.at] /\ DOMAIN u.holder = Leaves
      /\ a \in Holders
  BY DEF Maps
<1>2. a = [slot |-> a.slot, capacity |-> a.capacity, index |-> a.index, count |-> a.count,
           playerIndex |-> a.playerIndex]
  BY <1>1, HolderIs
<1>3. PICK h, ids, x, w :
          /\ h = [f EXCEPT ![i] = f[last], ![last] = f[i]]
          /\ ids = [d \in Everyone |-> IF d = f[last].creature /\ last # i THEN i ELSE u.id[d]]
          /\ x = (last - 1) % Wrap /\ w = Exchanged(u, l, i, last)
  OBVIOUS
<1>4. PICK g : g = [a EXCEPT !.slot = h, !.playerIndex = x]
  OBVIOUS
<1>5. w = [u EXCEPT !.holder[l] = g, !.id = ids]
  BY <1>3, <1>4, Zenon DEF Exchanged
<1>6. w = [holder |-> [u.holder EXCEPT ![l] = g], id |-> ids, at |-> u.at]
  BY <1>1, <1>5
<1>7. MapWith(u, w, l, g, ids)
  BY <1>6, Zenon DEF MapWith
<1>8. HolderOf(g, h, a.capacity, a.index, a.count, x)
  <2>1. g = [slot |-> h, capacity |-> a.capacity, index |-> a.index, count |-> a.count,
             playerIndex |-> x]
    BY <1>2, <1>4
  <2> QED BY <2>1, Zenon DEF HolderOf
<1>10. SwapTells(f, u.id, ids, i, last)
  BY <1>3, Zenon DEF SwapTells
<1> QED BY <1>3, <1>7, <1>8, <1>10, Zenon

\* A creature that is no player leaves.
LEMMA TakesBeast ==
  ASSUME SpectatorAssumption, NEW u \in Maps, NEW l \in Leaves, NEW H \in SUBSET Everyone,
         NEW c \in H, NEW ats, \A d \in H \ {c} : u.at[d] = ats[d],
         Good(u.holder[l], u.id, ats, H), c \notin Watchers
  PROVE  Only(u, TakeOff(u, l, c), l, H, H \ {c})
<1>0. Off \notin Everyone /\ IsFiniteSet(H) /\ Cardinality(H) \in Nat
  BY FS_Subset, FS_CardinalityType DEF SpectatorAssumption
<1>1. PICK a \in Holders : a = u.holder[l]
  BY DEF Maps
<1>2. PICK n \in Nat : n = a.capacity /\ n >= 2 /\ n \in Powers
  BY <1>1, HolderIs
<1>3. PICK f, ids : f = a.slot /\ ids = u.id
  OBVIOUS
<1>4. PICK np \in Nat : a.playerIndex = Before(np) /\ Arranged(f, n, ids, ats, H, np)
  BY <1>1, <1>2, <1>3 DEF Good
<1>5. PICK i \in 0..(n - 1) : i = ids[c] /\ f[i].creature = c
  BY <1>4 DEF Arranged
<1>6. PICK s \in Seats : s = f[i] /\ s.creature = c /\ s.player = FALSE
  <2>1. f[i] \in Seats /\ ~f[i].player
    BY <1>0, <1>4, <1>5 DEF Arranged
  <2> QED BY <1>5, <2>1 DEF Seats
<1>7. /\ u = [holder |-> u.holder, id |-> u.id, at |-> u.at] /\ DOMAIN u.holder = Leaves
      /\ ids \in [Everyone -> Nat]
  BY <1>3 DEF Maps
<1>8. a = [slot |-> a.slot, capacity |-> a.capacity, index |-> a.index, count |-> a.count,
           playerIndex |-> a.playerIndex]
  BY <1>1, HolderIs
<1>9. PICK w : w = Vacated(u, l, i)
  OBVIOUS
<1>10. PICK r : r = IF w.holder[l].capacity # 2 /\ 2 * w.holder[l].capacity > 5 * w.holder[l].count
                    THEN Shrunk(w, l) ELSE w
  OBVIOUS
<1>11. TakeOff(u, l, c) = r
  <2>1. PICK last : last = LastPlayer(u.holder[l])
    OBVIOUS
  <2>2. i = u.id[c] /\ ~u.holder[l].slot[i].player
    BY <1>1, <1>3, <1>5, <1>6
  <2>3. w = IF u.holder[l].slot[i].player THEN Vacated(Exchanged(u, l, i, last), l, last)
            ELSE Vacated(u, l, i)
    BY <1>9, <2>2
  <2> QED BY <1>10, <2>1, <2>2, <2>3, TakeOffIs
<1>12. PICK t : t = [s EXCEPT !.creature = Off]
  OBVIOUS
<1>13. t \in Seats /\ t.creature = Off
  BY <1>6, <1>12 DEF Seats
<1>14. PICK h : h = [f EXCEPT ![i] = t]
  OBVIOUS
<1>15. f \in [0..(n - 1) -> Seats]
  BY <1>4 DEF Arranged
<1>16. BeastTaken(f, h, n, ids, c)
  BY <1>5, <1>13, <1>14, <1>15 DEF BeastTaken
<1>17. Arranged(h, n, ids, ats, H \ {c}, np)
  BY <1>0, <1>4, <1>16, TakeBeast
<1>18. PICK J : J = H \ {c}
  OBVIOUS
<1>19. Arranged(h, n, ids, u.at, J, np)
  BY <1>17, <1>18, ArrangedFrame
<1>20. MapWith(u, u, l, a, ids) /\ HolderOf(a, f, n, a.index, a.count, a.playerIndex)
  <2>1. u = [holder |-> [u.holder EXCEPT ![l] = a], id |-> ids, at |-> u.at]
    <3>1. u.holder \in [Leaves -> Holders]
      BY DEF Maps
    <3>2. [u.holder EXCEPT ![l] = a] = u.holder
      BY <1>1, <3>1
    <3> QED BY <1>3, <1>7, <3>2
  <2>2. a = [slot |-> f, capacity |-> n, index |-> a.index, count |-> a.count,
             playerIndex |-> a.playerIndex]
    BY <1>2, <1>3, <1>8
  <2> QED BY <2>1, <2>2, Zenon DEF MapWith, HolderOf
<1>21. PICK g : /\ HolderOf(g, [f EXCEPT ![i] = [s EXCEPT !.creature = Off]], n, i, a.count - 1,
                            a.playerIndex)
                /\ MapWith(u, Vacated(u, l, i), l, g, ids)
  <2>1. l \in DOMAIN u.holder /\ i \in DOMAIN f
    BY <1>7, <1>15
  <2> QED BY <1>6, <1>20, <2>1, VacatedIs
<1>22. PICK m \in Nat : m = Cardinality(J) /\ m = a.count - 1
  <2>1. Cardinality(J) = Cardinality(H) - 1 /\ IsFiniteSet(J)
    BY <1>0, <1>18, FS_RemoveElement
  <2> QED BY <1>1, <2>1, FS_CardinalityType DEF Good
<1>23. HolderOf(g, h, n, i, m, a.playerIndex)
  BY <1>12, <1>14, <1>21, <1>22
<1>24. MapWith(u, w, l, g, ids)
  BY <1>9, <1>21
<1>25. /\ a.playerIndex \in Nat /\ i \in Nat /\ i < n /\ \A d \in Everyone \ (H \union J) : ids[d] = u.id[d]
  BY <1>1, <1>3, HolderIs
<1>26. Only(u, w, l, H, J)
  BY <1>2, <1>4, <1>7, <1>19, <1>22, <1>23, <1>24, <1>25, OnlyLeaf
<1>27. Only(u, r, l, H, J)
  BY <1>10, <1>18, <1>26, TakesRest
<1> QED BY <1>11, <1>18, <1>27

\* A player leaves.
LEMMA TakesPlayer ==
  ASSUME SpectatorAssumption, NEW u \in Maps, NEW l \in Leaves, NEW H \in SUBSET Everyone,
         NEW c \in H, NEW ats, \A d \in H \ {c} : u.at[d] = ats[d],
         Good(u.holder[l], u.id, ats, H), c \in Watchers
  PROVE  Only(u, TakeOff(u, l, c), l, H, H \ {c})
<1>0. Off \notin Everyone /\ IsFiniteSet(H) /\ Cardinality(H) \in Nat /\ 2 * Cardinality(H) <= Wrap
  <2>1. Cardinality(H) <= Cardinality(Everyone) /\ IsFiniteSet(H) /\ IsFiniteSet(Everyone)
    BY FS_Subset DEF SpectatorAssumption
  <2>2. Cardinality(H) \in Nat /\ Cardinality(Everyone) \in Nat
    BY <2>1, FS_CardinalityType
  <2>3. 2 * Cardinality(Everyone) <= Wrap /\ Wrap \in Nat /\ Off \notin Everyone
    BY DEF SpectatorAssumption, Wrap
  <2> QED BY <2>1, <2>2, <2>3
<1>1. PICK a \in Holders : a = u.holder[l]
  BY DEF Maps
<1>2. PICK n \in Nat : n = a.capacity /\ n >= 2 /\ n \in Powers
  BY <1>1, HolderIs
<1>3. PICK f, ids : f = a.slot /\ ids = u.id
  OBVIOUS
<1>4. PICK np \in Nat : a.playerIndex = Before(np) /\ Arranged(f, n, ids, ats, H, np)
  BY <1>1, <1>2, <1>3 DEF Good
<1>5. PICK i \in 0..(n - 1) : i = ids[c] /\ f[i].creature = c
  BY <1>4 DEF Arranged
<1>6. PICK last \in 0..(n - 1) : last = np - 1 /\ np = last + 1 /\ f[last].creature \in Watchers
  <2>1. i < np /\ np - 1 \in 0..(n - 1)
    BY <1>4, <1>5 DEF Arranged
  <2> QED BY <1>4, <2>1 DEF Arranged
<1>7. np <= Cardinality(H) /\ last < Wrap /\ a.playerIndex = last /\ (last - 1) % Wrap = Before(last)
      /\ Before(last) \in Nat
  <2>1. np <= Cardinality(H)
    BY <1>0, <1>4, FewPlayers
  <2>2. last < Wrap
    BY <1>0, <1>6, <2>1 DEF Wrap
  <2>3. Before(last + 1) = last /\ (last - 1) % Wrap = Before(last) /\ Before(last) \in Nat
    BY <2>2, BeforeNext
  <2> QED BY <1>4, <1>6, <2>1, <2>2, <2>3
<1>8. f \in [0..(n - 1) -> Seats] /\ f[i].player
  BY <1>0, <1>4, <1>5 DEF Arranged
<1>9. /\ u = [holder |-> u.holder, id |-> u.id, at |-> u.at] /\ DOMAIN u.holder = Leaves
      /\ ids \in [Everyone -> Nat]
  BY <1>3 DEF Maps
<1>10. a = [slot |-> a.slot, capacity |-> a.capacity, index |-> a.index, count |-> a.count,
            playerIndex |-> a.playerIndex]
  BY <1>1, HolderIs
<1>11. PICK v, w : v = Exchanged(u, l, i, last) /\ w = Vacated(v, l, last)
  OBVIOUS
<1>13. PICK r : r = IF w.holder[l].capacity # 2 /\ 2 * w.holder[l].capacity > 5 * w.holder[l].count
                    THEN Shrunk(w, l) ELSE w
  OBVIOUS
<1>14. TakeOff(u, l, c) = r
  <2>1. i = u.id[c] /\ u.holder[l].slot[i].player
    BY <1>1, <1>3, <1>5, <1>8
  <2>2. last = LastPlayer(u.holder[l])
    BY <1>0, <1>1, <1>3, <1>6, <1>7 DEF Occupied, Everyone, LastPlayer
  <2>3. w = IF u.holder[l].slot[i].player THEN Vacated(Exchanged(u, l, i, last), l, last)
            ELSE Vacated(u, l, i)
    BY <1>11, <2>1
  <2>4. TakeOff(u, l, c) =
          IF w.holder[l].capacity # 2 /\ 2 * w.holder[l].capacity > 5 * w.holder[l].count
          THEN Shrunk(w, l) ELSE w
    BY <2>1, <2>2, <2>3, TakeOffIs
  <2> QED BY <1>13, <2>4, Zenon
<1>15. PICK h0 : h0 = [f EXCEPT ![i] = f[last], ![last] = f[i]]
  OBVIOUS
<1>16. PICK g0, ids2 :
          /\ HolderOf(g0, [f EXCEPT ![i] = f[last], ![last] = f[i]], a.capacity, a.index, a.count,
                      (last - 1) % Wrap)
          /\ SwapTells(f, u.id, ids2, i, last)
          /\ MapWith(u, Exchanged(u, l, i, last), l, g0, ids2)
  BY <1>1, <1>3, SwappedHolder
<1>17. HolderOf(g0, h0, n, a.index, a.count, Before(last)) /\ MapWith(u, v, l, g0, ids2)
  BY <1>2, <1>7, <1>11, <1>15, <1>16
<1>21. /\ h0 \in [0..(n - 1) -> Seats]
       /\ \A j \in 0..(n - 1) : h0[j] = IF j = last THEN f[i] ELSE IF j = i THEN f[last] ELSE f[j]
  BY <1>8, <1>15
<1>22. PICK s \in Seats : s = h0[last]
  BY <1>21
<1>23. PICK t \in Seats : t = [s EXCEPT !.creature = Off] /\ t.creature = Off
  <2>1. [s EXCEPT !.creature = Off] \in Seats /\ [s EXCEPT !.creature = Off].creature = Off
    BY <1>22 DEF Seats
  <2> QED BY <2>1
<1>24. PICK h : h = [h0 EXCEPT ![last] = t]
  OBVIOUS
<1>18. PICK g : /\ HolderOf(g, [h0 EXCEPT ![last] = [s EXCEPT !.creature = Off]], n, last,
                            a.count - 1, Before(last))
                /\ MapWith(u, Vacated(v, l, last), l, g, ids2)
  <2>1. l \in DOMAIN u.holder /\ last \in DOMAIN h0
    BY <1>9, <1>21
  <2> QED BY <1>17, <1>22, <2>1, VacatedIs
<1>25. PlayerTaken(f, h, n, ids, ids2, c, i, last)
  <2>1. h \in [0..(n - 1) -> Seats]
    BY <1>21, <1>23, <1>24
  <2>2. \A j \in 0..(n - 1) : /\ j = last => h[j].creature = Off
                              /\ j # last => h[j] = IF j = i THEN f[last] ELSE f[j]
    BY <1>21, <1>23, <1>24
  <2>3. \A d \in Everyone \ {c} : ids2[d] = IF last # i /\ d = f[last].creature THEN i ELSE ids[d]
    BY <1>3, <1>16 DEF SwapTells
  <2> QED BY <1>5, <2>1, <2>2, <2>3 DEF PlayerTaken
<1>26. Arranged(h, n, ids2, ats, H \ {c}, np - 1)
  BY <1>0, <1>4, <1>6, <1>25, TakePlayer
<1>27. PICK J : J = H \ {c}
  OBVIOUS
<1>28. Arranged(h, n, ids2, u.at, J, last)
  <2>1. Arranged(h, n, ids2, ats, J, last)
    BY <1>6, <1>26, <1>27
  <2> QED BY <1>27, <2>1, ArrangedFrame
<1>29. PICK m \in Nat : m = Cardinality(J) /\ m = a.count - 1
  <2>1. Cardinality(J) = Cardinality(H) - 1 /\ IsFiniteSet(J)
    BY <1>0, <1>27, FS_RemoveElement
  <2> QED BY <1>1, <2>1, FS_CardinalityType DEF Good
<1>30. PICK x \in Nat : x = Before(last)
  BY <1>7
<1>31. HolderOf(g, h, n, last, m, x)
  BY <1>18, <1>23, <1>24, <1>29, <1>30
<1>32. MapWith(u, w, l, g, ids2)
  BY <1>11, <1>18
<1>33. /\ ids2 \in [Everyone -> Nat] /\ last \in Nat /\ last < n
       /\ \A d \in Everyone \ (H \union J) : ids2[d] = u.id[d]
  <2>1. f[last].creature \in H
    BY <1>0, <1>4, <1>6 DEF Arranged, Everyone
  <2>2. i \in Nat
    OBVIOUS
  <2> QED BY <1>3, <1>9, <1>16, <2>1, <2>2 DEF SwapTells
<1>34. Only(u, w, l, H, J)
  BY <1>2, <1>28, <1>29, <1>30, <1>31, <1>32, <1>33, OnlyLeaf
<1>35. Only(u, r, l, H, J)
  BY <1>13, <1>27, <1>34, TakesRest
<1> QED BY <1>14, <1>27, <1>35

\* FastSpectatorHolder::remove
LEMMA TakesOff ==
  ASSUME SpectatorAssumption, NEW u \in Maps, NEW l \in Leaves, NEW H \in SUBSET Everyone,
         NEW c \in H, NEW ats, \A d \in H \ {c} : u.at[d] = ats[d],
         Good(u.holder[l], u.id, ats, H)
  PROVE  Only(u, TakeOff(u, l, c), l, H, H \ {c})
BY TakesBeast, TakesPlayer

\* FastSpectatorHolder::move
LEMMA Moves ==
  ASSUME SpectatorAssumption, NEW u \in Maps, NEW l \in Leaves, NEW H \in SUBSET Everyone,
         NEW c \in H, NEW ats, \A d \in H : d # c => u.at[d] = ats[d],
         NEW p \in Spots, u.at[c] = p, Good(u.holder[l], u.id, ats, H),
         NEW v, v = [u EXCEPT !.holder[l].slot[u.id[c]].pos = p]
  PROVE  Only(u, v, l, H, H)
<1>0. Off \notin Everyone
  BY DEF SpectatorAssumption
<1>1. PICK a \in Holders : a = u.holder[l]
  BY DEF Maps
<1>2. PICK n \in Nat : n = a.capacity /\ n >= 2 /\ n \in Powers
  BY <1>1, HolderIs
<1>3. PICK f, ids : f = a.slot /\ ids = u.id
  OBVIOUS
<1>4. PICK np \in Nat : a.playerIndex = Before(np) /\ Arranged(f, n, ids, ats, H, np)
  BY <1>1, <1>2, <1>3 DEF Good
<1>5. PICK i \in 0..(n - 1) : i = ids[c] /\ f[i].creature = c
  BY <1>4 DEF Arranged
<1>6. f \in [0..(n - 1) -> Seats]
  BY <1>4 DEF Arranged
<1>7. PICK s \in Seats : s = f[i]
  BY <1>6
<1>8. PICK t : t = [s EXCEPT !.pos = p]
  OBVIOUS
<1>9. t \in Seats /\ t.creature = s.creature /\ t.pos = p /\ t.player = s.player
  BY <1>8 DEF Seats
<1>10. PICK h : h = [f EXCEPT ![i] = t]
  OBVIOUS
<1>11. Stepped(f, h, n, ids[c], u.at[c])
  BY <1>5, <1>6, <1>7, <1>9, <1>10 DEF Stepped
<1>12. Arranged(h, n, ids, u.at, H, np)
  BY <1>0, <1>4, <1>11, StepWithin
<1>13. PICK g : g = [a EXCEPT !.slot[i].pos = p]
  OBVIOUS
<1>14. a = [slot |-> a.slot, capacity |-> a.capacity, index |-> a.index, count |-> a.count,
            playerIndex |-> a.playerIndex]
  BY <1>1, HolderIs
<1>15. g = [slot |-> h, capacity |-> n, index |-> a.index, count |-> a.count,
            playerIndex |-> a.playerIndex]
  <2>1. h = [f EXCEPT ![i].pos = p]
    BY <1>7, <1>8, <1>10
  <2> QED BY <1>2, <1>3, <1>13, <1>14, <2>1
<1>16. /\ u = [holder |-> u.holder, id |-> u.id, at |-> u.at] /\ DOMAIN u.holder = Leaves
       /\ ids \in [Everyone -> Nat]
  BY <1>3 DEF Maps
<1>17. v = [u EXCEPT !.holder[l] = g]
  BY <1>1, <1>3, <1>5, <1>13
<1>18. v = [holder |-> [u.holder EXCEPT ![l] = g], id |-> ids, at |-> u.at]
  BY <1>3, <1>16, <1>17
<1>19. MapWith(u, v, l, g, ids)
  BY <1>18, Zenon DEF MapWith
<1>20. HolderOf(g, h, n, a.index, a.count, a.playerIndex)
  BY <1>15, Zenon DEF HolderOf
<1>21. /\ a.index \in Nat /\ a.index < n /\ a.count \in Nat /\ a.count = Cardinality(H)
       /\ a.playerIndex \in Nat /\ \A d \in Everyone \ (H \union H) : ids[d] = u.id[d]
  BY <1>1, <1>2, <1>3, HolderIs DEF Good
<1> QED BY <1>2, <1>4, <1>12, <1>16, <1>19, <1>20, <1>21, OnlyLeaf

\* The creatures in leaf l.
Within(u, l) == {c \in Everyone : u.at[c] # Off /\ LeafOf[u.at[c]] = l}

\* Every leaf's array holds the creatures that are there.
SpectatorInv ==
  /\ map \in Maps
  /\ \A l \in Leaves : Good(map.holder[l], map.id, map.at, Within(map, l))

\* A holder only depends on the slots and spots of its own creatures.
LEMMA GoodFrame ==
  ASSUME NEW a, NEW ids, NEW ats, NEW ids2, NEW ats2, NEW H, Good(a, ids, ats, H),
         \A c \in H : ids2[c] = ids[c] /\ ats2[c] = ats[c]
  PROVE  Good(a, ids2, ats2, H)
BY ArrangedFrame DEF Good

\* What changes one leaf leaves the others as they are.
LEMMA OthersKept ==
  ASSUME NEW u, NEW v, NEW l, NEW H, NEW J, Only(u, v, l, H, J),
         NEW k \in Leaves, k # l, NEW K \in SUBSET Everyone, K \intersect (H \union J) = {},
         Good(u.holder[k], u.id, u.at, K)
  PROVE  Good(v.holder[k], v.id, v.at, K)
<1>1. v.holder[k] = u.holder[k] /\ \A c \in K : v.id[c] = u.id[c] /\ v.at[c] = u.at[c]
  BY DEF Only
<1> QED BY <1>1, GoodFrame

\* What moves creature c changes where it is, and nothing else yet.
LEMMA AtIs ==
  ASSUME NEW u \in Maps, NEW c \in Everyone, NEW p \in Spots \union {Off},
         NEW v, v = [u EXCEPT !.at[c] = p]
  PROVE  /\ v \in Maps /\ v.holder = u.holder /\ v.id = u.id /\ v.at[c] = p
         /\ \A d \in Everyone : d # c => v.at[d] = u.at[d]
BY DEF Maps

\* At first there is nobody.
LEMMA SpectatorInvInit == SpectatorAssumption /\ SpectatorInit => SpectatorInv
<1> SUFFICES ASSUME SpectatorAssumption, SpectatorInit PROVE SpectatorInv
  OBVIOUS
<1>1. PICK f : f = [i \in 0..1 |-> Free]
  OBVIOUS
<1>2. f \in [0..(2 - 1) -> Seats]
  <2>1. Free \in Seats
    BY DEF Free, Seats
  <2> QED BY <1>1, <2>1
<1>3. NoSlots \in Holders
  <2>1. 2 \in Powers
    BY PowersHalve
  <2> QED BY <1>1, <1>2, <2>1 DEF NoSlots, Holders, Wrap
<1>4. map \in Maps
  BY <1>3 DEF SpectatorInit, Maps
<1>5. \A l \in Leaves : Within(map, l) = {}
  BY DEF SpectatorInit, Within
<1>6. Arranged(f, 2, map.id, map.at, {}, 0)
  <2>1. \A i \in 0..(2 - 1) : f[i].creature = Off
    BY <1>1 DEF Free
  <2>2. Off \notin Watchers
    BY DEF SpectatorAssumption, Everyone
  <2> QED BY <1>2, <2>1, <2>2 DEF Arranged
<1>7. Good(NoSlots, map.id, map.at, {})
  <2>1. /\ NoSlots.slot = f /\ NoSlots.capacity = 2 /\ NoSlots.index = 0 /\ NoSlots.count = 0
        /\ NoSlots.playerIndex = Before(0)
    BY <1>1 DEF NoSlots, Before
  <2>2. Cardinality({}) = 0
    BY FS_EmptySet
  <2> QED BY <1>6, <2>1, <2>2 DEF Good
<1>8. \A l \in Leaves : map.holder[l] = NoSlots
  BY DEF SpectatorInit
<1> QED BY <1>4, <1>5, <1>7, <1>8 DEF SpectatorInv

\* Map::placeCreature
LEMMA InvAppear ==
  ASSUME SpectatorAssumption, SpectatorInv, NEW c \in Everyone, NEW p \in Spots, AppearAt(c, p)
  PROVE  SpectatorInv'
<1>1. PICK l \in Leaves : l = LeafOf[p]
  BY DEF Leaves
<1>2. PICK u : u = [map EXCEPT !.at[c] = p]
  OBVIOUS
<1>3. /\ u \in Maps /\ u.holder = map.holder /\ u.id = map.id /\ u.at[c] = p
      /\ \A d \in Everyone : d # c => u.at[d] = map.at[d]
  BY <1>2, AtIs DEF SpectatorInv
<1>4. PICK H \in SUBSET Everyone : H = Within(map, l)
  BY DEF Within
<1>5. c \notin H /\ map.at[c] = Off
  BY <1>4 DEF AppearAt, Within
<1>6. Good(u.holder[l], u.id, u.at, H)
  <2>1. Good(map.holder[l], map.id, map.at, H)
    BY <1>4 DEF SpectatorInv
  <2> QED BY <1>3, <1>5, <2>1, GoodFrame
<1>7. Only(u, map', l, H, H \union {c})
  <2>1. Only(u, Add(u, l, c, p), l, H, H \union {c})
    BY <1>3, <1>5, <1>6, Adds
  <2>2. map' = Add(u, l, c, p)
    BY <1>1, <1>2, Zenon DEF AppearAt
  <2> QED BY <2>1, <2>2
<1>8. map' \in Maps /\ map'.at = u.at /\ p # Off
  BY <1>7 DEF Only, SpectatorAssumption
<1>9. ASSUME NEW k \in Leaves PROVE Good(map'.holder[k], map'.id, map'.at, Within(map', k))
  <2>1. CASE k = l
    <3>1. Within(map', l) = H \union {c}
      BY <1>1, <1>3, <1>4, <1>5, <1>8 DEF Within
    <3> QED BY <1>7, <2>1, <3>1 DEF Only
  <2>2. CASE k # l
    <3>1. PICK K \in SUBSET Everyone : K = Within(map, k)
      BY DEF Within
    <3>2. Within(map', k) = K /\ K \intersect (H \union (H \union {c})) = {} /\ c \notin K
      BY <1>1, <1>3, <1>4, <1>5, <1>8, <2>2, <3>1 DEF Within
    <3>3. Good(u.holder[k], u.id, u.at, K)
      <4>1. Good(map.holder[k], map.id, map.at, K)
        BY <3>1 DEF SpectatorInv
      <4> QED BY <1>3, <3>2, <4>1, GoodFrame
    <3>4. Good(map'.holder[k], map'.id, map'.at, K)
      BY <1>7, <2>2, <3>2, <3>3, OthersKept
    <3> QED BY <3>2, <3>4
  <2> QED BY <2>1, <2>2
<1> QED BY <1>8, <1>9 DEF SpectatorInv

\* Tile::removeCreature
LEMMA InvVanish ==
  ASSUME SpectatorAssumption, SpectatorInv, NEW c \in Everyone, Vanish(c)
  PROVE  SpectatorInv'
<1>1. PICK p \in Spots : p = map.at[c]
  BY DEF SpectatorInv, Maps, Vanish
<1>2. PICK l \in Leaves : l = LeafOf[p]
  BY DEF Leaves
<1>3. PICK u : u = [map EXCEPT !.at[c] = Off]
  OBVIOUS
<1>4. /\ u \in Maps /\ u.holder = map.holder /\ u.id = map.id /\ u.at[c] = Off
      /\ \A d \in Everyone : d # c => u.at[d] = map.at[d]
  BY <1>3, AtIs DEF SpectatorInv
<1>5. PICK H \in SUBSET Everyone : H = Within(map, l)
  BY DEF Within
<1>6. c \in H
  BY <1>1, <1>2, <1>5 DEF Vanish, Within
<1>7. Only(u, map', l, H, H \ {c})
  <2>1. Good(u.holder[l], u.id, map.at, H) /\ \A d \in H \ {c} : u.at[d] = map.at[d]
    BY <1>4, <1>5 DEF SpectatorInv
  <2>2. Only(u, TakeOff(u, l, c), l, H, H \ {c})
    BY <1>4, <1>6, <2>1, TakesOff
  <2>3. map' = TakeOff(u, l, c)
    BY <1>1, <1>2, <1>3, Zenon DEF Vanish
  <2> QED BY <2>2, <2>3
<1>8. map' \in Maps /\ map'.at = u.at
  BY <1>7 DEF Only
<1>9. ASSUME NEW k \in Leaves PROVE Good(map'.holder[k], map'.id, map'.at, Within(map', k))
  <2>1. CASE k = l
    <3>1. Within(map', l) = H \ {c}
      BY <1>4, <1>5, <1>8 DEF Within
    <3> QED BY <1>7, <2>1, <3>1 DEF Only
  <2>2. CASE k # l
    <3>1. PICK K \in SUBSET Everyone : K = Within(map, k)
      BY DEF Within
    <3>2. Within(map', k) = K /\ K \intersect (H \union (H \ {c})) = {} /\ c \notin K
      BY <1>1, <1>2, <1>4, <1>5, <1>6, <1>8, <2>2, <3>1 DEF Within
    <3>3. Good(u.holder[k], u.id, u.at, K)
      <4>1. Good(map.holder[k], map.id, map.at, K)
        BY <3>1 DEF SpectatorInv
      <4> QED BY <1>4, <3>2, <4>1, GoodFrame
    <3>4. Good(map'.holder[k], map'.id, map'.at, K)
      BY <1>7, <2>2, <3>2, <3>3, OthersKept
    <3> QED BY <3>2, <3>4
  <2> QED BY <2>1, <2>2
<1> QED BY <1>8, <1>9 DEF SpectatorInv

\* Map::moveCreature within a leaf
LEMMA InvMoves ==
  ASSUME SpectatorAssumption, SpectatorInv, NEW c \in Everyone, NEW p \in Spots,
         map.at[c] \in Spots, LeafOf[map.at[c]] = LeafOf[p], GoTo(c, p)
  PROVE  SpectatorInv'
<1>0. Off \notin Spots /\ p # Off
  BY DEF SpectatorAssumption
<1>1. PICK l \in Leaves : l = LeafOf[p]
  BY DEF Leaves
<1>2. PICK u : u = [map EXCEPT !.at[c] = p]
  OBVIOUS
<1>3. /\ u \in Maps /\ u.holder = map.holder /\ u.id = map.id /\ u.at[c] = p
      /\ \A d \in Everyone : d # c => u.at[d] = map.at[d]
  BY <1>2, AtIs DEF SpectatorInv
<1>4. PICK H \in SUBSET Everyone : H = Within(map, l)
  BY DEF Within
<1>5. c \in H
  BY <1>0, <1>1, <1>4 DEF Within
<1>6. Only(u, map', l, H, H)
  <2>1. Good(u.holder[l], u.id, map.at, H) /\ \A d \in H : d # c => u.at[d] = map.at[d]
    BY <1>3, <1>4 DEF SpectatorInv
  <2>2. map' = [u EXCEPT !.holder[l].slot[u.id[c]].pos = p]
    <3>1. map' = [u EXCEPT !.holder[l].slot[map.id[c]].pos = p]
      BY <1>1, <1>2, Zenon DEF GoTo
    <3> QED BY <1>3, <3>1
  <2> QED BY <1>3, <1>5, <2>1, <2>2, Moves
<1>7. map' \in Maps /\ map'.at = u.at
  BY <1>6 DEF Only
<1>8. ASSUME NEW k \in Leaves PROVE Good(map'.holder[k], map'.id, map'.at, Within(map', k))
  <2>1. CASE k = l
    <3>1. Within(map', l) = H
      BY <1>0, <1>1, <1>3, <1>4, <1>5, <1>7 DEF Within
    <3> QED BY <1>6, <2>1, <3>1 DEF Only
  <2>2. CASE k # l
    <3>1. PICK K \in SUBSET Everyone : K = Within(map, k)
      BY DEF Within
    <3>2. Within(map', k) = K /\ K \intersect (H \union H) = {} /\ c \notin K
      BY <1>0, <1>1, <1>3, <1>4, <1>5, <1>7, <2>2, <3>1 DEF Within
    <3>3. Good(u.holder[k], u.id, u.at, K)
      <4>1. Good(map.holder[k], map.id, map.at, K)
        BY <3>1 DEF SpectatorInv
      <4> QED BY <1>3, <3>2, <4>1, GoodFrame
    <3>4. Good(map'.holder[k], map'.id, map'.at, K)
      BY <1>6, <2>2, <3>2, <3>3, OthersKept
    <3> QED BY <3>2, <3>4
  <2> QED BY <2>1, <2>2
<1> QED BY <1>7, <1>8 DEF SpectatorInv

\* Map::moveCreature from one leaf to another
LEMMA InvCrosses ==
  ASSUME SpectatorAssumption, SpectatorInv, NEW c \in Everyone, NEW p \in Spots,
         map.at[c] \in Spots, LeafOf[map.at[c]] # LeafOf[p], GoTo(c, p)
  PROVE  SpectatorInv'
<1>0. Off \notin Spots /\ p # Off
  BY DEF SpectatorAssumption
<1>1. PICK l \in Leaves : l = LeafOf[p]
  BY DEF Leaves
<1>2. PICK m \in Leaves : m = LeafOf[map.at[c]]
  BY DEF Leaves
<1>3. PICK u : u = [map EXCEPT !.at[c] = p]
  OBVIOUS
<1>4. /\ u \in Maps /\ u.holder = map.holder /\ u.id = map.id /\ u.at[c] = p
      /\ \A d \in Everyone : d # c => u.at[d] = map.at[d]
  BY <1>3, AtIs DEF SpectatorInv
<1>5. PICK H \in SUBSET Everyone : H = Within(map, l)
  BY DEF Within
<1>6. PICK J \in SUBSET Everyone : J = Within(map, m)
  BY DEF Within
<1>7. m # l /\ c \in J /\ c \notin H /\ J \intersect H = {}
  BY <1>0, <1>1, <1>2, <1>5, <1>6 DEF Within
<1>8. PICK w : w = TakeOff(u, m, c)
  OBVIOUS
<1>9. Only(u, w, m, J, J \ {c})
  <2>1. Good(u.holder[m], u.id, map.at, J) /\ \A d \in J \ {c} : u.at[d] = map.at[d]
    BY <1>4, <1>6 DEF SpectatorInv
  <2> QED BY <1>4, <1>7, <1>8, <2>1, TakesOff
<1>10. w \in Maps /\ w.at = u.at /\ w.at[c] = p
  BY <1>4, <1>9 DEF Only
<1>11. Good(w.holder[l], w.id, w.at, H)
  <2>1. Good(u.holder[l], u.id, u.at, H)
    <3>1. Good(map.holder[l], map.id, map.at, H)
      BY <1>5 DEF SpectatorInv
    <3> QED BY <1>4, <1>7, <3>1, GoodFrame
  <2>2. H \intersect (J \union (J \ {c})) = {}
    BY <1>7
  <2> QED BY <1>7, <1>9, <2>1, <2>2, OthersKept
<1>12. Only(w, map', l, H, H \union {c})
  <2>1. Only(w, Add(w, l, c, p), l, H, H \union {c})
    BY <1>7, <1>10, <1>11, Adds
  <2>2. map' = Add(w, l, c, p)
    BY <1>1, <1>2, <1>3, <1>7, <1>8, Zenon DEF GoTo
  <2> QED BY <2>1, <2>2
<1>13. map' \in Maps /\ map'.at = u.at
  BY <1>10, <1>12 DEF Only
<1>14. ASSUME NEW k \in Leaves PROVE Good(map'.holder[k], map'.id, map'.at, Within(map', k))
  <2>1. CASE k = l
    <3>1. Within(map', l) = H \union {c}
      BY <1>0, <1>1, <1>4, <1>5, <1>7, <1>13 DEF Within
    <3> QED BY <1>12, <2>1, <3>1 DEF Only
  <2>2. CASE k = m
    <3>1. Within(map', m) = J \ {c}
      BY <1>1, <1>4, <1>6, <1>7, <1>13 DEF Within
    <3>2. Good(w.holder[m], w.id, w.at, J \ {c})
      BY <1>9 DEF Only
    <3>3. (J \ {c}) \intersect (H \union (H \union {c})) = {}
      BY <1>7
    <3>4. Good(map'.holder[m], map'.id, map'.at, J \ {c})
      BY <1>7, <1>12, <3>2, <3>3, OthersKept
    <3> QED BY <2>2, <3>1, <3>4
  <2>3. CASE k # l /\ k # m
    <3>1. PICK K \in SUBSET Everyone : K = Within(map, k)
      BY DEF Within
    <3>2. Within(map', k) = K /\ c \notin K
      BY <1>1, <1>2, <1>4, <1>7, <1>13, <2>3, <3>1 DEF Within
    <3>3. K \intersect (H \union (H \union {c})) = {} /\ K \intersect (J \union (J \ {c})) = {}
      BY <1>5, <1>6, <2>3, <3>1, <3>2 DEF Within
    <3>4. Good(u.holder[k], u.id, u.at, K)
      <4>1. Good(map.holder[k], map.id, map.at, K)
        BY <3>1 DEF SpectatorInv
      <4> QED BY <1>4, <3>2, <4>1, GoodFrame
    <3>5. Good(w.holder[k], w.id, w.at, K)
      BY <1>9, <2>3, <3>3, <3>4, OthersKept
    <3>6. Good(map'.holder[k], map'.id, map'.at, K)
      BY <1>12, <2>3, <3>3, <3>5, OthersKept
    <3> QED BY <3>2, <3>6
  <2> QED BY <2>1, <2>2, <2>3
<1> QED BY <1>13, <1>14 DEF SpectatorInv

\* SpectatorInv is inductive.
LEMMA SpectatorInvNext == SpectatorAssumption /\ SpectatorInv /\ [SpectatorNext]_map => SpectatorInv'
<1> SUFFICES ASSUME SpectatorAssumption, SpectatorInv, [SpectatorNext]_map PROVE SpectatorInv'
  OBVIOUS
<1>1. CASE UNCHANGED map
  BY <1>1 DEF SpectatorInv, Within
<1>2. ASSUME NEW c \in Everyone, Vanish(c) PROVE SpectatorInv'
  BY <1>2, InvVanish
<1>3. ASSUME NEW c \in Everyone, NEW p \in Spots, AppearAt(c, p) PROVE SpectatorInv'
  BY <1>3, InvAppear
<1>4. ASSUME NEW c \in Everyone, NEW p \in Spots, GoTo(c, p) PROVE SpectatorInv'
  <2>1. map.at[c] \in Spots
    BY <1>4 DEF GoTo, SpectatorInv, Maps
  <2> QED BY <1>4, <2>1, InvMoves, InvCrosses
<1> QED BY <1>1, <1>2, <1>3, <1>4 DEF SpectatorNext

\* Those that a search is for.
Sought(onlyPlayers) == IF onlyPlayers THEN Watchers ELSE Everyone

\* The hits in a leaf that holds the creatures H are slots of those sought,
\* and the slots of all of them.
OnlySought(a, ids, ats, H, range, onlyPlayers) ==
  \A i \in Hits(a, range, onlyPlayers) :
    /\ a.slot[i].creature \in H \intersect Sought(onlyPlayers)
    /\ ats[a.slot[i].creature] \in range /\ ids[a.slot[i].creature] = i
AllSought(a, ids, ats, H, range, onlyPlayers) ==
  \A c \in H \intersect Sought(onlyPlayers) : ats[c] \in range =>
    ids[c] \in Hits(a, range, onlyPlayers) /\ a.slot[ids[c]].creature = c

\* What Hits finds in a leaf.
LEMMA HitsAre ==
  ASSUME SpectatorAssumption, NEW a, NEW ids, NEW ats, NEW H \in SUBSET Everyone,
         Good(a, ids, ats, H), a.capacity \in Nat,
         NEW range \in SUBSET Spots, NEW onlyPlayers \in BOOLEAN
  PROVE  OnlySought(a, ids, ats, H, range, onlyPlayers) /\ AllSought(a, ids, ats, H, range, onlyPlayers)
<1>0. Off \notin Everyone /\ Watchers \subseteq Everyone
  BY DEF SpectatorAssumption, Everyone
<1>1. PICK f : f = a.slot
  OBVIOUS
<1>2. PICK n \in Nat : n = a.capacity
  OBVIOUS
<1>3. PICK np \in Nat : Arranged(f, n, ids, ats, H, np)
  BY <1>1, <1>2 DEF Good
<1>4. f \in [0..(n - 1) -> Seats]
  BY <1>3 DEF Arranged
<1>5. ASSUME NEW i \in Hits(a, range, onlyPlayers)
      PROVE  /\ f[i].creature \in H \intersect Sought(onlyPlayers)
             /\ ats[f[i].creature] \in range /\ ids[f[i].creature] = i
  <2>1. i \in 0..(n - 1) /\ f[i].creature # Off /\ f[i].pos \in range
    BY <1>1, <1>4 DEF Hits, Occupied
  <2>2. onlyPlayers => f[i].player
    <3>1. i \in 0..i
      BY <2>1
    <3> QED BY <1>1, <2>1, <3>1 DEF Hits, Occupied
  <2>3. /\ f[i].creature \in H /\ ids[f[i].creature] = i /\ ats[f[i].creature] \in range
        /\ f[i].player <=> f[i].creature \in Watchers
    BY <1>3, <2>1 DEF Arranged
  <2> QED BY <2>2, <2>3 DEF Sought
<1>6. ASSUME NEW c \in H \intersect Sought(onlyPlayers), ats[c] \in range
      PROVE  ids[c] \in Hits(a, range, onlyPlayers) /\ f[ids[c]].creature = c
  <2>1. PICK i \in 0..(n - 1) : i = ids[c] /\ f[i].creature = c
    BY <1>3 DEF Arranged
  <2>2. c # Off /\ f[i].pos \in range
    BY <1>0, <1>3, <1>6, <2>1 DEF Arranged
  <2>3. ASSUME onlyPlayers, NEW j \in 0..i PROVE f[j].player
    <3>1. i < np
      BY <1>3, <2>1, <2>3 DEF Arranged, Sought
    <3>2. j \in 0..(n - 1) /\ j < np
      BY <2>1, <3>1
    <3>3. f[j].creature \in Watchers
      BY <1>3, <3>2 DEF Arranged
    <3>4. f[j].creature # Off
      BY <1>0, <3>3
    <3> QED BY <1>3, <3>2, <3>3, <3>4 DEF Arranged
  <2>4. i \in DOMAIN f
    BY <1>4
  <2> QED BY <1>1, <2>1, <2>2, <2>3, <2>4 DEF Hits, Occupied
<1> QED BY <1>1, <1>5, <1>6 DEF OnlySought, AllSought

\* What SpectatorInv says of a search.
LEMMA InvFinds == SpectatorAssumption /\ SpectatorInv => EveryoneFound
<1> SUFFICES ASSUME SpectatorAssumption, SpectatorInv,
                    NEW range \in SUBSET Spots, NEW onlyPlayers \in BOOLEAN
             PROVE  LET there == {c \in Sought(onlyPlayers) : map.at[c] \in range}
                        hits == UNION {{<<l, i>> : i \in Hits(map.holder[l], range, onlyPlayers)} :
                                       l \in Leaves}
                    IN /\ {map.holder[hit[1]].slot[hit[2]].creature : hit \in hits} = there
                       /\ Cardinality(hits) = Cardinality(there)
  BY Zenon DEF EveryoneFound, Sought
<1> DEFINE there == {c \in Sought(onlyPlayers) : map.at[c] \in range}
           hits == UNION {{<<l, i>> : i \in Hits(map.holder[l], range, onlyPlayers)} : l \in Leaves}
           Who(hit) == map.holder[hit[1]].slot[hit[2]].creature
           Where(c) == <<LeafOf[map.at[c]], map.id[c]>>
<1>1. Sought(onlyPlayers) \subseteq Everyone /\ Off \notin Spots
  BY DEF Sought, Everyone, SpectatorAssumption
<1>2. ASSUME NEW l \in Leaves, NEW i \in Hits(map.holder[l], range, onlyPlayers)
      PROVE  Who(<<l, i>>) \in there /\ Where(Who(<<l, i>>)) = <<l, i>>
  <2>1. PICK H \in SUBSET Everyone : H = Within(map, l)
    BY DEF Within
  <2>2. Good(map.holder[l], map.id, map.at, H) /\ map.holder[l].capacity \in Nat
    <3>1. map.holder[l] \in Holders
      BY DEF SpectatorInv, Maps
    <3> QED BY <2>1, <3>1, HolderIs DEF SpectatorInv
  <2>3. PICK c : c = map.holder[l].slot[i].creature
    OBVIOUS
  <2>4. c \in H \intersect Sought(onlyPlayers) /\ map.at[c] \in range /\ map.id[c] = i
    <3>1. OnlySought(map.holder[l], map.id, map.at, H, range, onlyPlayers)
      BY <2>2, HitsAre
    <3> QED BY <2>3, <3>1 DEF OnlySought
  <2>5. LeafOf[map.at[c]] = l
    BY <2>1, <2>4 DEF Within
  <2> QED BY <2>3, <2>4, <2>5
<1>3. ASSUME NEW c \in there
      PROVE  Where(c) \in hits /\ Who(Where(c)) = c
  <2>1. map.at[c] \in Spots /\ map.at[c] # Off /\ c \in Everyone
    BY <1>1
  <2>2. PICK l \in Leaves : l = LeafOf[map.at[c]]
    BY <2>1 DEF Leaves
  <2>3. PICK H \in SUBSET Everyone : H = Within(map, l)
    BY DEF Within
  <2>4. Good(map.holder[l], map.id, map.at, H) /\ map.holder[l].capacity \in Nat
    <3>1. map.holder[l] \in Holders
      BY DEF SpectatorInv, Maps
    <3> QED BY <2>3, <3>1, HolderIs DEF SpectatorInv
  <2>5. c \in H \intersect Sought(onlyPlayers) /\ map.at[c] \in range
    BY <2>1, <2>2, <2>3 DEF Within
  <2>6. PICK i : i = map.id[c]
    OBVIOUS
  <2>7. i \in Hits(map.holder[l], range, onlyPlayers) /\ map.holder[l].slot[i].creature = c
    <3>1. AllSought(map.holder[l], map.id, map.at, H, range, onlyPlayers)
      BY <2>4, HitsAre
    <3> QED BY <2>5, <2>6, <3>1 DEF AllSought
  <2>8. Where(c) = <<l, i>>
    BY <2>2, <2>6, Zenon
  <2> QED BY <2>7, <2>8
<1>4. ASSUME NEW hit \in hits PROVE Who(hit) \in there /\ Where(Who(hit)) = hit
  <2>1. PICK l \in Leaves : hit \in {<<l, i>> : i \in Hits(map.holder[l], range, onlyPlayers)}
    OBVIOUS
  <2>2. PICK i \in Hits(map.holder[l], range, onlyPlayers) : hit = <<l, i>>
    BY <2>1
  <2> QED BY <1>2, <2>2
<1>5. IsFiniteSet(there)
  BY <1>1, FS_Subset DEF SpectatorAssumption
<1> HIDE DEF there, hits, Who, Where
<1>6. {Who(hit) : hit \in hits} = there
  BY <1>3, <1>4
<1>7. Cardinality(hits) = Cardinality(there)
  <2>1. PICK g : g = [c \in there |-> Where(c)]
    OBVIOUS
  <2>2. g \in [there -> hits] /\ \A c \in there : g[c] = Where(c)
    BY <1>3, <2>1
  <2>3. \A c, e \in there : g[c] = g[e] => c = e
    BY <1>3, <2>2
  <2>4. \A hit \in hits : \E c \in there : g[c] = hit
    BY <1>4, <2>2
  <2>5. g \in Injection(there, hits)
    <3>1. DOMAIN g = there
      BY <2>2
    <3> QED BY <2>2, <2>3, <3>1 DEF Injection, IsInjective
  <2>6. g \in Surjection(there, hits)
    BY <2>2, <2>4 DEF Surjection
  <2> QED BY <1>5, <2>5, <2>6, FS_Bijection DEF Bijection, ExistsBijection
<1> QED BY <1>6, <1>7 DEF there, hits, Who

\* map.cpp 852-964 and Map::getSpectators: whatever came, went and moved, a search of
\* the leaves finds everyone in its range, or every player, once and nobody else.
THEOREM EveryoneFoundHolds == SpectatorSpec => []EveryoneFound
<1>1. SpectatorInit => SpectatorInv
  BY SpectatorAssumption, SpectatorInvInit
<1>2. SpectatorInv /\ [SpectatorNext]_map => SpectatorInv'
  BY SpectatorAssumption, SpectatorInvNext
<1>3. SpectatorInv => EveryoneFound
  BY SpectatorAssumption, InvFinds
<1> QED BY <1>1, <1>2, <1>3, PTL DEF SpectatorSpec
=============================================================================
