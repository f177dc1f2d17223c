-------------------------------- MODULE World --------------------------------
(***************************************************************************)
(* Trades and parties of players who come and go: Game::placeCreature and  *)
(* Player::onRemoveCreature (player.cpp 1393-1450), which closes the trade *)
(* first, then withdraws the invitations, then leaves the party, before    *)
(* the Player object may be freed.                                         *)
(***************************************************************************)
EXTENDS Trade, Party

vars == <<online, alive, tradeVars, groups>>

Init == OnlineInit /\ TradeInit /\ PartyInit

Login(p) ==
  /\ p \notin online
  /\ online' = online \union {p}
  /\ TradeLogin(p)
  /\ PartyLogin(p)
  /\ UNCHANGED alive

Logout(p) ==
  /\ p \in online
  /\ online' = online \ {p}
  /\ TradeLogout(p)
  /\ PartyLogout(p)
  /\ UNCHANGED alive

Next ==
  /\ alive
  /\ \/ TradeNext /\ UNCHANGED groups
     \/ (\E i \in Items : RemoveItem(i)) /\ UNCHANGED groups
     \/ PartyNext /\ UNCHANGED tradeVars
     \/ \E p \in Players : Login(p) \/ Logout(p)

Spec == Init /\ [][Next]_vars

\* Types of the whole: every item is somewhere and no bag inside itself
\* (Container::queryAdd), every trade in one of its states.
TypeOK ==
  /\ online \subseteq Players /\ alive \in BOOLEAN
  /\ at \in [Items -> Players \union Bags \union {Ground, Nowhere}]
  /\ \A i \in Items : Top(i) \notin Items
  /\ trade \in [Players -> [state : States, partner : Players \union {None},
                            item : Items \union {None}]]
  /\ tradeItems \in [Items -> Players \union {None}]
  /\ shown \in [Players -> SUBSET Items]
  /\ groups.of \in [Players -> PartyIds \union {None}]
  /\ groups.invites \in [Players -> SUBSET PartyIds]
=============================================================================
