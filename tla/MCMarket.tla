------------------------------ MODULE MCMarket ------------------------------
(***************************************************************************)
(* Market for TLC: Anna has two pieces of goods and the gold for the fees, *)
(* Bert one store coin and the gold to buy two pieces.                     *)
(***************************************************************************)
EXTENDS Market, TLC

CONSTANTS anna, bert

MCStartPurse ==
  (anna :> [gold |-> 2, goods |-> 2, coins |-> 0]) @@
  (bert :> [gold |-> 5, goods |-> 0, coins |-> 0])

MCStartCoins == (anna :> 0) @@ (bert :> 1)
=============================================================================
