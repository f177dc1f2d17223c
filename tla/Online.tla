------------------------------- MODULE Online -------------------------------
(***************************************************************************)
(* What Trade and Party share: the characters that have a Player object in *)
(* Game::players, and the server process they live in.                     *)
(***************************************************************************)
EXTENDS Naturals, Sequences, FiniteSets, FiniteSetsExt

CONSTANTS
  Players,
  None          \* no player, item or party

ASSUME OnlineAssumption == IsFiniteSet(Players) /\ None \notin Players

VARIABLES
  online,       \* players with a Player object
  alive         \* whether the server process runs

OnlineInit == online = {} /\ alive = TRUE
=============================================================================
