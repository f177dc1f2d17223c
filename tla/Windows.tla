------------------------------- MODULE Windows -------------------------------
(***************************************************************************)
(* The containers that players have open, and the fields they browse       *)
(* (Player::openContainers; Game::browseFields).                           *)
(*                                                                         *)
(* An open window is a bare pointer to a container.  What keeps it from    *)
(* outliving the container, or the player's reach, is that everything that *)
(* moves or removes one tells those who stand by, and that a player who    *)
(* moves looks through his windows himself.  To browse a field makes a     *)
(* container for it, that lives as long as it is open somewhere, and half  *)
(* a minute at least: it is counted, and lists the things that lie there.  *)
(*                                                                         *)
(* Places are tiles on a line.  Every thing is a bag; depots, inboxes and  *)
(* reward chests, which have owners, are left out, and so is an item that  *)
(* a change of its kind or of its attributes makes immovable.              *)
(***************************************************************************)
EXTENDS Integers, FiniteSets, FiniteSetsExt

CONSTANTS
  Openers, Carriers,   \* players who open windows, and who only carry bags about
  Sacks,               \* the bags
  Fields,              \* the tiles, integers
  Cids, DummyCid,      \* the windows of a player; the one for browsing a field
  MaxLeaks,            \* Bound: how many windows on fields are lost by logging out
  Away                 \* no tile, no window, no holder

ASSUME WindowsAssumption ==
  /\ Fields \subseteq Int /\ Cids \subseteq Nat /\ DummyCid \in [Fields -> Cids] /\ MaxLeaks \in Nat
  /\ IsFiniteSet(Openers) /\ IsFiniteSet(Cids)
  /\ Away \notin Sacks \union Fields \union Openers \union Carriers
  /\ Sacks \intersect (Fields \union Openers \union Carriers) = {}
  /\ Fields \intersect (Openers \union Carriers) = {} /\ Openers \intersect Carriers = {}

VARIABLES
  ui   \* pos of each opener, at (where each bag is), win (his windows); of each tile
       \* refs (of its browse container, 0 for none), list (what it lists), timer,
       \* and the history of lost references (leaked)

WindowsInit ==
  ui = [pos |-> [p \in Openers |-> Away], at |-> [b \in Sacks |-> Away],
        win |-> [p \in Openers |-> [c \in Cids |-> Away]],
        refs |-> [t \in Fields |-> 0], list |-> [t \in Fields |-> {}],
        timer |-> [t \in Fields |-> FALSE], leaked |-> [t \in Fields |-> 0]]

Within1(u, p, t) == u.pos[p] # Away /\ u.pos[p] - t \in -1..1

\* A container and the bags around it, each with the bag it is in.
ClosedUp(u, S) == \A y \in S : u.at[y] \in Sacks => u.at[y] \in S
Parents(u, b) ==
  IF b \in Sacks THEN {x \in Sacks : \A S \in SUBSET Sacks : b \in S /\ ClosedUp(u, S) => x \in S}
  ELSE {b}

\* The tile or player that has the outermost.
TopParent(u, b) ==
  IF b \in Sacks THEN CHOOSE t \in {u.at[x] : x \in Parents(u, b)} : t \notin Sacks ELSE b
IsRemoved(u, b) == TopParent(u, b) = Away

Reaches(u, p, b) ==
  LET top == TopParent(u, b) IN top = p \/ (top \in Fields /\ Within1(u, p, top))

-----------------------------------------------------------------------------
(* What the operations do to the windows u *)

\* Item::decrementReferenceCounter of a browse container, and Container::~Container
Dropped(u, x) ==
  IF x \notin Fields THEN u
  ELSE [u EXCEPT !.refs[x] = @ - 1, !.list[x] = IF u.refs[x] = 1 THEN {} ELSE @]

\* Player::closeContainer and Player::addContainer
CloseContainer(u, p, c) == Dropped([u EXCEPT !.win[p][c] = Away], u.win[p][c])
AddContainer(u, p, c, x) ==
  LET counted == IF x \in Fields THEN [u EXCEPT !.refs[x] = @ + 1] ELSE u
  IN Dropped([counted EXCEPT !.win[p][c] = x], u.win[p][c])

CloseAll(u, p, cids) == FoldSet(LAMBDA c, v : CloseContainer(v, p, c), u, cids)

\* (Mutant: a window on what is in the bag stays open.)
AutoCloseContainers_Itself(u, p, x) ==
  CloseAll(u, p, {c \in Cids : u.win[p][c] = x})

\* Player::autoCloseContainers: with x, everything in it.
AutoCloseContainers(u, p, x) ==
  CloseAll(u, p, {c \in Cids : u.win[p][c] # Away /\
                    (x \in Parents(u, u.win[p][c]) \/ IsRemoved(u, u.win[p][c]))})

\* Player::postRemoveNotification of a bag
PostRemove(u, p, b) == IF Reaches(u, p, b) THEN u ELSE AutoCloseContainers(u, p, b)

\* Container::postRemoveNotification, up to the player or the tile that had the bag
NotifyRemoved(u, top, b) ==
  FoldSet(LAMBDA p, v : PostRemove(v, p, b), u,
          {p \in Openers : u.pos[p] # Away /\ (top = p \/ (top \in Fields /\ Within1(u, p, top)))})

\* Tile::onRemoveTileItem and Tile::onAddTileItem
Relisted(u, b, from, to) ==
  [u EXCEPT !.list = [t \in Fields |->
     LET kept == IF t = from THEN @[t] \ {b} ELSE @[t]
     IN IF t = to /\ u.refs[t] > 0 THEN kept \union {b} ELSE kept]]

Put(u, b, to) == Relisted([u EXCEPT !.at[b] = to], b, u.at[b], to)

\* Game::playerBrowseField: the container of a field, made when there is none.
\* Its first reference is the timer's.
Browsed(u, t) ==
  IF u.refs[t] > 0 THEN u
  ELSE [u EXCEPT !.refs[t] = 1, !.timer[t] = TRUE, !.list[t] = {b \in Sacks : u.at[b] = t}]

-----------------------------------------------------------------------------

\* Game::internalMoveItem, by a player, a script, a teleporter
MoveSack(b, to) ==
  /\ ~IsRemoved(ui, b) /\ to # ui.at[b] /\ to # Away
  /\ to \in Openers => ui.pos[to] # Away
  /\ to \in Sacks => ~IsRemoved(ui, to) /\ b \notin Parents(ui, to)
  /\ ui' = NotifyRemoved(Put(ui, b, to), TopParent(ui, b), b)

\* Game::internalRemoveItem
RemoveSack(b) ==
  /\ ~IsRemoved(ui, b)
  /\ ui' = NotifyRemoved(Put(ui, b, Away), TopParent(ui, b), b)

\* Game::internalAddItem of a new one
NewSack(b, t) ==
  /\ ui.at[b] = Away
  /\ ui' = Put([ui EXCEPT !.at = [x \in Sacks |-> IF @[x] = b THEN Away ELSE @[x]]], b, t)

\* Actions::internalUseItem of a container: it is opened, or closed.
UseSack(p, b, c) ==
  /\ ui.pos[p] # Away /\ Reaches(ui, p, b)
  /\ LET open == {k \in Cids : ui.win[p][k] = b}
     IN ui' = IF open # {} THEN CloseContainer(ui, p, Min(open)) ELSE AddContainer(ui, p, c, b)

\* Game::playerBrowseField
BrowseField(p, t) ==
  /\ Within1(ui, p, t)
  /\ LET u == Browsed(ui, t)
     IN ui' = IF ui.win[p][DummyCid[t]] # Away THEN CloseContainer(u, p, DummyCid[t])
             ELSE AddContainer(u, p, DummyCid[t], t)

\* Game::playerMoveUpContainer: from a bag that is in none, to the field.
MoveUp(p, c) ==
  /\ ui.win[p][c] # Away
  /\ LET x == ui.win[p][c]
         holder == IF x \in Sacks THEN ui.at[x] ELSE x
         field == IF holder = p THEN ui.pos[p] ELSE holder
     IN ui' = IF holder \in Sacks THEN AddContainer(ui, p, c, holder)
             ELSE AddContainer(Browsed(ui, field), p, c, field)

\* Game::playerCloseContainer
CloseWindow(p, c) ==
  /\ ui.win[p][c] # Away
  /\ ui' = CloseContainer(ui, p, c)

\* Game::decreaseBrowseFieldRef, after 30 seconds
BrowseTimer(t) ==
  /\ ui.timer[t]
  /\ ui' = Dropped([ui EXCEPT !.timer[t] = FALSE], t)

\* Player::postAddNotification, of the player himself after a step or a teleport
WalkTo(p, t) ==
  /\ ui.pos[p] \notin {Away, t}
  /\ LET u == [ui EXCEPT !.pos[p] = t]
         Far(x) == IF x \in Sacks THEN ~Reaches(u, p, x) ELSE x # Away /\ ~Within1(u, p, x)
     IN ui' = FoldSet(LAMBDA x, v : AutoCloseContainers(v, p, x), u,
                     {x \in Sacks \union Fields : Far(x) /\ \E c \in Cids : u.win[p][c] = x})

LogIn(p, t) == ui.pos[p] = Away /\ ui' = [ui EXCEPT !.pos[p] = t]

\* Player::~Player: what he carries goes with him; nobody closes his windows.
LogOut(p) ==
  /\ ui.pos[p] # Away
  /\ LET Lost(t) == Cardinality({c \in Cids : ui.win[p][c] = t})
     IN /\ MapThenSumSet(LAMBDA t : ui.leaked[t] + Lost(t), Fields) <= MaxLeaks
        /\ ui' = [ui EXCEPT !.pos[p] = Away, !.win[p] = [c \in Cids |-> Away],
                          !.at = [b \in Sacks |-> IF @[b] = p THEN Away ELSE @[b]],
                          !.leaked = [t \in Fields |-> @[t] + Lost(t)]]

WindowsNext ==
  \/ \E b \in Sacks :
       \/ \E to \in Fields \union Openers \union Carriers \union Sacks : MoveSack(b, to)
       \/ RemoveSack(b)
       \/ \E t \in Fields : NewSack(b, t)
  \/ \E p \in Openers :
       \/ \E b \in Sacks, c \in Cids : UseSack(p, b, c)
       \/ \E t \in Fields : BrowseField(p, t) \/ WalkTo(p, t) \/ LogIn(p, t)
       \/ \E c \in Cids : MoveUp(p, c) \/ CloseWindow(p, c)
       \/ LogOut(p)
  \/ \E t \in Fields : BrowseTimer(t)

\* All bags and windows, from the start of the server.
WindowsSpec == WindowsInit /\ [][WindowsNext]_ui

-----------------------------------------------------------------------------
(* Properties *)

\* Every open window shows a container that exists and is within its player's
\* reach, wherever it and the bags around it were taken.  And the container of
\* a browsed field is there as long as it is open or its time is not up, then no
\* longer (but for windows lost by logging out), and lists what lies there.
WindowsKept ==
  /\ \A p \in Openers, c \in Cids :
       LET x == ui.win[p][c] IN
       /\ x \in Sacks => Reaches(ui, p, x)
       /\ x \in Fields => Within1(ui, p, x)
  /\ \A t \in Fields :
       /\ ui.refs[t] = Cardinality({pc \in Openers \X Cids : ui.win[pc[1]][pc[2]] = t})
                        + (IF ui.timer[t] THEN 1 ELSE 0) + ui.leaked[t]
       /\ ui.refs[t] > 0 => ui.list[t] = {b \in Sacks : ui.at[b] = t}
=============================================================================
