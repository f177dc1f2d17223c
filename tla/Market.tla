------------------------------- MODULE Market -------------------------------
(***************************************************************************)
(* The market: Game::player{Create,Cancel,Accept}MarketOffer and IOMarket  *)
(* (game.cpp, iomarket.cpp).                                               *)
(*                                                                         *)
(* Three parties touch an offer.  The players' requests run on the         *)
(* dispatcher and read and write market_offers synchronously.  Changes of  *)
(* an account's store coins are not synchronous: IOAccount::addCoins puts  *)
(* an UPDATE in the queue of the database thread, while the checks before  *)
(* it read either the Player object's copy (cached) or the table, neither  *)
(* of which counts what is queued.  And the periodic expiry is split in    *)
(* two: checkExpiredOffers queues a SELECT, the database thread takes a    *)
(* snapshot of the rows, and the dispatcher later runs                     *)
(* processExpiredOffers on that snapshot, whatever happened in between.    *)
(*                                                                         *)
(* Data: goods stand for every ordinary item; money in the backpack and in *)
(* the bank are one purse (removeMoney takes from both); all offers have   *)
(* the same unit Price and Fee.  An offline player is loaded, changed and  *)
(* saved by the handlers, so a purse is the same thing online and offline. *)
(* Left out: the 3 s exhaustion, which spaces a player's requests but not  *)
(* the database thread, and failing database calls.                        *)
(***************************************************************************)
EXTENDS Integers, Sequences, FiniteSets, Functions

CONSTANTS
  Players,
  Price,        \* price of one piece
  Fee,          \* fee for creating an offer
  StartPurse,   \* [player |-> gold, goods and coin items] at the start
  StartCoins,   \* [player |-> store coins of the account] at the start
  MaxOffers,    \* bound: offers ever created
  MaxAmount,    \* bound: pieces in an offer
  MaxChecks     \* bound: expiry checks pending at once

ASSUME MarketAssumption ==
  /\ {Price, Fee, MaxOffers, MaxAmount, MaxChecks} \subseteq Nat
  /\ Price > 0
  /\ IsFiniteSet(Players)
  /\ StartPurse \in [Players -> [gold : Nat, goods : Nat, coins : Nat]]
  /\ StartCoins \in [Players -> Nat]

VARIABLES
  offers,   \* the table market_offers: [id |-> row]
  nextId,   \* its AUTO_INCREMENT
  purse,    \* [player |-> gold, goods, and coins in the form of items]
  account,  \* the coins column of the table accounts
  cached,   \* Player::coinBalance
  tasks,    \* the queue of the database thread
  replies,  \* results on their way to processExpiredOffers
  ledger,   \* what market_history says of each offer
  raced     \* history: offers partly accepted while a snapshot held them

vars == <<offers, nextId, purse, account, cached, tasks, replies, ledger, raced>>

OfferIds == 1..MaxOffers
Amounts == 1..MaxAmount
Kinds == {"goods", "coins"}
Row == [player : Players, sale : BOOLEAN, kind : Kinds, amount : Amounts, expired : BOOLEAN]
Query == [expired |-> TRUE]
AddCoins(p, n) == [player |-> p, coins |-> n]

Init ==
  /\ offers = << >>
  /\ nextId = 1
  /\ purse = StartPurse
  /\ account = StartCoins
  /\ cached = account
  /\ tasks = << >>
  /\ replies = << >>
  /\ ledger = << >>
  /\ raced = {}

Give(purses, p, what, n) == [purses EXCEPT ![p][what] = @ + n]
Removed(table, id) == [i \in DOMAIN table \ {id} |-> table[i]]
Extended(f, id, value) == [i \in DOMAIN f \union {id} |-> IF i = id THEN value ELSE f[i]]

(***************************************************************************)
(* IOMarket::createOffer: a new row.                                       *)
(***************************************************************************)
Insert(p, sale, kind, n) ==
  /\ nextId <= MaxOffers
  /\ offers' = Extended(offers, nextId,
       [player |-> p, sale |-> sale, kind |-> kind, amount |-> n, expired |-> FALSE])
  /\ ledger' = Extended(ledger, nextId, [created |-> n, accepted |-> 0, closed |-> 0])
  /\ nextId' = nextId + 1

\* playerCreateMarketOffer, MARKETACTION_SELL of an ordinary item.
SellGoods(p, n) ==
  /\ purse[p].gold >= Fee
  /\ purse[p].goods >= n
  /\ purse' = Give(Give(purse, p, "goods", -n), p, "gold", -Fee)
  /\ Insert(p, TRUE, "goods", n)
  /\ UNCHANGED <<account, cached, tasks, replies, raced>>

\* playerCreateMarketOffer, MARKETACTION_SELL of store coins: the check reads
\* the Player's copy, which the offer does not update.
SellCoins(p, n) ==
  /\ purse[p].gold >= Fee
  /\ cached[p] >= n
  /\ tasks' = Append(tasks, AddCoins(p, -n))
  /\ purse' = Give(purse, p, "gold", -Fee)
  /\ Insert(p, TRUE, "coins", n)
  /\ UNCHANGED <<account, cached, replies, raced>>

\* playerCreateMarketOffer, MARKETACTION_BUY.
Buy(p, kind, n) ==
  /\ purse[p].gold >= Price * n + Fee
  /\ purse' = Give(purse, p, "gold", -(Price * n + Fee))
  /\ Insert(p, FALSE, kind, n)
  /\ UNCHANGED <<account, cached, tasks, replies, raced>>

\* the offer stays in the table: moveOfferToHistory forgets the DELETE
MoveToHistory_Kept(ids) ==
  /\ offers' = offers
  /\ ledger' = [i \in DOMAIN ledger |->
       IF i \in ids \intersect DOMAIN offers
         THEN [ledger[i] EXCEPT !.closed = @ + offers[i].amount] ELSE ledger[i]]

(***************************************************************************)
(* IOMarket::moveOfferToHistory of each of some offers: those still in the *)
(* table leave it, with the amount the table has now.                      *)
(***************************************************************************)
MoveToHistory(ids) ==
  /\ offers' = [i \in DOMAIN offers \ ids |-> offers[i]]
  /\ ledger' = [i \in DOMAIN ledger |->
       IF i \in ids \intersect DOMAIN offers
         THEN [ledger[i] EXCEPT !.closed = @ + offers[i].amount] ELSE ledger[i]]

(***************************************************************************)
(* playerCancelMarketOffer: the owner gets back what the row holds now.    *)
(***************************************************************************)
CancelOffer(p, id) ==
  LET offer == offers[id] IN
  /\ offer.player = p
  /\ purse' = IF ~offer.sale THEN Give(purse, p, "gold", Price * offer.amount)
              ELSE IF offer.kind = "goods" THEN Give(purse, p, "goods", offer.amount)
              ELSE purse
  /\ tasks' = IF offer.sale /\ offer.kind = "coins"
                THEN Append(tasks, AddCoins(p, offer.amount)) ELSE tasks
  /\ MoveToHistory({id})
  /\ UNCHANGED <<nextId, account, cached, replies, raced>>

(***************************************************************************)
(* The end of playerAcceptMarketOffer: history rows, then deleteOffer or   *)
(* acceptOffer.                                                            *)
(***************************************************************************)
Snapshots == UNION {DOMAIN replies[i] : i \in DOMAIN replies}

Settle(id, n) ==
  /\ offers' = IF offers[id].amount = n THEN Removed(offers, id)
               ELSE [offers EXCEPT ![id].amount = @ - n]
  /\ ledger' = [ledger EXCEPT ![id].accepted = @ + n]
  /\ raced' = IF n < offers[id].amount /\ id \in Snapshots THEN raced \union {id} ELSE raced

\* getCoinBalance reads the signed column as uint32_t: a negative balance
\* looks like a large one.
HasCoins(p, n) == account[p] < 0 \/ n <= account[p]

\* playerAcceptMarketOffer of a buy offer: p delivers, the buyer has paid.
AcceptBuyOffer(p, id, n) ==
  LET offer == offers[id] IN
  /\ ~offer.sale
  /\ n <= offer.amount
  /\ \/ /\ offer.kind = "coins"
        /\ HasCoins(p, n)
        /\ tasks' = tasks \o <<AddCoins(p, -n), AddCoins(offer.player, n)>>
        /\ purse' = Give(purse, p, "gold", Price * n)
     \/ /\ offer.kind = "goods"
        /\ n <= purse[p].goods
        /\ purse' = Give(Give(Give(purse, p, "goods", -n), p, "gold", Price * n),
                         offer.player, "goods", n)
        /\ tasks' = tasks
  /\ Settle(id, n)
  /\ UNCHANGED <<nextId, account, cached, replies>>

\* playerAcceptMarketOffer of a sell offer: p pays, the goods are in the offer.
AcceptSellOffer(p, id, n) ==
  LET offer == offers[id]
      paid  == Give(Give(purse, p, "gold", -(Price * n)), offer.player, "gold", Price * n)
  IN
  /\ offer.sale
  /\ n <= offer.amount
  /\ Price * n <= purse[p].gold
  /\ \/ /\ offer.kind = "coins"
        /\ tasks' = Append(tasks, AddCoins(p, n))
        /\ purse' = paid
     \/ /\ offer.kind = "goods"
        /\ tasks' = tasks
        /\ purse' = Give(paid, p, "goods", n)
  /\ Settle(id, n)
  /\ UNCHANGED <<nextId, account, cached, replies>>

\* A login or ProtocolGame::updateCoinBalance: the Player's copy is read anew.
RefreshCoins(p) ==
  /\ cached' = [cached EXCEPT ![p] = account[p]]
  /\ UNCHANGED <<offers, nextId, purse, account, tasks, replies, ledger, raced>>

\* The offer passes its 30 days.
Age(id) ==
  /\ ~offers[id].expired
  /\ offers' = [offers EXCEPT ![id].expired = TRUE]
  /\ UNCHANGED <<nextId, purse, account, cached, tasks, replies, ledger, raced>>

Checks == Len(SelectSeq(tasks, LAMBDA t : t = Query)) + Len(replies)

\* checkExpiredOffers, by the scheduler: queue the SELECT, arm the next check.
CheckExpiredOffers ==
  /\ Checks < MaxChecks
  /\ tasks' = Append(tasks, Query)
  /\ UNCHANGED <<offers, nextId, purse, account, cached, replies, ledger, raced>>

\* the comparison of the dates is the wrong way round
Expired_Fresh(table) == [i \in {j \in DOMAIN table : ~table[j].expired} |-> table[i]]

(***************************************************************************)
(* The database thread runs the oldest task.  An empty result set carries  *)
(* no row, and its callback returns at once.                               *)
(***************************************************************************)
Expired(table) == [i \in {j \in DOMAIN table : table[j].expired} |-> table[i]]

DatabaseThread ==
  /\ tasks # << >>
  /\ tasks' = Tail(tasks)
  /\ LET t == Head(tasks) IN
       IF t = Query
         THEN /\ replies' = Append(replies, Expired(offers))
              /\ account' = account
         ELSE /\ account' = [account EXCEPT ![t.player] = @ + t.coins]
              /\ replies' = replies
  /\ UNCHANGED <<offers, nextId, purse, cached, ledger, raced>>

\* What player p gets of one kind of thing for a closed offer: gold for an
\* offer to buy, the goods or the coins themselves for an offer to sell.
Due(row, p, what) ==
  IF row.player = p /\ what = IF row.sale THEN row.kind ELSE "gold"
    THEN row.amount * (IF what = "gold" THEN Price ELSE 1) ELSE 0

\* moveOfferToHistory's answer is ignored: an offer that is gone pays again
Refund_Gone(rows, p, what) == SumFunction([i \in DOMAIN rows |-> Due(rows[i], p, what)])

(***************************************************************************)
(* processExpiredOffers: every row of the snapshot that is still in the    *)
(* table goes to the history, and its owner gets back the amount of the    *)
(* snapshot: gold, or items into the inbox, store coins included.          *)
(***************************************************************************)
Refund(rows, p, what) ==
  SumFunctionOnSet([i \in DOMAIN rows |-> Due(rows[i], p, what)],
                   DOMAIN rows \intersect DOMAIN offers)

ProcessExpiredOffers ==
  /\ replies # << >>
  /\ LET rows == Head(replies) IN
       /\ purse' = [p \in Players |-> [what \in DOMAIN purse[p] |->
                      purse[p][what] + Refund(rows, p, what)]]
       /\ MoveToHistory(DOMAIN rows)
  /\ replies' = Tail(replies)
  /\ UNCHANGED <<nextId, account, cached, tasks, raced>>

Request ==
  \E p \in Players :
    \/ \E n \in Amounts : SellGoods(p, n) \/ SellCoins(p, n)
    \/ \E n \in Amounts, kind \in Kinds : Buy(p, kind, n)
    \/ \E id \in DOMAIN offers : CancelOffer(p, id)
    \/ \E id \in DOMAIN offers, n \in Amounts :
         AcceptBuyOffer(p, id, n) \/ AcceptSellOffer(p, id, n)
    \/ RefreshCoins(p)

Next ==
  \/ Request
  \/ \E id \in DOMAIN offers : Age(id)
  \/ CheckExpiredOffers
  \/ DatabaseThread
  \/ ProcessExpiredOffers

\* The scheduler keeps firing the check, the database thread and the
\* dispatcher keep taking their oldest task.
Fairness == WF_vars(CheckExpiredOffers) /\ WF_vars(DatabaseThread) /\ WF_vars(ProcessExpiredOffers)

Spec == Init /\ [][Next]_vars /\ Fairness

-----------------------------------------------------------------------------
(* Properties *)

\* Types: rows of the table are offers with something in them, and nobody owes
\* gold or goods (market_offers, Player::bankBalance).
TypeOK ==
  /\ DOMAIN offers \subseteq OfferIds /\ \A i \in DOMAIN offers : offers[i] \in Row
  /\ nextId \in 1..(MaxOffers + 1)
  /\ \A p \in Players : \A what \in {"gold", "goods", "coins"} : purse[p][what] \in Nat
  /\ account \in [Players -> Int] /\ cached \in [Players -> Int]
  /\ \A i \in DOMAIN replies : \A j \in DOMAIN replies[i] : replies[i][j] \in Row
  /\ raced \subseteq OfferIds

\* what the offers of a table hold, of those of one kind
Held(table, sale, kind) ==
  SumFunctionOnSet([i \in DOMAIN table |-> table[i].amount],
    {i \in DOMAIN table : table[i].sale = sale /\ table[i].kind = kind})

\* what a queue of database tasks will do to the coins of all accounts
Queued(queue) ==
  SumFunction([i \in DOMAIN queue |-> IF queue[i] = Query THEN 0 ELSE queue[i].coins])

Gold(purses) == SumFunction([p \in Players |-> purses[p].gold])
Goods(purses) == SumFunction([p \in Players |-> purses[p].goods])
Coins(purses, accounts) == SumFunction([p \in Players |-> purses[p].coins + accounts[p]])

GoldGained == Gold(purse) + Price * (Held(offers, FALSE, "goods") + Held(offers, FALSE, "coins"))
                + Fee * (nextId - 1) - Gold(StartPurse)
GoodsGained == Goods(purse) + Held(offers, TRUE, "goods") - Goods(StartPurse)
CoinsGained == Coins(purse, account) + Queued(tasks) + Held(offers, TRUE, "coins")
                 - Coins(StartPurse, StartCoins)

\* Gold, goods and coins never disappear from purses, offers and queues
\* together.
NothingLost == GoldGained >= 0 /\ GoodsGained >= 0 /\ CoinsGained >= 0

\* Nothing is created, unless an offer was partly accepted between the snapshot
\* of the expiry check and its processing (iomarket.cpp 127).
NothingCreated == raced = {} => GoldGained <= 0 /\ GoodsGained <= 0 /\ CoinsGained <= 0

\* However requests, expiry checks and queued coin updates interleave, gold,
\* goods and coins are conserved: an offer cancelled, sold out, or expired twice
\* while a snapshot holds it is not paid again; only one partly accepted is
\* (game.cpp 7559-7975, iomarket.cpp 120-192).
Conserved == TypeOK /\ NothingLost /\ NothingCreated

\* The history accounts for every offer to the piece: what was accepted, what
\* was closed and what is still open add up to what was offered, so an offer
\* is closed once and never accepted beyond its amount (iomarket.cpp 284-306).
HistoryAddsUp ==
  \A i \in DOMAIN ledger :
    ledger[i].created = ledger[i].accepted + ledger[i].closed
                          + (IF i \in DOMAIN offers THEN offers[i].amount ELSE 0)

\* An offer past its 30 days leaves the table in the end, whatever the players
\* do to it meanwhile (checkExpiredOffers arms itself again, iomarket.cpp 207).
ExpiredOffersLeave ==
  \A id \in OfferIds :
    (id \in DOMAIN offers /\ offers[id].expired) ~> (id \notin DOMAIN offers)
=============================================================================
