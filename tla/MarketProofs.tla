---------------------------- MODULE MarketProofs ----------------------------
(***************************************************************************)
(* Two theorems of the market, for any players, prices and amounts: the    *)
(* history adds up, and gold, goods and coins are conserved.               *)
(*                                                                         *)
(* HistoryAddsUp is inductive only together with what makes an id name one *)
(* offer: every open offer has a place in the ledger, and every place has  *)
(* an id that AUTO_INCREMENT has passed.                                   *)
(*                                                                         *)
(* Conserved needs SnapshotsFit besides: a row of a snapshot whose offer   *)
(* is still in the table describes that offer, with at least its amount,   *)
(* and with exactly its amount unless somebody accepted a part since. What *)
(* processExpiredOffers pays is then no less than what leaves the table.   *)
(*                                                                         *)
(* The totals are the library's sums.  What a sum is of a changed function *)
(* is shown first, each time for a least set that would be a               *)
(* counterexample; then what each action moves between purses, accounts,   *)
(* the queue of the database thread and the table; then that the parts     *)
(* cancel.                                                                 *)
(***************************************************************************)
EXTENDS Market, TLAPS, FiniteSetTheorems, WellFoundedInduction, NaturalsInduction, SequenceTheorems

\* A line of the history's books.
Places == [created : Nat, accepted : Nat, closed : Nat]

\* What makes an id name one offer.
IdsPassed ==
  /\ nextId \in Nat
  /\ \A i \in DOMAIN ledger : i \in Nat /\ i < nextId
  /\ DOMAIN offers \subseteq DOMAIN ledger

\* Open offers and the history's lines have their types.
BooksTyped ==
  /\ \A i \in DOMAIN offers : offers[i] \in Row
  /\ \A i \in DOMAIN ledger : ledger[i] \in Places

\* The inductive invariant of the history.
MarketInv == IdsPassed /\ BooksTyped /\ HistoryAddsUp

\* The history starts empty.
LEMMA Initially == Init => MarketInv
  BY DEF Init, MarketInv, IdsPassed, BooksTyped, HistoryAddsUp

\* createOffer: the id is new to the table and to the history.
LEMMA InsertKeeps ==
  ASSUME MarketInv, NEW p \in Players, NEW sale \in BOOLEAN, NEW kind \in Kinds, NEW n \in Amounts,
         Insert(p, sale, kind, n)
  PROVE  MarketInv'
<1> DEFINE row == [player |-> p, sale |-> sale, kind |-> kind, amount |-> n, expired |-> FALSE]
           place == [created |-> n, accepted |-> 0, closed |-> 0]
<1>1. IdsPassed /\ BooksTyped /\ HistoryAddsUp
  BY DEF MarketInv
<1>2. nextId \notin DOMAIN ledger /\ nextId \notin DOMAIN offers /\ nextId' = nextId + 1
  BY <1>1 DEF IdsPassed, Insert
<1>3. /\ offers' = [i \in DOMAIN offers \union {nextId} |-> IF i = nextId THEN row ELSE offers[i]]
      /\ ledger' = [i \in DOMAIN ledger \union {nextId} |-> IF i = nextId THEN place ELSE ledger[i]]
  BY DEF Insert, Extended
<1>4. /\ DOMAIN offers' = DOMAIN offers \union {nextId}
      /\ DOMAIN ledger' = DOMAIN ledger \union {nextId}
      /\ offers'[nextId] = row /\ ledger'[nextId] = place
      /\ \A i \in DOMAIN offers : offers'[i] = offers[i]
      /\ \A i \in DOMAIN ledger : ledger'[i] = ledger[i]
  BY <1>2, <1>3
<1>5. row \in Row /\ place \in Places /\ n \in Nat
  BY MarketAssumption DEF Row, Places, Amounts
<1>6. IdsPassed'
  BY <1>1, <1>2, <1>4 DEF IdsPassed
<1>7. BooksTyped'
  BY <1>1, <1>4, <1>5 DEF BooksTyped
<1>8. HistoryAddsUp'
  <2>1. place.created = place.accepted + place.closed + row.amount
    BY <1>5
  <2>2. ASSUME NEW i \in DOMAIN ledger
        PROVE  ledger'[i].created = ledger'[i].accepted + ledger'[i].closed
                 + (IF i \in DOMAIN offers' THEN offers'[i].amount ELSE 0)
    BY <1>1, <1>2, <1>4 DEF HistoryAddsUp
  <2> QED BY <1>4, <2>1, <2>2 DEF HistoryAddsUp
<1> QED BY <1>6, <1>7, <1>8 DEF MarketInv

\* moveOfferToHistory, of one offer or of all of a snapshot.
LEMMA MoveToHistoryKeeps ==
  ASSUME MarketInv, NEW ids, MoveToHistory(ids), nextId' = nextId
  PROVE  MarketInv'
<1>1. IdsPassed /\ BooksTyped /\ HistoryAddsUp
  BY DEF MarketInv
<1>2. /\ DOMAIN offers' = DOMAIN offers \ ids /\ DOMAIN ledger' = DOMAIN ledger
      /\ \A i \in DOMAIN offers \ ids : offers'[i] = offers[i]
      /\ \A i \in DOMAIN ledger : i \in ids \intersect DOMAIN offers =>
           ledger'[i] = [ledger[i] EXCEPT !.closed = @ + offers[i].amount]
      /\ \A i \in DOMAIN ledger : i \notin ids \intersect DOMAIN offers => ledger'[i] = ledger[i]
  BY DEF MoveToHistory
<1>3. \A i \in DOMAIN offers : offers[i].amount \in Nat
  BY <1>1, MarketAssumption DEF BooksTyped, Row, Amounts
<1>4. \A i \in DOMAIN ledger : i \in ids \intersect DOMAIN offers =>
        /\ ledger'[i].created = ledger[i].created /\ ledger'[i].accepted = ledger[i].accepted
        /\ ledger'[i].closed = ledger[i].closed + offers[i].amount
        /\ ledger'[i] \in Places
  BY <1>1, <1>2, <1>3 DEF BooksTyped, Places
<1>5. IdsPassed'
  BY <1>1, <1>2 DEF IdsPassed
<1>6. BooksTyped'
  BY <1>1, <1>2, <1>4 DEF BooksTyped
<1>7. HistoryAddsUp'
  <2> SUFFICES ASSUME NEW i \in DOMAIN ledger
               PROVE  ledger'[i].created = ledger'[i].accepted + ledger'[i].closed
                        + (IF i \in DOMAIN offers' THEN offers'[i].amount ELSE 0)
    BY <1>2 DEF HistoryAddsUp
  <2>1. ledger[i] \in Places
    BY <1>1 DEF BooksTyped
  <2>2. CASE i \in ids \intersect DOMAIN offers
    BY <2>1, <2>2, <1>1, <1>2, <1>3, <1>4 DEF HistoryAddsUp, Places
  <2>3. CASE i \notin ids \intersect DOMAIN offers
    BY <2>3, <1>1, <1>2 DEF HistoryAddsUp
  <2> QED BY <2>2, <2>3
<1> QED BY <1>5, <1>6, <1>7 DEF MarketInv

\* deleteOffer or acceptOffer, with the history rows before it.
LEMMA SettleKeeps ==
  ASSUME MarketInv, NEW id \in DOMAIN offers, NEW n \in Amounts, n <= offers[id].amount,
         Settle(id, n), nextId' = nextId
  PROVE  MarketInv'
<1>1. IdsPassed /\ BooksTyped /\ HistoryAddsUp
  BY DEF MarketInv
<1>2. offers[id] \in Row /\ offers[id].amount \in Nat /\ n \in Nat
  BY <1>1, MarketAssumption DEF BooksTyped, Row, Amounts
<1>3. id \in DOMAIN ledger /\ ledger[id] \in Places
  BY <1>1 DEF IdsPassed, BooksTyped
<1>4. /\ DOMAIN ledger' = DOMAIN ledger
      /\ ledger'[id] = [ledger[id] EXCEPT !.accepted = @ + n]
      /\ \A i \in DOMAIN ledger : i # id => ledger'[i] = ledger[i]
  BY <1>3 DEF Settle
<1>5. /\ ledger'[id].created = ledger[id].created /\ ledger'[id].closed = ledger[id].closed
      /\ ledger'[id].accepted = ledger[id].accepted + n /\ ledger'[id] \in Places
  BY <1>2, <1>3, <1>4 DEF Places
<1>6. ledger[id].created = ledger[id].accepted + ledger[id].closed + offers[id].amount
  BY <1>1, <1>3 DEF HistoryAddsUp
<1>7. CASE offers[id].amount = n
  <2>1. /\ DOMAIN offers' = DOMAIN offers \ {id}
        /\ \A i \in DOMAIN offers : i # id => offers'[i] = offers[i]
    BY <1>7 DEF Settle, Removed
  <2>2. IdsPassed'
    BY <1>1, <1>4, <2>1 DEF IdsPassed
  <2>3. BooksTyped'
    BY <1>1, <1>4, <1>5, <2>1 DEF BooksTyped
  <2>4. ledger'[id].created = ledger'[id].accepted + ledger'[id].closed
    BY <1>2, <1>3, <1>5, <1>6, <1>7 DEF Places
  <2>5. ledger'[id].accepted + ledger'[id].closed + 0 = ledger'[id].accepted + ledger'[id].closed
    BY <1>5 DEF Places
  <2>6. HistoryAddsUp'
    BY <1>1, <1>4, <2>1, <2>4, <2>5 DEF HistoryAddsUp
  <2> QED BY <2>2, <2>3, <2>6 DEF MarketInv
<1>8. CASE offers[id].amount # n
  <2>1. /\ DOMAIN offers' = DOMAIN offers
        /\ offers'[id] = [offers[id] EXCEPT !.amount = @ - n]
        /\ \A i \in DOMAIN offers : i # id => offers'[i] = offers[i]
    BY <1>8 DEF Settle
  <2>2. offers'[id] \in Row /\ offers'[id].amount = offers[id].amount - n
    BY <1>2, <1>8, <2>1, MarketAssumption DEF Row, Amounts
  <2>3. IdsPassed'
    BY <1>1, <1>4, <2>1 DEF IdsPassed
  <2>4. BooksTyped'
    BY <1>1, <1>4, <1>5, <2>1, <2>2 DEF BooksTyped
  <2>5. ledger'[id].created = ledger'[id].accepted + ledger'[id].closed + offers'[id].amount
    BY <1>2, <1>3, <1>5, <1>6, <2>2 DEF Places
  <2>6. HistoryAddsUp'
    BY <1>1, <1>4, <2>1, <2>5 DEF HistoryAddsUp
  <2> QED BY <2>3, <2>4, <2>6 DEF MarketInv
<1> QED BY <1>7, <1>8

\* An offer that gets old keeps its amount.
LEMMA AgeKeeps ==
  ASSUME MarketInv, NEW id \in DOMAIN offers, Age(id)
  PROVE  MarketInv'
<1>1. IdsPassed /\ BooksTyped /\ HistoryAddsUp
  BY DEF MarketInv
<1>2. /\ DOMAIN offers' = DOMAIN offers /\ ledger' = ledger /\ nextId' = nextId
      /\ offers'[id] = [offers[id] EXCEPT !.expired = TRUE]
      /\ \A i \in DOMAIN offers : i # id => offers'[i] = offers[i]
  BY DEF Age
<1>3. offers'[id] \in Row /\ offers'[id].amount = offers[id].amount
  BY <1>1, <1>2 DEF BooksTyped, Row
<1>4. IdsPassed'
  BY <1>1, <1>2 DEF IdsPassed
<1>5. BooksTyped'
  BY <1>1, <1>2, <1>3 DEF BooksTyped
<1>6. HistoryAddsUp'
  BY <1>1, <1>2, <1>3 DEF HistoryAddsUp
<1> QED BY <1>4, <1>5, <1>6 DEF MarketInv

\* Every request, check and database task is one of the above or leaves the
\* table and the history alone.
LEMMA StepKeeps == MarketInv /\ [Next]_vars => MarketInv'
<1> SUFFICES ASSUME MarketInv, [Next]_vars PROVE MarketInv'
  OBVIOUS
<1>1. ASSUME UNCHANGED <<offers, nextId, ledger>> PROVE MarketInv'
  BY <1>1 DEF MarketInv, IdsPassed, BooksTyped, HistoryAddsUp
<1>2. ASSUME NEW p \in Players, NEW n \in Amounts, SellGoods(p, n) PROVE MarketInv'
  BY <1>2, InsertKeeps DEF SellGoods, Kinds
<1>3. ASSUME NEW p \in Players, NEW n \in Amounts, SellCoins(p, n) PROVE MarketInv'
  BY <1>3, InsertKeeps DEF SellCoins, Kinds
<1>4. ASSUME NEW p \in Players, NEW n \in Amounts, NEW kind \in Kinds, Buy(p, kind, n)
      PROVE  MarketInv'
  BY <1>4, InsertKeeps DEF Buy
<1>5. ASSUME NEW p \in Players, NEW id \in DOMAIN offers, CancelOffer(p, id) PROVE MarketInv'
  BY <1>5, MoveToHistoryKeeps DEF CancelOffer
<1>6. ASSUME NEW p \in Players, NEW id \in DOMAIN offers, NEW n \in Amounts, AcceptBuyOffer(p, id, n)
      PROVE  MarketInv'
  BY <1>6, SettleKeeps DEF AcceptBuyOffer
<1>7. ASSUME NEW p \in Players, NEW id \in DOMAIN offers, NEW n \in Amounts, AcceptSellOffer(p, id, n)
      PROVE  MarketInv'
  BY <1>7, SettleKeeps DEF AcceptSellOffer
<1>8. ASSUME NEW p \in Players, RefreshCoins(p) PROVE MarketInv'
  BY <1>8, <1>1 DEF RefreshCoins
<1>9. Request => MarketInv'
  BY <1>2, <1>3, <1>4, <1>5, <1>6, <1>7, <1>8 DEF Request
<1>10. ASSUME NEW id \in DOMAIN offers, Age(id) PROVE MarketInv'
  BY <1>10, AgeKeeps
<1>11. CASE CheckExpiredOffers
  BY <1>11, <1>1 DEF CheckExpiredOffers
<1>12. CASE DatabaseThread
  BY <1>12, <1>1 DEF DatabaseThread
<1>13. CASE ProcessExpiredOffers
  BY <1>13, MoveToHistoryKeeps DEF ProcessExpiredOffers
<1>14. CASE UNCHANGED vars
  BY <1>14, <1>1 DEF vars
<1> QED BY <1>9, <1>10, <1>11, <1>12, <1>13, <1>14 DEF Next

\* Every offer is accounted for to the piece, however acceptances, cancellations
\* and expiry checks on stale snapshots interleave: none is closed twice, and
\* none is accepted beyond its amount.
THEOREM HistoryAddsUpHolds == Spec => []HistoryAddsUp
<1>1. MarketInv => HistoryAddsUp
  BY DEF MarketInv
<1> QED BY Initially, StepKeeps, <1>1, PTL DEF Spec

-----------------------------------------------------------------------------
(* Sums over finite sets *)

\* A set of numbers with something in it has a least one: what the arguments by
\* induction on the size of a set below rest on.
LEMMA LeastNumber ==
  ASSUME NEW T \in SUBSET Nat, T # {}
  PROVE  \E n \in T : \A m \in T : n <= m
<1>1. PICK n \in T : \A m \in T : ~(<<m, n>> \in OpToRel(<, Nat))
  BY WFMin, NatLessThanWellFounded
<1>2. \A m \in T : <<m, n>> \in OpToRel(<, Nat) <=> m < n
  BY DEF OpToRel
<1>3. \A m \in T : ~(m < n)
  BY <1>1, <1>2, Zenon
<1>4. QED BY <1>3

\* The element of a set that the library's folds take first.
Pick(s) == CHOOSE x \in s : TRUE
\* The subsets of D of at most n elements.
Smaller(D, n) == {s \in SUBSET D : Cardinality(s) <= n}

\* h satisfies the recursion equation of a sum of f, on the given sets.
SumsOn(f, Ds, h) ==
  h = [s \in Ds |-> IF s = {} THEN 0 ELSE f[Pick(s)] + h[s \ {Pick(s)}]]

\* The library's sum is the recursive function's value.
LEMMA SumIs ==
  ASSUME NEW f, NEW S
  PROVE  SumFunctionOnSet(f, S) = (CHOOSE h : SumsOn(f, SUBSET S, h))[S]
  BY DEF SumFunctionOnSet, FoldFunctionOnSet, MapThenFoldSet, SumsOn, Pick

\* Taking an element out of a set makes it smaller by one.
LEMMA OneLess ==
  ASSUME NEW s, IsFiniteSet(s), NEW x \in s
  PROVE  /\ IsFiniteSet(s \ {x}) 
         /\ Cardinality(s) \in Nat /\ Cardinality(s \ {x}) \in Nat
         /\ Cardinality(s \ {x}) + 1 = Cardinality(s)
<1>1. IsFiniteSet(s \ {x})
  BY FS_RemoveElement
<1>2. Cardinality(s \ {x}) = Cardinality(s) - 1
  BY FS_RemoveElement
<1>3. Cardinality(s) \in Nat /\ Cardinality(s \ {x}) \in Nat
  BY <1>1, FS_CardinalityType
<1> QED BY <1>1, <1>2, <1>3

\* The element picked is one of the set.
LEMMA PickIn ==
  ASSUME NEW s, s # {}
  PROVE  Pick(s) \in s
  BY DEF Pick

\* The recursion has a solution on the sets of n elements at most.
LEMMA SolvableStep ==
  ASSUME NEW f, NEW D, IsFiniteSet(D), NEW n \in Nat, NEW h, SumsOn(f, Smaller(D, n), h)
  PROVE  \E g : SumsOn(f, Smaller(D, n + 1), g)
<1> DEFINE g == [s \in Smaller(D, n + 1) |->
                   IF s = {} THEN 0 ELSE f[Pick(s)] + h[s \ {Pick(s)}]]
<1>1. ASSUME NEW s \in Smaller(D, n + 1), s # {}
      PROVE  /\ s \ {Pick(s)} \in Smaller(D, n)
             /\ s \ {Pick(s)} \in Smaller(D, n + 1)
  <2>1. s \subseteq D /\ Cardinality(s) <= n + 1 /\ IsFiniteSet(s) /\ Pick(s) \in s
    BY <1>1, FS_Subset, PickIn DEF Smaller
  <2>2. Cardinality(s \ {Pick(s)}) \in Nat /\ Cardinality(s \ {Pick(s)}) + 1 = Cardinality(s)
    BY <2>1, OneLess
  <2>3. Cardinality(s \ {Pick(s)}) <= n
    BY <2>1, <2>2
  <2>4. s \ {Pick(s)} \subseteq D /\ Cardinality(s \ {Pick(s)}) <= n + 1
    BY <2>1, <2>2, <2>3
  <2> QED BY <2>3, <2>4 DEF Smaller
<1>2. ASSUME NEW s \in Smaller(D, n)
      PROVE  g[s] = h[s]
  <2>1. s \in Smaller(D, n + 1)
    <3>1. s \subseteq D /\ Cardinality(s) <= n /\ IsFiniteSet(s)
      BY <1>2, FS_Subset DEF Smaller
    <3>2. Cardinality(s) \in Nat
      BY <3>1, FS_CardinalityType
    <3> QED BY <3>1, <3>2 DEF Smaller
  <2> QED BY <2>1 DEF SumsOn
<1>3. g = [s \in Smaller(D, n + 1) |-> IF s = {} THEN 0 ELSE f[Pick(s)] + g[s \ {Pick(s)}]]
  BY <1>1, <1>2
<1>4. QED BY <1>3 DEF SumsOn

\* The recursion has a solution on all subsets of a finite set.
LEMMA Solvable ==
  ASSUME NEW f, NEW D, IsFiniteSet(D)
  PROVE  \E h : SumsOn(f, SUBSET D, h)
<1> DEFINE Bad == {n \in Nat : ~\E h : SumsOn(f, Smaller(D, n), h)}
<1>1. 0 \notin Bad
  <2>1. Smaller(D, 0) = {{}}
    <3>1. ASSUME NEW s \in SUBSET D PROVE Cardinality(s) <= 0 <=> s = {}
      <4>1. IsFiniteSet(s) /\ Cardinality(s) \in Nat
        BY FS_Subset, FS_CardinalityType
      <4>2. Cardinality(s) = 0 <=> s = {}
        BY <4>1, FS_EmptySet
      <4> QED BY <4>1, <4>2
    <3> QED BY <3>1 DEF Smaller
  <2>2. SumsOn(f, {{}}, [s \in {{}} |-> 0])
    BY DEF SumsOn
  <2> QED BY <2>1, <2>2
<1>2. Bad = {}
  <2>1. SUFFICES ASSUME Bad # {} PROVE FALSE
    OBVIOUS
  <2>2. PICK n \in Bad : \A m \in Bad : n <= m
    BY <2>1, LeastNumber
  <2>3. n # 0 /\ n - 1 \in Nat /\ n - 1 \notin Bad
    BY <1>1, <2>2
  <2>4. PICK h : SumsOn(f, Smaller(D, n - 1), h)
    BY <2>3
  <2>5. \E g : SumsOn(f, Smaller(D, (n - 1) + 1), g)
    BY <2>3, <2>4, SolvableStep
  <2>6. (n - 1) + 1 = n
    BY <2>2
  <2> QED BY <2>2, <2>5, <2>6
<1>3. Smaller(D, Cardinality(D)) = SUBSET D
  BY FS_Subset DEF Smaller
<1>4. Cardinality(D) \in Nat
  BY FS_CardinalityType
<1>5. Cardinality(D) \notin Bad
  BY <1>2
<1>6. \E h : SumsOn(f, Smaller(D, Cardinality(D)), h)
  BY <1>4, <1>5
<1> QED BY <1>3, <1>6

\* Two solutions agree where both are defined.
LEMMA SolvedOnce ==
  ASSUME NEW f, NEW D, IsFiniteSet(D), NEW E, NEW h, NEW g,
         SumsOn(f, SUBSET D, h), SumsOn(f, SUBSET E, g), NEW s, s \subseteq D, s \subseteq E
  PROVE  h[s] = g[s]
<1> DEFINE Bad == {n \in Nat : \E t \in SUBSET D : t \subseteq E /\ Cardinality(t) = n /\ h[t] # g[t]}
<1>1. SUFFICES ASSUME h[s] # g[s] PROVE FALSE
  OBVIOUS
<1>2. Cardinality(s) \in Bad
  BY <1>1, FS_Subset, FS_CardinalityType
<1>3. PICK n \in Bad : \A m \in Bad : n <= m
  BY <1>2, LeastNumber
<1>4. PICK t \in SUBSET D : t \subseteq E /\ Cardinality(t) = n /\ h[t] # g[t]
  BY <1>3
<1>5. t # {}
  BY <1>4 DEF SumsOn
<1> DEFINE u == t \ {Pick(t)}
<1>6. Pick(t) \in t /\ IsFiniteSet(t) /\ u \in SUBSET D /\ u \subseteq E
  BY <1>4, <1>5, PickIn, FS_Subset
<1>7. Cardinality(u) \in Nat /\ Cardinality(u) + 1 = n
  BY <1>4, <1>6, OneLess
<1>8. h[t] = f[Pick(t)] + h[u] /\ g[t] = f[Pick(t)] + g[u]
  BY <1>4, <1>5 DEF SumsOn
<1>9. h[u] # g[u]
  BY <1>4, <1>8
<1>10. Cardinality(u) \in Bad
  BY <1>6, <1>7, <1>9
<1>11. n \in Nat /\ n <= Cardinality(u)
  BY <1>3, <1>10
<1> QED BY <1>7, <1>11

\* The sum of nothing, and of a set in terms of the element it picks.
LEMMA SumRecurs ==
  ASSUME NEW f, NEW S, IsFiniteSet(S)
  PROVE  SumFunctionOnSet(f, S) =
           IF S = {} THEN 0 ELSE f[Pick(S)] + SumFunctionOnSet(f, S \ {Pick(S)})
<1> DEFINE h == CHOOSE h : SumsOn(f, SUBSET S, h)
           T == S \ {Pick(S)}
           g == CHOOSE g : SumsOn(f, SUBSET T, g)
<1>1. SumsOn(f, SUBSET S, h)
  BY Solvable
<1>2. SumFunctionOnSet(f, S) = h[S] /\ SumFunctionOnSet(f, T) = g[T]
  BY SumIs
<1>3. IsFiniteSet(T) /\ T \subseteq S
  BY FS_Subset
<1>4. SumsOn(f, SUBSET T, g)
  BY <1>3, Solvable
<1> HIDE DEF h, g, T
<1>5. h[T] = g[T]
  BY <1>1, <1>3, <1>4, SolvedOnce
<1>6. h[S] = IF S = {} THEN 0 ELSE f[Pick(S)] + h[S \ {Pick(S)}]
  BY <1>1 DEF SumsOn
<1> QED BY <1>2, <1>5, <1>6 DEF T

\* A sum of integers is an integer; what it is of equal functions is equal.
LEMMA SumTyped ==
  ASSUME NEW f, NEW S, IsFiniteSet(S), \A x \in S : f[x] \in Int
  PROVE  SumFunctionOnSet(f, S) \in Int
<1> DEFINE Bad == {n \in Nat : \E t \in SUBSET S : Cardinality(t) = n /\ SumFunctionOnSet(f, t) \notin Int}
<1>1. SUFFICES ASSUME SumFunctionOnSet(f, S) \notin Int PROVE FALSE
  OBVIOUS
<1>2. Cardinality(S) \in Bad
  BY <1>1, FS_CardinalityType
<1>3. PICK n \in Bad : \A m \in Bad : n <= m
  BY <1>2, LeastNumber
<1>4. PICK t \in SUBSET S : Cardinality(t) = n /\ SumFunctionOnSet(f, t) \notin Int
  BY <1>3
<1> DEFINE u == t \ {Pick(t)}
<1>5. IsFiniteSet(t)
  BY FS_Subset
<1>6. /\ SumFunctionOnSet(f, t) = IF t = {} THEN 0 ELSE f[Pick(t)] + SumFunctionOnSet(f, u)
      /\ t # {}
  BY <1>4, <1>5, SumRecurs
<1>7. Pick(t) \in t /\ f[Pick(t)] \in Int
  BY <1>6, PickIn
<1>8. SumFunctionOnSet(f, u) \notin Int
  BY <1>4, <1>6, <1>7
<1>9. Cardinality(u) \in Nat /\ Cardinality(u) + 1 = n
  BY <1>4, <1>5, <1>7, OneLess
<1>10. Cardinality(u) \in Bad
  BY <1>8, <1>9
<1>11. n \in Nat /\ n <= Cardinality(u)
  BY <1>3, <1>10
<1> QED BY <1>9, <1>11

\* Any element can be taken out of a sum, not only the one it picks.
LEMMA SumTakeOut ==
  ASSUME NEW f, NEW S, IsFiniteSet(S), \A x \in S : f[x] \in Int, NEW x \in S
  PROVE  SumFunctionOnSet(f, S) = f[x] + SumFunctionOnSet(f, S \ {x})
<1> DEFINE Fails(t, y) == SumFunctionOnSet(f, t) # f[y] + SumFunctionOnSet(f, t \ {y})
           Bad == {n \in Nat : \E t \in SUBSET S : Cardinality(t) = n /\ \E y \in t : Fails(t, y)}
<1>1. SUFFICES ASSUME Fails(S, x) PROVE FALSE
  OBVIOUS
<1>2. Cardinality(S) \in Bad
  BY <1>1, FS_CardinalityType
<1>3. PICK n \in Bad : \A m \in Bad : n <= m
  BY <1>2, LeastNumber
<1>4. PICK t \in SUBSET S : Cardinality(t) = n /\ \E y \in t : Fails(t, y)
  BY <1>3
<1>5. PICK y \in t : Fails(t, y)
  BY <1>4
<1> DEFINE p == Pick(t)
           u == t \ {p}
<1>6. IsFiniteSet(t) /\ t # {} /\ p \in t
  BY <1>5, FS_Subset, PickIn
<1>7. SumFunctionOnSet(f, t) = f[p] + SumFunctionOnSet(f, u)
  BY <1>6, SumRecurs
<1>8. p # y
  BY <1>5, <1>7
<1>9. IsFiniteSet(u) /\ Cardinality(u) \in Nat /\ Cardinality(u) + 1 = n
  BY <1>4, <1>6, OneLess
<1>10. Cardinality(u) \notin Bad
  <2>1. ~(n <= Cardinality(u))
    BY <1>9
  <2> QED BY <1>3, <2>1
<1>11. u \in SUBSET S /\ y \in u
  BY <1>8
<1>12. ~Fails(u, y)
  BY <1>9, <1>10, <1>11
<1> DEFINE v == t \ {y}
<1>13. IsFiniteSet(v) /\ Cardinality(v) \in Nat /\ Cardinality(v) + 1 = n
  BY <1>4, <1>6, OneLess
<1>14. Cardinality(v) \notin Bad
  <2>1. ~(n <= Cardinality(v))
    BY <1>13
  <2> QED BY <1>3, <2>1
<1>15. v \in SUBSET S /\ p \in v
  BY <1>6, <1>8
<1>16. ~Fails(v, p)
  BY <1>13, <1>14, <1>15
<1>17. u \ {y} = v \ {p}
  OBVIOUS
<1>18. /\ f[p] \in Int /\ f[y] \in Int
       /\ SumFunctionOnSet(f, u \ {y}) \in Int
  <2>1. IsFiniteSet(u \ {y}) /\ \A z \in u \ {y} : f[z] \in Int
    BY <1>9, FS_Subset
  <2> QED BY <1>6, <2>1, SumTyped
<1>19. SumFunctionOnSet(f, t) = f[p] + (f[y] + SumFunctionOnSet(f, u \ {y}))
  BY <1>7, <1>12
<1>20. SumFunctionOnSet(f, v) = f[p] + SumFunctionOnSet(f, u \ {y})
  BY <1>16, <1>17
<1>21. SumFunctionOnSet(f, t) = f[y] + SumFunctionOnSet(f, v)
  BY <1>18, <1>19, <1>20
<1> QED BY <1>5, <1>21

\* The sum over no element.
LEMMA SumOfNothing == ASSUME NEW f PROVE SumFunctionOnSet(f, {}) = 0
  BY SumRecurs, FS_EmptySet

\* The sum of sums is the sum of the two sums.
LEMMA SumAdds ==
  ASSUME NEW S, IsFiniteSet(S), NEW f, NEW g, NEW h,
         \A x \in S : f[x] \in Int /\ g[x] \in Int /\ h[x] = f[x] + g[x]
  PROVE  SumFunctionOnSet(h, S) = SumFunctionOnSet(f, S) + SumFunctionOnSet(g, S)
<1> DEFINE Fails(t) == SumFunctionOnSet(h, t) # SumFunctionOnSet(f, t) + SumFunctionOnSet(g, t)
           Bad == {n \in Nat : \E t \in SUBSET S : Cardinality(t) = n /\ Fails(t)}
<1>1. SUFFICES ASSUME Fails(S) PROVE FALSE
  OBVIOUS
<1>2. Cardinality(S) \in Bad
  BY <1>1, FS_CardinalityType
<1>3. PICK n \in Bad : \A m \in Bad : n <= m
  BY <1>2, LeastNumber
<1>4. PICK t \in SUBSET S : Cardinality(t) = n /\ Fails(t)
  BY <1>3
<1> DEFINE p == Pick(t)
           u == t \ {p}
<1>5. t # {}
  <2>1. /\ SumFunctionOnSet(f, {}) = 0
        /\ SumFunctionOnSet(g, {}) = 0
        /\ SumFunctionOnSet(h, {}) = 0
    BY SumOfNothing
  <2>2. ~Fails({})
    BY <2>1
  <2> QED BY <1>4, <2>2
<1>6. IsFiniteSet(t) /\ p \in t
  BY <1>5, FS_Subset, PickIn
<1>7. /\ SumFunctionOnSet(f, t) = f[p] + SumFunctionOnSet(f, u)
      /\ SumFunctionOnSet(g, t) = g[p] + SumFunctionOnSet(g, u)
      /\ SumFunctionOnSet(h, t) = h[p] + SumFunctionOnSet(h, u)
  BY <1>5, <1>6, SumRecurs
<1>8. IsFiniteSet(u) /\ Cardinality(u) \in Nat /\ Cardinality(u) + 1 = n
  BY <1>4, <1>6, OneLess
<1>9. Cardinality(u) \notin Bad
  <2>1. ~(n <= Cardinality(u))
    BY <1>8
  <2> QED BY <1>3, <2>1
<1>10. ~Fails(u)
  BY <1>8, <1>9
<1>11. /\ SumFunctionOnSet(f, u) \in Int
       /\ SumFunctionOnSet(g, u) \in Int
  BY <1>8, SumTyped
<1>12. f[p] \in Int /\ g[p] \in Int /\ h[p] = f[p] + g[p]
  BY <1>6
<1> HIDE DEF u, p
<1>13. ~Fails(t)
  BY <1>7, <1>10, <1>11, <1>12
<1> QED BY <1>4, <1>13

\* A sum of zeros.
LEMMA SumZero ==
  ASSUME NEW S, IsFiniteSet(S), NEW f, \A x \in S : f[x] = 0
  PROVE  SumFunctionOnSet(f, S) = 0
<1>1. SumFunctionOnSet(f, S) = SumFunctionOnSet(f, S) + SumFunctionOnSet(f, S)
  BY SumAdds
<1>2. SumFunctionOnSet(f, S) \in Int
  BY SumTyped
<1>3. PICK n \in Int : n = SumFunctionOnSet(f, S)
  BY <1>2
<1>4. n = n + n
  BY <1>1, <1>3
<1>5. n = 0
  BY <1>4
<1> QED BY <1>3, <1>5, Zenon

\* Functions that agree on a set have the same sum over it.
LEMMA SumAgrees ==
  ASSUME NEW S, IsFiniteSet(S), NEW f, NEW g, \A x \in S : f[x] \in Int /\ g[x] = f[x]
  PROVE  SumFunctionOnSet(g, S) = SumFunctionOnSet(f, S)
<1> DEFINE z == [x \in S |-> 0]
<1>1. SumFunctionOnSet(z, S) = 0
  BY SumZero
<1>2. SumFunctionOnSet(g, S) = SumFunctionOnSet(f, S) + SumFunctionOnSet(z, S)
  BY SumAdds
<1>3. SumFunctionOnSet(f, S) \in Int
  BY SumTyped
<1> QED BY <1>1, <1>2, <1>3

\* A sum when one of its terms changes.
LEMMA SumChanges ==
  ASSUME NEW S, IsFiniteSet(S), NEW f, NEW g, NEW x \in S, g[x] \in Int,
         \A y \in S : f[y] \in Int, \A y \in S \ {x} : g[y] = f[y]
  PROVE  SumFunctionOnSet(g, S) = SumFunctionOnSet(f, S) - f[x] + g[x]
<1>1. IsFiniteSet(S \ {x})
  BY FS_Subset
<1>2. SumFunctionOnSet(g, S \ {x}) = SumFunctionOnSet(f, S \ {x})
  BY <1>1, SumAgrees
<1>3. SumFunctionOnSet(f, S \ {x}) \in Int
  BY <1>1, SumTyped
<1>4. SumFunctionOnSet(f, S) = f[x] + SumFunctionOnSet(f, S \ {x})
  BY SumTakeOut
<1>5. \A y \in S : g[y] \in Int
  OBVIOUS
<1>6. SumFunctionOnSet(g, S) = g[x] + SumFunctionOnSet(g, S \ {x})
  BY <1>5, SumTakeOut
<1>7. f[x] \in Int
  OBVIOUS
<1> QED BY <1>2, <1>3, <1>4, <1>6, <1>7

\* A sum of natural numbers is one.
LEMMA SumNotNegative ==
  ASSUME NEW S, IsFiniteSet(S), NEW f, \A x \in S : f[x] \in Nat
  PROVE  SumFunctionOnSet(f, S) \in Nat
<1> DEFINE Bad == {n \in Nat : \E t \in SUBSET S : Cardinality(t) = n /\ SumFunctionOnSet(f, t) \notin Nat}
<1>1. SUFFICES ASSUME SumFunctionOnSet(f, S) \notin Nat PROVE FALSE
  OBVIOUS
<1>2. Cardinality(S) \in Bad
  BY <1>1, FS_CardinalityType
<1>3. PICK n \in Bad : \A m \in Bad : n <= m
  BY <1>2, LeastNumber
<1>4. PICK t \in SUBSET S : Cardinality(t) = n /\ SumFunctionOnSet(f, t) \notin Nat
  BY <1>3
<1> DEFINE u == t \ {Pick(t)}
<1>5. IsFiniteSet(t)
  BY FS_Subset
<1>6. /\ SumFunctionOnSet(f, t) = IF t = {} THEN 0 ELSE f[Pick(t)] + SumFunctionOnSet(f, u)
      /\ t # {}
  <2>1. SumFunctionOnSet(f, t) = IF t = {} THEN 0 ELSE f[Pick(t)] + SumFunctionOnSet(f, u)
    BY <1>5, SumRecurs
  <2>2. t # {}
    BY <1>4, <2>1
  <2> QED BY <2>1, <2>2
<1>7. Pick(t) \in t /\ f[Pick(t)] \in Nat
  BY <1>6, PickIn
<1>8. SumFunctionOnSet(f, u) \notin Nat
  BY <1>4, <1>6, <1>7
<1>9. Cardinality(u) \in Nat /\ Cardinality(u) + 1 = n
  BY <1>4, <1>5, <1>7, OneLess
<1>10. Cardinality(u) \in Bad
  BY <1>8, <1>9
<1>11. n \in Nat /\ n <= Cardinality(u)
  BY <1>3, <1>10
<1> QED BY <1>9, <1>11

\* Rows then columns, or columns then rows.
LEMMA SumSwaps ==
  ASSUME NEW S, NEW T, IsFiniteSet(S), IsFiniteSet(T), NEW m, 
         \A x \in S : \A y \in T : m[x][y] \in Int
  PROVE  SumFunctionOnSet([x \in S |-> SumFunctionOnSet(m[x], T)], S) =
         SumFunctionOnSet([y \in T |-> SumFunctionOnSet([x \in S |-> m[x][y]], S)], T)
<1> DEFINE Rows(U) == SumFunctionOnSet([x \in S |-> SumFunctionOnSet(m[x], T)], U)
           Cols(U) == SumFunctionOnSet([y \in T |-> SumFunctionOnSet([x \in S |-> m[x][y]], U)], T)
           Bad == {n \in Nat : \E U \in SUBSET S : Cardinality(U) = n /\ Rows(U) # Cols(U)}
<1>1. SUFFICES ASSUME Rows(S) # Cols(S) PROVE FALSE
  OBVIOUS
<1>2. Cardinality(S) \in Bad
  BY <1>1, FS_CardinalityType
<1>3. PICK n \in Bad : \A k \in Bad : n <= k
  BY <1>2, LeastNumber
<1>4. PICK U \in SUBSET S : Cardinality(U) = n /\ Rows(U) # Cols(U)
  BY <1>3
<1> DEFINE p == Pick(U)
           V == U \ {p}
<1>5. IsFiniteSet(U)
  BY FS_Subset
<1>6. U # {}
  <2>1. SUFFICES ASSUME U = {} PROVE FALSE
    OBVIOUS
  <2>2. Rows({}) = 0
    BY SumOfNothing
  <2>3. \A y \in T : SumFunctionOnSet([x \in S |-> m[x][y]], {}) = 0
    BY SumOfNothing
  <2>4. Cols({}) = 0
    BY <2>3, SumZero
  <2> QED BY <1>4, <2>1, <2>2, <2>4
<1>7. p \in U /\ p \in S
  BY <1>6, PickIn
<1>8. IsFiniteSet(V) /\ Cardinality(V) \in Nat /\ Cardinality(V) + 1 = n
  BY <1>4, <1>5, <1>7, OneLess
<1>9. Cardinality(V) \notin Bad
  <2>1. ~(n <= Cardinality(V))
    BY <1>8
  <2> QED BY <1>3, <2>1
<1>10. Rows(V) = Cols(V)
  BY <1>8, <1>9
<1>11. Rows(U) = SumFunctionOnSet(m[p], T) + Rows(V)
  <2>1. SumFunctionOnSet([x \in S |-> SumFunctionOnSet(m[x], T)], U) =
        [x \in S |-> SumFunctionOnSet(m[x], T)][p] + SumFunctionOnSet([x \in S |-> SumFunctionOnSet(m[x], T)], V)
    BY <1>5, <1>6, SumRecurs
  <2> QED BY <1>7, <2>1
<1>12. \A y \in T : SumFunctionOnSet([x \in S |-> m[x][y]], U)
                      = m[p][y] + SumFunctionOnSet([x \in S |-> m[x][y]], V)
  <2>1. TAKE y \in T
  <2>2. SumFunctionOnSet([x \in S |-> m[x][y]], U)
          = [x \in S |-> m[x][y]][p] + SumFunctionOnSet([x \in S |-> m[x][y]], V)
    BY <1>5, <1>6, SumRecurs
  <2> QED BY <1>7, <2>2
<1>13. \A y \in T : m[p][y] \in Int /\ SumFunctionOnSet([x \in S |-> m[x][y]], V) \in Int
  <2>1. TAKE y \in T
  <2>2. \A x \in V : [x_1 \in S |-> m[x_1][y]][x] \in Int
    OBVIOUS
  <2>3. SumFunctionOnSet([x \in S |-> m[x][y]], V) \in Int
    BY <1>8, <2>2, SumTyped
  <2> QED BY <1>7, <2>3
<1>14. Cols(U) = SumFunctionOnSet(m[p], T) + Cols(V)
  <2> DEFINE a == m[p]
             b == [y \in T |-> SumFunctionOnSet([x \in S |-> m[x][y]], V)]
             c == [y \in T |-> SumFunctionOnSet([x \in S |-> m[x][y]], U)]
  <2>1. \A y \in T : a[y] \in Int /\ b[y] \in Int /\ c[y] = a[y] + b[y]
    BY <1>12, <1>13
  <2> HIDE DEF a, b, c
  <2>2. SumFunctionOnSet(c, T) = SumFunctionOnSet(a, T) + SumFunctionOnSet(b, T)
    BY <2>1, SumAdds
  <2> QED BY <2>2 DEF a, b, c
<1> QED BY <1>4, <1>10, <1>11, <1>14

\* Zeros may be added to a sum.
LEMMA SumPads ==
  ASSUME NEW T, IsFiniteSet(T), NEW S, S \subseteq T, NEW f, NEW g,
         \A x \in S : f[x] \in Int /\ g[x] = f[x], \A x \in T \ S : g[x] = 0
  PROVE  SumFunctionOnSet(g, T) = SumFunctionOnSet(f, S)
<1> DEFINE Fails(U) == SumFunctionOnSet(g, U) # SumFunctionOnSet(f, S)
           Bad == {n \in Nat : \E U \in SUBSET T : S \subseteq U /\ Cardinality(U) = n /\ Fails(U)}
<1>1. SUFFICES ASSUME Fails(T) PROVE FALSE
  OBVIOUS
<1>2. Cardinality(T) \in Bad
  BY <1>1, FS_CardinalityType
<1>3. PICK n \in Bad : \A m \in Bad : n <= m
  BY <1>2, LeastNumber
<1>4. PICK U \in SUBSET T : S \subseteq U /\ Cardinality(U) = n /\ Fails(U)
  BY <1>3
<1>5. IsFiniteSet(U) /\ IsFiniteSet(S)
  BY FS_Subset
<1>6. U # S
  BY <1>4, <1>5, SumAgrees
<1>7. PICK x \in U : x \notin S
  BY <1>4, <1>6
<1> DEFINE V == U \ {x}
<1>8. IsFiniteSet(V) /\ Cardinality(V) \in Nat /\ Cardinality(V) + 1 = n
  BY <1>4, <1>5, <1>7, OneLess
<1>9. \A y \in U : g[y] \in Int
  OBVIOUS
<1>10. SumFunctionOnSet(g, U) = 0 + SumFunctionOnSet(g, V)
  BY <1>5, <1>7, <1>9, SumTakeOut
<1>11. SumFunctionOnSet(g, V) \in Int
  BY <1>8, <1>9, SumTyped
<1>12. Fails(V)
  BY <1>4, <1>10, <1>11
<1>13. Cardinality(V) \in Bad
  BY <1>4, <1>7, <1>8, <1>12
<1>14. n \in Nat /\ n <= Cardinality(V)
  BY <1>3, <1>13
<1> QED BY <1>8, <1>14

\* A sum of larger terms is larger.
LEMMA SumMonotone ==
  ASSUME NEW S, IsFiniteSet(S), NEW f, NEW g,
         \A x \in S : f[x] \in Int /\ g[x] \in Int /\ f[x] <= g[x]
  PROVE  SumFunctionOnSet(f, S) <= SumFunctionOnSet(g, S)
<1> DEFINE d == [x \in S |-> g[x] - f[x]]
<1>1. \A x \in S : d[x] \in Nat /\ d[x] \in Int /\ g[x] = f[x] + d[x]
  OBVIOUS
<1> HIDE DEF d
<1>2. SumFunctionOnSet(d, S) \in Nat
  BY <1>1, SumNotNegative
<1>3. SumFunctionOnSet(g, S) = SumFunctionOnSet(f, S) + SumFunctionOnSet(d, S)
  BY <1>1, SumAdds
<1>4. SumFunctionOnSet(f, S) \in Int /\ SumFunctionOnSet(g, S) \in Int
  BY SumTyped
<1> QED BY <1>2, <1>3, <1>4

\* Multiplication distributes, in the form the sums need it.
LEMMA Distributes == \A k, a, b \in Int : k * (a + b) = k * a + k * b /\ k * a \in Int
  OBVIOUS

\* A factor may be taken out of a sum.
LEMMA SumScales ==
  ASSUME NEW S, IsFiniteSet(S), NEW k \in Int, NEW f, NEW g,
         \A x \in S : f[x] \in Int /\ g[x] = k * f[x]
  PROVE  SumFunctionOnSet(g, S) = k * SumFunctionOnSet(f, S)
<1> DEFINE Fails(t) == SumFunctionOnSet(g, t) # k * SumFunctionOnSet(f, t)
           Bad == {n \in Nat : \E t \in SUBSET S : Cardinality(t) = n /\ Fails(t)}
<1>1. SUFFICES ASSUME Fails(S) PROVE FALSE
  OBVIOUS
<1>2. Cardinality(S) \in Bad
  BY <1>1, FS_CardinalityType
<1>3. PICK n \in Bad : \A m \in Bad : n <= m
  BY <1>2, LeastNumber
<1>4. PICK t \in SUBSET S : Cardinality(t) = n /\ Fails(t)
  BY <1>3
<1> DEFINE p == Pick(t)
           u == t \ {p}
<1>5. t # {}
  <2>1. /\ SumFunctionOnSet(f, {}) = 0
        /\ SumFunctionOnSet(g, {}) = 0
    BY SumOfNothing
  <2>2. ~Fails({})
    BY <2>1
  <2> QED BY <1>4, <2>2
<1>6. IsFiniteSet(t) /\ p \in t
  BY <1>5, FS_Subset, PickIn
<1>7. /\ SumFunctionOnSet(f, t) = f[p] + SumFunctionOnSet(f, u)
      /\ SumFunctionOnSet(g, t) = g[p] + SumFunctionOnSet(g, u)
  BY <1>5, <1>6, SumRecurs
<1>8. IsFiniteSet(u) /\ Cardinality(u) \in Nat /\ Cardinality(u) + 1 = n
  BY <1>4, <1>6, OneLess
<1>9. Cardinality(u) \notin Bad
  <2>1. ~(n <= Cardinality(u))
    BY <1>8
  <2> QED BY <1>3, <2>1
<1>10. ~Fails(u)
  BY <1>8, <1>9
<1>11. SumFunctionOnSet(f, u) \in Int
  BY <1>8, SumTyped
<1>12. f[p] \in Int /\ g[p] = k * f[p]
  BY <1>6
<1>13. k * (f[p] + SumFunctionOnSet(f, u)) = k * f[p] + k * SumFunctionOnSet(f, u)
  BY <1>11, <1>12, Distributes
<1> HIDE DEF u, p
<1>14. ~Fails(t)
  BY <1>7, <1>10, <1>12, <1>13
<1> QED BY <1>4, <1>14

-----------------------------------------------------------------------------
(* What purses, accounts, the queue and the table hold together *)

\* The fields of a purse.
Goodies == {"gold", "goods", "coins"}
\* Purses, solvent or not, and what accounts hold.
Purses == [Players -> [gold : Int, goods : Int, coins : Int]]
Accounts == [Players -> Int]
\* What market_offers, or a snapshot of it, can hold.
Tables == UNION {[D -> Row] : D \in SUBSET OfferIds}
\* The tasks that addCoins queues.
Updates == [player : Players, coins : Int]

\* Offers and players are finitely many.
LEMMA OfferIdsFinite == IsFiniteSet(OfferIds) /\ IsFiniteSet(Players) /\ OfferIds \subseteq Nat
<1>1. IsFiniteSet(Players) /\ MaxOffers \in Nat
  BY MarketAssumption
<1>2. PICK m \in Nat : m = MaxOffers
  BY <1>1
<1>3. IsFiniteSet(1..m)
  BY FS_Interval
<1>4. 1..m \subseteq Nat
  OBVIOUS
<1> QED BY <1>1, <1>2, <1>3, <1>4 DEF OfferIds

\* A total over the players, when one player's part changes.
LEMMA TotalChanges ==
  ASSUME NEW f \in Accounts, NEW g \in Accounts, NEW p \in Players, NEW n \in Int,
         \A q \in Players \ {p} : g[q] = f[q], g[p] = f[p] + n
  PROVE  SumFunction(g) = SumFunction(f) + n
<1>1. IsFiniteSet(Players)
  BY OfferIdsFinite
<1>2. /\ \A q \in Players : f[q] \in Int /\ g[q] \in Int
      /\ DOMAIN f = Players /\ DOMAIN g = Players
  BY DEF Accounts
<1>3. SumFunctionOnSet(g, Players) = SumFunctionOnSet(f, Players) - f[p] + g[p]
  BY <1>1, <1>2, SumChanges
<1>4. SumFunctionOnSet(f, Players) \in Int
  BY <1>1, <1>2, SumTyped
<1>5. SumFunctionOnSet(g, Players) = SumFunctionOnSet(f, Players) + n
  BY <1>2, <1>3, <1>4
<1> QED BY <1>2, <1>5 DEF SumFunction

\* A total over the players is an integer.
LEMMA TotalTyped ==
  ASSUME NEW f \in Accounts
  PROVE  SumFunction(f) \in Int
<1>1. SumFunctionOnSet(f, Players) \in Int
  BY OfferIdsFinite, SumTyped DEF Accounts
<1> QED BY <1>1 DEF SumFunction, Accounts

\* Giving a player something (or, negative, taking it) changes that total only.
LEMMA GiveAdds ==
  ASSUME NEW Q \in Purses, NEW p \in Players, NEW what \in Goodies, NEW n \in Int,
         NEW accounts \in Accounts
  PROVE  /\ Give(Q, p, what, n) \in Purses
         /\ Gold(Give(Q, p, what, n)) = Gold(Q) + (IF what = "gold" THEN n ELSE 0)
         /\ Goods(Give(Q, p, what, n)) = Goods(Q) + (IF what = "goods" THEN n ELSE 0)
         /\ Coins(Give(Q, p, what, n), accounts) = Coins(Q, accounts) + (IF what = "coins" THEN n ELSE 0)
<1> DEFINE R == Give(Q, p, what, n)
<1>1. R \in Purses
  BY DEF Give, Purses, Goodies
<1>2. /\ \A q \in Players \ {p} : R[q] = Q[q]
      /\ R[p].gold = Q[p].gold + (IF what = "gold" THEN n ELSE 0)
      /\ R[p].goods = Q[p].goods + (IF what = "goods" THEN n ELSE 0)
      /\ R[p].coins = Q[p].coins + (IF what = "coins" THEN n ELSE 0)
  BY DEF Give, Purses, Goodies
<1>3. \A q \in Players : /\ Q[q].gold \in Int /\ Q[q].goods \in Int /\ Q[q].coins \in Int
                         /\ R[q].gold \in Int /\ R[q].goods \in Int /\ R[q].coins \in Int
                         /\ accounts[q] \in Int
  BY <1>1 DEF Purses, Accounts
<1> HIDE DEF R
<1>4. Gold(R) = Gold(Q) + (IF what = "gold" THEN n ELSE 0)
  <2> DEFINE f == [q \in Players |-> Q[q].gold]
             g == [q \in Players |-> R[q].gold]
             d == IF what = "gold" THEN n ELSE 0
  <2>1. /\ f \in Accounts /\ g \in Accounts /\ d \in Int
        /\ \A q \in Players \ {p} : g[q] = f[q]
        /\ g[p] = f[p] + d
    BY <1>2, <1>3 DEF Accounts
  <2> HIDE DEF f, g, d
  <2>2. SumFunction(g) = SumFunction(f) + d
    BY <2>1, TotalChanges
  <2> QED BY <2>2 DEF Gold, f, g, d
<1>5. Goods(R) = Goods(Q) + (IF what = "goods" THEN n ELSE 0)
  <2> DEFINE f == [q \in Players |-> Q[q].goods]
             g == [q \in Players |-> R[q].goods]
             d == IF what = "goods" THEN n ELSE 0
  <2>1. /\ f \in Accounts /\ g \in Accounts /\ d \in Int
        /\ \A q \in Players \ {p} : g[q] = f[q]
        /\ g[p] = f[p] + d
    BY <1>2, <1>3 DEF Accounts
  <2> HIDE DEF f, g, d
  <2>2. SumFunction(g) = SumFunction(f) + d
    BY <2>1, TotalChanges
  <2> QED BY <2>2 DEF Goods, f, g, d
<1>6. Coins(R, accounts) = Coins(Q, accounts) + (IF what = "coins" THEN n ELSE 0)
  <2> DEFINE f == [q \in Players |-> Q[q].coins + accounts[q]]
             g == [q \in Players |-> R[q].coins + accounts[q]]
             d == IF what = "coins" THEN n ELSE 0
  <2>1. /\ f \in Accounts /\ g \in Accounts /\ d \in Int
        /\ \A q \in Players \ {p} : g[q] = f[q]
        /\ g[p] = f[p] + d
    BY <1>2, <1>3 DEF Accounts
  <2> HIDE DEF f, g, d
  <2>2. SumFunction(g) = SumFunction(f) + d
    BY <2>1, TotalChanges
  <2> QED BY <2>2 DEF Coins, f, g, d
<1> QED BY <1>1, <1>4, <1>5, <1>6 DEF R

\* The totals of purses are integers.
LEMMA TotalsTyped ==
  ASSUME NEW Q \in Purses, NEW accounts \in Accounts
  PROVE  Gold(Q) \in Int /\ Goods(Q) \in Int /\ Coins(Q, accounts) \in Int
<1>1. /\ [q \in Players |-> Q[q].gold] \in Accounts
      /\ [q \in Players |-> Q[q].goods] \in Accounts
      /\ [q \in Players |-> Q[q].coins + accounts[q]] \in Accounts
  BY DEF Purses, Accounts
<1> QED BY <1>1, TotalTyped DEF Gold, Goods, Coins

\* What an offer of a table holds, if it is there and of the kind asked for.
Holds(table, i, sale, kind) ==
  IF i \in DOMAIN table /\ table[i].sale = sale /\ table[i].kind = kind THEN table[i].amount ELSE 0

\* What a table holds, offer by offer.
HeldBy(table, sale, kind) == [i \in OfferIds |-> Holds(table, i, sale, kind)]

\* A table has offers under ids.
LEMMA TableTyped ==
  ASSUME NEW table \in Tables
  PROVE  /\ DOMAIN table \subseteq OfferIds
         /\ \A i \in DOMAIN table : table[i] \in Row
         /\ table = [i \in DOMAIN table |-> table[i]]
<1>1. PICK D \in SUBSET OfferIds : table \in [D -> Row]
  BY DEF Tables
<1> QED BY <1>1

\* An offer holds a natural number of pieces.
LEMMA HoldsTyped ==
  ASSUME NEW table \in Tables, NEW i, NEW sale, NEW kind
  PROVE  Holds(table, i, sale, kind) \in Nat
  BY TableTyped, MarketAssumption DEF Holds, Row, Amounts

\* What a table holds is a sum over all ids.
LEMMA HeldPads ==
  ASSUME NEW table \in Tables, NEW sale, NEW kind
  PROVE  /\ Held(table, sale, kind) = SumFunctionOnSet(HeldBy(table, sale, kind), OfferIds)
         /\ Held(table, sale, kind) \in Nat
<1> DEFINE S == {i \in DOMAIN table : table[i].sale = sale /\ table[i].kind = kind}
           f == [i \in DOMAIN table |-> table[i].amount]
           g == HeldBy(table, sale, kind)
<1>1. S \subseteq OfferIds /\ IsFiniteSet(OfferIds)
  BY TableTyped, OfferIdsFinite
<1>2. \A i \in OfferIds : g[i] = Holds(table, i, sale, kind) /\ g[i] \in Nat
  BY HoldsTyped DEF HeldBy
<1>3. \A i \in S : f[i] = Holds(table, i, sale, kind) /\ f[i] \in Int
  BY HoldsTyped DEF Holds
<1>4. \A i \in OfferIds \ S : g[i] = 0
  BY <1>2 DEF Holds
<1>5. \A i \in S : f[i] \in Int /\ g[i] = f[i]
  BY <1>1, <1>2, <1>3
<1> HIDE DEF f, g, S
<1>6. SumFunctionOnSet(g, OfferIds) = SumFunctionOnSet(f, S)
  BY <1>1, <1>4, <1>5, SumPads
<1>7. SumFunctionOnSet(g, OfferIds) \in Nat
  BY <1>1, <1>2, SumNotNegative
<1>8. Held(table, sale, kind) = SumFunctionOnSet(f, S)
  BY DEF Held, f, S
<1> QED BY <1>6, <1>7, <1>8 DEF g

\* A change of one offer changes what the table holds by what that offer holds.
LEMMA HeldChanges ==
  ASSUME NEW table \in Tables, NEW after \in Tables, NEW id \in OfferIds, NEW sale, NEW kind,
         \A i \in OfferIds \ {id} : Holds(after, i, sale, kind) = Holds(table, i, sale, kind)
  PROVE  Held(after, sale, kind) =
           Held(table, sale, kind) - Holds(table, id, sale, kind) + Holds(after, id, sale, kind)
<1> DEFINE f == HeldBy(table, sale, kind)
           g == HeldBy(after, sale, kind)
<1>1. /\ \A i \in OfferIds : f[i] = Holds(table, i, sale, kind) /\ f[i] \in Int
      /\ \A i \in OfferIds : g[i] = Holds(after, i, sale, kind) /\ g[i] \in Int
  BY HoldsTyped DEF HeldBy
<1>2. \A i \in OfferIds \ {id} : g[i] = f[i]
  BY <1>1
<1>3. /\ Held(table, sale, kind) = SumFunctionOnSet(f, OfferIds)
      /\ Held(after, sale, kind) = SumFunctionOnSet(g, OfferIds)
  BY HeldPads
<1> HIDE DEF f, g
<1>4. g[id] \in Int /\ IsFiniteSet(OfferIds) /\ \A i \in OfferIds : f[i] \in Int
  BY <1>1, OfferIdsFinite
<1>5. SumFunctionOnSet(g, OfferIds) = SumFunctionOnSet(f, OfferIds) - f[id] + g[id]
  BY <1>2, <1>4, SumChanges
<1> QED BY <1>1, <1>3, <1>5

\* The tasks of the database thread, and what each will do to all accounts together.
Task == {Query} \union Updates
Worth(t) == IF t = Query THEN 0 ELSE t.coins
Worths(queue) == [i \in DOMAIN queue |-> Worth(queue[i])]

\* A change of coins is not the query.
LEMMA TasksDiffer == \A u \in Updates : u # Query
<1> SUFFICES ASSUME NEW u \in Updates, u = Query PROVE FALSE
  OBVIOUS
<1>1. DOMAIN u = {"player", "coins"} /\ DOMAIN Query = {"expired"}
  BY DEF Updates, Query
<1> QED BY <1>1

\* What a queue is worth is a sum of integers over its places.
LEMMA WorthTyped ==
  ASSUME NEW queue \in Seq(Task)
  PROVE  /\ \A i \in 1..Len(queue) : Worths(queue)[i] \in Int /\ Worths(queue)[i] = Worth(queue[i])
         /\ Queued(queue) = SumFunctionOnSet(Worths(queue), 1..Len(queue))
         /\ Queued(queue) \in Int
         /\ IsFiniteSet(1..Len(queue))
<1>1. \A t \in Task : Worth(t) \in Int
  BY TasksDiffer DEF Task, Worth, Updates
<1>2. DOMAIN queue = 1..Len(queue) /\ Len(queue) \in Nat /\ \A i \in 1..Len(queue) : queue[i] \in Task
  OBVIOUS
<1>3. IsFiniteSet(1..Len(queue))
  BY <1>2, FS_Interval
<1>4. \A i \in 1..Len(queue) : Worths(queue)[i] \in Int /\ Worths(queue)[i] = Worth(queue[i])
  BY <1>1, <1>2 DEF Worths
<1>5. Queued(queue) = SumFunction(Worths(queue)) /\ DOMAIN Worths(queue) = 1..Len(queue)
  BY <1>2 DEF Queued, Worths, Worth
<1>6. Queued(queue) = SumFunctionOnSet(Worths(queue), 1..Len(queue))
  BY <1>5 DEF SumFunction
<1>7. SumFunctionOnSet(Worths(queue), 1..Len(queue)) \in Int
  BY <1>3, <1>4, SumTyped
<1> QED BY <1>3, <1>4, <1>6, <1>7

\* A task put at the end of the queue adds what it is worth.
LEMMA QueuedAppend ==
  ASSUME NEW queue \in Seq(Task), NEW t \in Task
  PROVE  Append(queue, t) \in Seq(Task) /\ Queued(Append(queue, t)) = Queued(queue) + Worth(t)
<1> DEFINE longer == Append(queue, t)
           n == Len(queue) + 1
<1>1. /\ longer \in Seq(Task) /\ Len(longer) = n /\ longer[n] = t
      /\ \A i \in 1..Len(queue) : longer[i] = queue[i]
      /\ n \in 1..n /\ (1..n) \ {n} = 1..Len(queue)
  OBVIOUS
<1> HIDE DEF longer, n
<1>2. /\ Queued(longer) = SumFunctionOnSet(Worths(longer), 1..n)
      /\ IsFiniteSet(1..n)
      /\ \A i \in 1..n : Worths(longer)[i] \in Int /\ Worths(longer)[i] = Worth(longer[i])
  BY <1>1, WorthTyped
<1>3. /\ Queued(queue) = SumFunctionOnSet(Worths(queue), 1..Len(queue))
      /\ IsFiniteSet(1..Len(queue)) /\ Queued(queue) \in Int
      /\ \A i \in 1..Len(queue) : Worths(queue)[i] \in Int /\ Worths(queue)[i] = Worth(queue[i])
  BY WorthTyped
<1>4. SumFunctionOnSet(Worths(longer), 1..n) = Worths(longer)[n] + SumFunctionOnSet(Worths(longer), (1..n) \ {n})
  <2>1. PICK T, w : T = 1..n /\ w = Worths(longer)
    OBVIOUS
  <2>2. IsFiniteSet(T) /\ n \in T /\ \A i \in T : w[i] \in Int
    BY <1>1, <1>2, <2>1
  <2>3. SumFunctionOnSet(w, T) = w[n] + SumFunctionOnSet(w, T \ {n})
    BY <2>2, SumTakeOut
  <2> QED BY <2>1, <2>3
<1>5. \A i \in 1..Len(queue) : i \in 1..n
  BY <1>1
<1>6. \A i \in 1..Len(queue) : Worths(longer)[i] = Worths(queue)[i] /\ Worths(queue)[i] \in Int
  BY <1>1, <1>2, <1>3, <1>5
<1>7. SumFunctionOnSet(Worths(longer), 1..Len(queue)) = SumFunctionOnSet(Worths(queue), 1..Len(queue))
  BY <1>3, <1>6, SumAgrees
<1>8. Worths(longer)[n] = Worth(t) /\ Worth(t) \in Int
  BY <1>1, <1>2
<1>9. SumFunctionOnSet(Worths(longer), (1..n) \ {n}) = Queued(queue)
  BY <1>1, <1>3, <1>7
<1>10. Queued(longer) = Worth(t) + Queued(queue)
  BY <1>2, <1>4, <1>8, <1>9
<1>11. Queued(longer) = Queued(queue) + Worth(t)
  BY <1>3, <1>8, <1>10
<1> QED BY <1>1, <1>11 DEF longer

\* An empty queue is worth nothing.
LEMMA QueuedEmpty == Queued(<< >>) = 0
<1>1. << >> \in Seq(Task) /\ 1..Len(<< >>) = {}
  OBVIOUS
<1> QED BY <1>1, WorthTyped, SumOfNothing

\* The oldest task leaves the queue with what it is worth.
LEMMA QueuedTail ==
  ASSUME NEW queue \in Seq(Task), queue # << >>
  PROVE  /\ Tail(queue) \in Seq(Task) /\ Head(queue) \in Task
         /\ Queued(queue) = Worth(Head(queue)) + Queued(Tail(queue))
<1> DEFINE Fails(q) == q # << >> /\ Queued(q) # Worth(Head(q)) + Queued(Tail(q))
           Bad == {n \in Nat : \E q \in Seq(Task) : Len(q) = n /\ Fails(q)}
<1>1. SUFFICES ASSUME Fails(queue) PROVE FALSE
  OBVIOUS
<1>2. Len(queue) \in Bad
  BY <1>1
<1>3. PICK n \in Bad : \A m \in Bad : n <= m
  BY <1>2, LeastNumber
<1>4. PICK q \in Seq(Task) : Len(q) = n /\ Fails(q)
  BY <1>3
<1>5. /\ n \in Nat /\ q # << >> /\ Queued(q) # Worth(Head(q)) + Queued(Tail(q))
  BY <1>4
<1>6. PICK front \in Seq(Task), last \in Task : q = Append(front, last)
  BY <1>5, SequenceEmptyOrAppend
<1>8. Queued(q) = Queued(front) + Worth(last)
  BY <1>6, QueuedAppend
<1>9. /\ Head(q) = IF front = << >> THEN last ELSE Head(front)
      /\ Tail(q) = IF front = << >> THEN << >> ELSE Append(Tail(front), last)
  BY <1>6, HeadTailAppend
<1>10. \A t \in Task : Worth(t) \in Int
  BY TasksDiffer DEF Task, Worth, Updates
<1>11. CASE front = << >>
  <2>1. Head(q) = last /\ Tail(q) = << >> /\ Queued(front) = 0 /\ Queued(Tail(q)) = 0 /\ Worth(last) \in Int
    BY <1>6, <1>9, <1>10, <1>11, QueuedEmpty
  <2> QED BY <1>5, <1>8, <2>1
<1>12. CASE front # << >>
  <2>1. Tail(front) \in Seq(Task) /\ Head(front) \in Task /\ Len(front) \in Nat /\ Len(front) + 1 = n
    BY <1>4, <1>6, <1>12
  <2>2. Queued(Tail(q)) = Queued(Tail(front)) + Worth(last)
    BY <1>9, <1>12, <2>1, QueuedAppend
  <2>3. ~Fails(front)
    <3>1. ~(n <= Len(front))
      BY <2>1
    <3>2. Len(front) \notin Bad
      BY <1>3, <3>1
    <3> QED BY <2>1, <3>2
  <2>4. Queued(front) = Worth(Head(q)) + Queued(Tail(front))
    BY <1>9, <1>12, <2>3
  <2>5. /\ Worth(last) \in Int /\ Worth(Head(q)) \in Int /\ Queued(Tail(front)) \in Int
    BY <1>9, <1>10, <1>12, <2>1, WorthTyped
  <2>6. Queued(q) = Worth(Head(q)) + Queued(Tail(q))
    BY <1>8, <2>2, <2>4, <2>5
  <2> QED BY <1>5, <2>6
<1> QED BY <1>11, <1>12

\* addCoins: what it queues is worth what it adds.
LEMMA TaskMade ==
  ASSUME NEW p \in Players, NEW n \in Int
  PROVE  AddCoins(p, n) \in Task /\ Worth(AddCoins(p, n)) = n
<1>1. AddCoins(p, n) \in Updates /\ AddCoins(p, n).coins = n
  BY DEF AddCoins, Updates
<1> QED BY <1>1, TasksDiffer DEF Task, Worth

-----------------------------------------------------------------------------
\* Nobody owes gold, goods or coins in the form of items.
Solvent(Q) == Q \in Purses /\ \A p \in Players : \A what \in Goodies : Q[p][what] >= 0

\* The types, in a form a step can be followed in.
MarketTyped ==
  /\ offers \in Tables
  /\ nextId \in 1..(MaxOffers + 1)
  /\ Solvent(purse)
  /\ account \in Accounts /\ cached \in Accounts
  /\ tasks \in Seq(Task)
  /\ replies \in Seq(Tables)
  /\ raced \subseteq OfferIds

\* A row of a snapshot against the offer it was taken from: the same offer, and no
\* smaller unless it was partly accepted since.
Fits(row, i) ==
  /\ offers[i].player = row.player /\ offers[i].sale = row.sale /\ offers[i].kind = row.kind
  /\ offers[i].amount <= row.amount
  /\ i \notin raced => offers[i].amount = row.amount

\* Every row on its way to processExpiredOffers fits the table, should its offer
\* still be there; ids are never used again, so it is the offer it was.
SnapshotsFit ==
  \A r \in DOMAIN replies : \A i \in DOMAIN replies[r] :
    i < nextId /\ (i \in DOMAIN offers => Fits(replies[r][i], i))

\* What a step moves: into the purses, into the queue, into the table.
GoldMoved == Gold(purse') - Gold(purse)
GoodsMoved == Goods(purse') - Goods(purse)
CoinsMoved == Coins(purse', account') - Coins(purse, account)
QueuedMoved == Queued(tasks') - Queued(tasks)
HeldMoved(sale, kind) == Held(offers', sale, kind) - Held(offers, sale, kind)

\* A step that moves gold, goods and coins about and makes or loses none.
Balanced == GoldGained' = GoldGained /\ GoodsGained' = GoodsGained /\ CoinsGained' = CoinsGained

\* The inductive invariant of Conserved.
BalanceInv == MarketInv /\ MarketTyped /\ SnapshotsFit /\ NothingLost /\ NothingCreated

\* Giving changes one field of one purse.
LEMMA GiveAt ==
  ASSUME NEW Q \in Purses, NEW p \in Players, NEW what \in Goodies, NEW n \in Int
  PROVE  /\ Give(Q, p, what, n) \in Purses
         /\ \A q \in Players : \A w \in Goodies :
              Give(Q, p, what, n)[q][w] = Q[q][w] + (IF q = p /\ w = what THEN n ELSE 0)
<1>1. Give(Q, p, what, n) \in Purses
  BY DEF Give, Purses, Goodies
<1>2. ASSUME NEW q \in Players, NEW w \in Goodies
      PROVE  Give(Q, p, what, n)[q][w] = Q[q][w] + (IF q = p /\ w = what THEN n ELSE 0)
  BY DEF Give, Purses, Goodies
<1> QED BY <1>1, <1>2

\* A function from ids to rows is a table.
LEMMA IsTable == ASSUME NEW D \in SUBSET OfferIds, NEW t \in [D -> Row] PROVE t \in Tables
  BY DEF Tables

\* createOffer: the table holds the new offer too.
LEMMA InsertHolds ==
  ASSUME MarketTyped, SnapshotsFit, IdsPassed,
         NEW p \in Players, NEW sale \in BOOLEAN, NEW kind \in Kinds, NEW n \in Amounts,
         Insert(p, sale, kind, n), UNCHANGED <<replies, raced>>
  PROVE  /\ offers' \in Tables /\ nextId' \in 1..(MaxOffers + 1) /\ nextId' = nextId + 1
         /\ SnapshotsFit'
         /\ \A s \in BOOLEAN, k \in Kinds :
              HeldMoved(s, k) = (IF s = sale /\ k = kind THEN n ELSE 0)
<1> DEFINE row == [player |-> p, sale |-> sale, kind |-> kind, amount |-> n, expired |-> FALSE]
           D == DOMAIN offers \union {nextId}
<1>1. /\ offers \in Tables /\ nextId \in OfferIds /\ n \in Nat /\ DOMAIN offers \subseteq OfferIds
      /\ \A i \in DOMAIN offers : offers[i] \in Row
      /\ nextId' = nextId + 1 /\ nextId' \in 1..(MaxOffers + 1) /\ nextId \notin DOMAIN offers
  <2>1. offers \in Tables /\ nextId \in 1..(MaxOffers + 1)
    BY DEF MarketTyped
  <2>2. DOMAIN offers \subseteq OfferIds /\ \A i \in DOMAIN offers : offers[i] \in Row
    BY <2>1, TableTyped
  <2>3. nextId <= MaxOffers /\ nextId' = nextId + 1
    BY DEF Insert
  <2>4. MaxOffers \in Nat /\ MaxAmount \in Nat
    BY MarketAssumption
  <2>5. nextId \in OfferIds /\ nextId' \in 1..(MaxOffers + 1) /\ n \in Nat
    BY <2>1, <2>3, <2>4 DEF OfferIds, Amounts
  <2>6. nextId \notin DOMAIN offers
    <3>1. ASSUME nextId \in DOMAIN offers PROVE FALSE
      <4>1. nextId \in DOMAIN ledger
        BY <3>1 DEF IdsPassed
      <4>2. nextId \in Nat /\ nextId < nextId
        BY <4>1 DEF IdsPassed
      <4> QED BY <4>2
    <3> QED BY <3>1
  <2> QED BY <2>1, <2>2, <2>3, <2>5, <2>6
<1>2. row \in Row /\ row.sale = sale /\ row.kind = kind /\ row.amount = n
  BY DEF Row
<1> HIDE DEF row
<1>3. offers' = [i \in D |-> IF i = nextId THEN row ELSE offers[i]]
  BY DEF Insert, Extended, row
<1>4. offers' \in Tables
  <2>1. offers' \in [D -> Row] /\ D \in SUBSET OfferIds
    BY <1>1, <1>2, <1>3
  <2> QED BY <2>1, IsTable
<1>5. /\ DOMAIN offers' = D /\ offers'[nextId] = row
      /\ \A i \in DOMAIN offers : offers'[i] = offers[i]
  BY <1>1, <1>3
<1>6. SnapshotsFit'
  <2> SUFFICES ASSUME NEW r \in DOMAIN replies, NEW i \in DOMAIN replies[r]
               PROVE  i < nextId' /\ (i \in DOMAIN offers' => Fits(replies[r][i], i)')
    BY DEF SnapshotsFit
  <2>1. i < nextId /\ (i \in DOMAIN offers => Fits(replies[r][i], i))
    BY DEF SnapshotsFit
  <2>2. i \in OfferIds
    BY TableTyped DEF MarketTyped
  <2>3. i < nextId' /\ i # nextId
    BY <1>1, <2>1, <2>2, MarketAssumption DEF OfferIds
  <2> QED BY <1>5, <2>1, <2>3 DEF Fits
<1>7. ASSUME NEW s \in BOOLEAN, NEW k \in Kinds
      PROVE  HeldMoved(s, k) = (IF s = sale /\ k = kind THEN n ELSE 0)
  <2>1. \A i \in OfferIds \ {nextId} : Holds(offers', i, s, k) = Holds(offers, i, s, k)
    BY <1>5 DEF Holds
  <2>2. /\ Holds(offers, nextId, s, k) = 0
        /\ Holds(offers', nextId, s, k) = (IF s = sale /\ k = kind THEN n ELSE 0)
    BY <1>1, <1>2, <1>5 DEF Holds
  <2>3. Held(offers', s, k) = Held(offers, s, k) - Holds(offers, nextId, s, k) + Holds(offers', nextId, s, k)
    BY <1>1, <1>4, <2>1, HeldChanges
  <2>4. Held(offers, s, k) \in Nat
    BY <1>1, HeldPads
  <2> QED BY <1>1, <2>2, <2>3, <2>4 DEF HeldMoved
<1> QED BY <1>1, <1>4, <1>6, <1>7

\* deleteOffer or acceptOffer: the table holds what was accepted no more.
LEMMA SettleHolds ==
  ASSUME MarketTyped, SnapshotsFit, NEW id \in DOMAIN offers, NEW n \in Amounts, n <= offers[id].amount,
         Settle(id, n), UNCHANGED <<replies, nextId>>
  PROVE  /\ offers' \in Tables /\ raced \subseteq raced' /\ raced' \subseteq OfferIds
         /\ SnapshotsFit'
         /\ \A s \in BOOLEAN, k \in Kinds :
              HeldMoved(s, k) = (IF s = offers[id].sale /\ k = offers[id].kind THEN -n ELSE 0)
<1>1. /\ offers \in Tables /\ n \in Nat /\ DOMAIN offers \subseteq OfferIds
      /\ \A i \in DOMAIN offers : offers[i] \in Row
      /\ offers[id] \in Row /\ offers[id].amount \in Nat /\ id \in OfferIds
      /\ offers = [i \in DOMAIN offers |-> offers[i]]
  <2>1. offers \in Tables
    BY DEF MarketTyped
  <2> QED BY <2>1, MarketAssumption, TableTyped DEF Amounts, Row
<1>2. raced \subseteq raced' /\ raced' \subseteq OfferIds
  BY <1>1 DEF Settle, MarketTyped
<1> DEFINE left == offers[id].amount - n
<1>3. /\ offers' \in Tables
      /\ \A i \in OfferIds \ {id} : i \in DOMAIN offers' <=> i \in DOMAIN offers
      /\ \A i \in OfferIds \ {id} : i \in DOMAIN offers => offers'[i] = offers[i]
      /\ id \in DOMAIN offers' <=> left # 0
      /\ left # 0 => offers'[id] = [offers[id] EXCEPT !.amount = left]
  <2>1. CASE offers[id].amount = n
    <3>1. offers' = [i \in DOMAIN offers \ {id} |-> offers[i]]
      BY <2>1 DEF Settle, Removed
    <3>2. offers' \in [DOMAIN offers \ {id} -> Row] /\ left = 0
      BY <1>1, <2>1, <3>1
    <3>3. offers' \in Tables
      BY <1>1, <3>2, IsTable
    <3> QED BY <3>1, <3>2, <3>3
  <2>2. CASE offers[id].amount # n
    <3>1. offers' = [offers EXCEPT ![id].amount = @ - n]
      BY <2>2 DEF Settle
    <3>2. left \in Amounts /\ left # 0
      <4>1. offers[id].amount \in 1..MaxAmount /\ MaxAmount \in Nat /\ n \in 1..MaxAmount
        BY <1>1, MarketAssumption DEF Row, Amounts
      <4> QED BY <2>2, <4>1 DEF Amounts
    <3>3. [offers[id] EXCEPT !.amount = left] \in Row
      BY <1>1, <3>2 DEF Row
    <3>4. /\ DOMAIN offers' = DOMAIN offers /\ offers'[id] = [offers[id] EXCEPT !.amount = left]
          /\ \A i \in DOMAIN offers \ {id} : offers'[i] = offers[i]
      BY <3>1
    <3>5. offers' \in [DOMAIN offers -> Row]
      BY <1>1, <3>1, <3>3, <3>4
    <3>6. offers' \in Tables
      BY <1>1, <3>5, IsTable
    <3> QED BY <3>2, <3>4, <3>6
  <2> QED BY <2>1, <2>2
<1>4. /\ left \in Nat
      /\ left # 0 => /\ offers'[id].amount = left /\ offers'[id].player = offers[id].player
                     /\ offers'[id].sale = offers[id].sale /\ offers'[id].kind = offers[id].kind
  BY <1>1, <1>3 DEF Row
<1>5. SnapshotsFit'
  <2> SUFFICES ASSUME NEW r \in DOMAIN replies, NEW i \in DOMAIN replies[r]
               PROVE  i < nextId' /\ (i \in DOMAIN offers' => Fits(replies[r][i], i)')
    BY DEF SnapshotsFit
  <2>1. i < nextId' /\ (i \in DOMAIN offers => Fits(replies[r][i], i))
    BY DEF SnapshotsFit
  <2>2. i \in OfferIds /\ replies[r] \in Tables /\ replies[r][i] \in Row /\ replies[r][i].amount \in Nat
    <3>1. replies[r] \in Tables
      BY DEF MarketTyped
    <3> QED BY <3>1, TableTyped, MarketAssumption DEF Row, Amounts
  <2>3. CASE i # id
    <3>1. /\ i \in DOMAIN offers' <=> i \in DOMAIN offers
          /\ i \in DOMAIN offers => offers'[i] = offers[i]
      BY <1>3, <2>2, <2>3
    <3>2. i \notin raced' => i \notin raced
      BY <1>2
    <3> QED BY <2>1, <3>1, <3>2 DEF Fits
  <2>4. CASE i = id
    <3>1. id \in Snapshots
      BY <2>4 DEF Snapshots
    <3>2. left # 0 => id \in raced'
      BY <1>1, <1>4, <3>1 DEF Settle
    <3>3. offers[id].amount <= replies[r][id].amount /\ left <= replies[r][id].amount
      BY <1>1, <2>1, <2>2, <2>4 DEF Fits
    <3> QED BY <1>3, <1>4, <2>1, <2>4, <3>2, <3>3 DEF Fits
  <2> QED BY <2>3, <2>4
<1>6. ASSUME NEW s \in BOOLEAN, NEW k \in Kinds
      PROVE  HeldMoved(s, k) = (IF s = offers[id].sale /\ k = offers[id].kind THEN -n ELSE 0)
  <2>1. ASSUME NEW i \in OfferIds \ {id} PROVE Holds(offers', i, s, k) = Holds(offers, i, s, k)
    <3>1. /\ i \in DOMAIN offers' <=> i \in DOMAIN offers
          /\ i \in DOMAIN offers => offers'[i] = offers[i]
      BY <1>3
    <3> QED BY <3>1 DEF Holds
  <2>2. CASE s = offers[id].sale /\ k = offers[id].kind
    <3>1. Holds(offers, id, s, k) = offers[id].amount /\ Holds(offers', id, s, k) = left
      BY <1>3, <1>4, <2>2 DEF Holds
    <3>2. Held(offers', s, k) = Held(offers, s, k) - offers[id].amount + left /\ Held(offers, s, k) \in Nat
      BY <1>1, <1>3, <2>1, <3>1, HeldChanges, HeldPads
    <3> QED BY <1>1, <2>2, <3>2 DEF HeldMoved
  <2>3. CASE ~(s = offers[id].sale /\ k = offers[id].kind)
    <3>1. Holds(offers, id, s, k) = 0 /\ Holds(offers', id, s, k) = 0
      BY <1>3, <1>4, <2>3 DEF Holds
    <3>2. Held(offers', s, k) = Held(offers, s, k) - 0 + 0 /\ Held(offers, s, k) \in Nat
      BY <1>1, <1>3, <2>1, <3>1, HeldChanges, HeldPads
    <3> QED BY <2>3, <3>2 DEF HeldMoved
  <2> QED BY <2>2, <2>3
<1> QED BY <1>2, <1>3, <1>5, <1>6

\* moveOfferToHistory: what is left of the table still fits the snapshots.
LEMMA MoveHolds ==
  ASSUME MarketTyped, SnapshotsFit, NEW ids, MoveToHistory(ids), UNCHANGED <<nextId, raced>>,
         replies' = replies \/ (replies # << >> /\ replies' = Tail(replies))
  PROVE  /\ offers' \in Tables /\ replies' \in Seq(Tables)
         /\ SnapshotsFit'
         /\ \A i \in OfferIds, s \in BOOLEAN, k \in Kinds :
              Holds(offers', i, s, k) = (IF i \in ids THEN 0 ELSE Holds(offers, i, s, k))
<1>1. /\ offers \in Tables /\ DOMAIN offers \subseteq OfferIds /\ \A i \in DOMAIN offers : offers[i] \in Row
      /\ replies \in Seq(Tables)
  <2>1. offers \in Tables /\ replies \in Seq(Tables)
    BY DEF MarketTyped
  <2> QED BY <2>1, TableTyped
<1>2. /\ DOMAIN offers' = DOMAIN offers \ ids
      /\ \A i \in DOMAIN offers \ ids : offers'[i] = offers[i]
      /\ offers' = [i \in DOMAIN offers \ ids |-> offers[i]]
  BY DEF MoveToHistory
<1>3. offers' \in Tables
  <2>1. offers' \in [DOMAIN offers \ ids -> Row]
    BY <1>1, <1>2
  <2> QED BY <1>1, <2>1, IsTable
<1>4. /\ replies' \in Seq(Tables)
      /\ \A r \in DOMAIN replies' : \E r0 \in DOMAIN replies : replies'[r] = replies[r0]
  <2>1. CASE replies' = replies
    <3>1. replies' \in Seq(Tables)
      BY <1>1, <2>1
    <3>2. \A r \in DOMAIN replies' : replies'[r] = replies[r] /\ r \in DOMAIN replies
      BY <2>1
    <3> QED BY <3>1, <3>2
  <2>2. CASE replies # << >> /\ replies' = Tail(replies)
    <3>1. /\ Tail(replies) \in Seq(Tables) /\ Len(Tail(replies)) = Len(replies) - 1 /\ Len(replies) \in Nat
          /\ \A r \in 1..Len(Tail(replies)) : Tail(replies)[r] = replies[r + 1]
      BY <1>1, <2>2
    <3>2. DOMAIN replies = 1..Len(replies) /\ DOMAIN Tail(replies) = 1..Len(Tail(replies))
      BY <1>1, <3>1
    <3>3. \A r \in 1..Len(Tail(replies)) : r + 1 \in DOMAIN replies
      BY <3>1, <3>2
    <3> QED BY <2>2, <3>1, <3>2, <3>3
  <2> QED BY <2>1, <2>2
<1>5. SnapshotsFit'
  <2> SUFFICES ASSUME NEW r \in DOMAIN replies', NEW i \in DOMAIN replies'[r]
               PROVE  i < nextId' /\ (i \in DOMAIN offers' => Fits(replies[r][i], i)')
    BY DEF SnapshotsFit
  <2>1. PICK r0 \in DOMAIN replies : replies'[r] = replies[r0]
    BY <1>4
  <2>2. i < nextId /\ (i \in DOMAIN offers => Fits(replies[r0][i], i))
    BY <2>1 DEF SnapshotsFit
  <2> QED BY <1>2, <2>1, <2>2 DEF Fits
<1>6. ASSUME NEW i \in OfferIds, NEW s \in BOOLEAN, NEW k \in Kinds
      PROVE  Holds(offers', i, s, k) = (IF i \in ids THEN 0 ELSE Holds(offers, i, s, k))
  BY <1>2 DEF Holds
<1> QED BY <1>3, <1>4, <1>5, <1>6

\* The totals after gold or goods are given.
LEMMA Giving ==
  ASSUME NEW Q \in Purses, NEW p \in Players, NEW n \in Int, NEW accounts \in Accounts
  PROVE  /\ Gold(Give(Q, p, "gold", n)) = Gold(Q) + n
         /\ Goods(Give(Q, p, "gold", n)) = Goods(Q)
         /\ Coins(Give(Q, p, "gold", n), accounts) = Coins(Q, accounts)
         /\ Gold(Give(Q, p, "goods", n)) = Gold(Q)
         /\ Goods(Give(Q, p, "goods", n)) = Goods(Q) + n
         /\ Coins(Give(Q, p, "goods", n), accounts) = Coins(Q, accounts)
<1>1. Gold(Q) \in Int /\ Goods(Q) \in Int /\ Coins(Q, accounts) \in Int
  BY TotalsTyped
<1>2. /\ Gold(Give(Q, p, "gold", n)) = Gold(Q) + n
      /\ Goods(Give(Q, p, "gold", n)) = Goods(Q) + 0
      /\ Coins(Give(Q, p, "gold", n), accounts) = Coins(Q, accounts) + 0
  <2>1. "gold" \in Goodies
    BY DEF Goodies
  <2>2. /\ Gold(Give(Q, p, "gold", n)) = Gold(Q) + (IF "gold" = "gold" THEN n ELSE 0)
        /\ Goods(Give(Q, p, "gold", n)) = Goods(Q) + (IF "gold" = "goods" THEN n ELSE 0)
        /\ Coins(Give(Q, p, "gold", n), accounts) = Coins(Q, accounts) + (IF "gold" = "coins" THEN n ELSE 0)
    BY <2>1, GiveAdds
  <2> QED BY <2>2
<1>3. /\ Gold(Give(Q, p, "goods", n)) = Gold(Q) + 0
      /\ Goods(Give(Q, p, "goods", n)) = Goods(Q) + n
      /\ Coins(Give(Q, p, "goods", n), accounts) = Coins(Q, accounts) + 0
  <2>1. "goods" \in Goodies
    BY DEF Goodies
  <2>2. /\ Gold(Give(Q, p, "goods", n)) = Gold(Q) + (IF "goods" = "gold" THEN n ELSE 0)
        /\ Goods(Give(Q, p, "goods", n)) = Goods(Q) + (IF "goods" = "goods" THEN n ELSE 0)
        /\ Coins(Give(Q, p, "goods", n), accounts) = Coins(Q, accounts) + (IF "goods" = "coins" THEN n ELSE 0)
    BY <2>1, GiveAdds
  <2> QED BY <2>2
<1> QED BY <1>1, <1>2, <1>3

\* The purses after gold or goods are given.
LEMMA GivingAt ==
  ASSUME NEW Q \in Purses, NEW p \in Players, NEW n \in Int
  PROVE  /\ Give(Q, p, "gold", n) \in Purses /\ Give(Q, p, "goods", n) \in Purses
         /\ \A q \in Players : \A w \in Goodies :
              /\ Give(Q, p, "gold", n)[q][w] = Q[q][w] + (IF q = p /\ w = "gold" THEN n ELSE 0)
              /\ Give(Q, p, "goods", n)[q][w] = Q[q][w] + (IF q = p /\ w = "goods" THEN n ELSE 0)
              /\ Q[q][w] \in Int
<1>1. "gold" \in Goodies /\ "goods" \in Goodies
  BY DEF Goodies
<1>2. \A q \in Players : \A w \in Goodies : Q[q][w] \in Int
  BY DEF Purses, Goodies
<1> QED BY <1>1, <1>2, GiveAt

\* The totals at the start are integers.
LEMMA StartTyped ==
  Gold(StartPurse) \in Int /\ Goods(StartPurse) \in Int /\ Coins(StartPurse, StartCoins) \in Int
<1>1. StartPurse \in Purses /\ StartCoins \in Accounts
  <2>1. StartPurse \in [Players -> [gold : Nat, goods : Nat, coins : Nat]] /\ StartCoins \in [Players -> Nat]
    BY MarketAssumption
  <2>2. [gold : Nat, goods : Nat, coins : Nat] \subseteq [gold : Int, goods : Int, coins : Int]
    OBVIOUS
  <2> QED BY <2>1, <2>2 DEF Purses, Accounts
<1> QED BY <1>1, TotalsTyped

\* addMoney, removeMoney and removing or adding goods, from a solvent purse.
LEMMA GivesGold ==
  ASSUME NEW Q, Solvent(Q), NEW p \in Players, NEW n \in Int, Q[p].gold + n >= 0, NEW accounts \in Accounts
  PROVE  LET R == Give(Q, p, "gold", n) IN
         /\ Solvent(R) /\ Gold(R) = Gold(Q) + n /\ Goods(R) = Goods(Q)
         /\ Coins(R, accounts) = Coins(Q, accounts)
         /\ R[p].gold = Q[p].gold + n /\ \A q \in Players : R[q].goods = Q[q].goods
<1> DEFINE R == Give(Q, p, "gold", n)
<1>1. Q \in Purses
  BY DEF Solvent
<1>2. /\ R \in Purses
      /\ \A q \in Players : \A w \in Goodies :
           R[q][w] = Q[q][w] + (IF q = p /\ w = "gold" THEN n ELSE 0) /\ Q[q][w] \in Int
  BY <1>1, GivingAt
<1>3. Gold(R) = Gold(Q) + n /\ Goods(R) = Goods(Q) /\ Coins(R, accounts) = Coins(Q, accounts)
  BY <1>1, Giving
<1> HIDE DEF R
<1>4. R[p].gold = Q[p].gold + n /\ \A q \in Players : R[q].goods = Q[q].goods
  BY <1>2 DEF Goodies
<1>5. ASSUME NEW q \in Players, NEW w \in Goodies PROVE R[q][w] >= 0
  <2>1. Q[q][w] \in Int /\ Q[q][w] >= 0 /\ R[q][w] = Q[q][w] + (IF q = p /\ w = "gold" THEN n ELSE 0)
    BY <1>2 DEF Solvent
  <2> QED BY <2>1
<1>6. Solvent(R)
  BY <1>2, <1>5 DEF Solvent
<1> QED BY <1>3, <1>4, <1>6 DEF R

\* The same of goods.
LEMMA GivesGoods ==
  ASSUME NEW Q, Solvent(Q), NEW p \in Players, NEW n \in Int, Q[p].goods + n >= 0, NEW accounts \in Accounts
  PROVE  LET R == Give(Q, p, "goods", n) IN
         /\ Solvent(R) /\ Gold(R) = Gold(Q) /\ Goods(R) = Goods(Q) + n
         /\ Coins(R, accounts) = Coins(Q, accounts)
         /\ R[p].goods = Q[p].goods + n /\ \A q \in Players : R[q].gold = Q[q].gold
<1> DEFINE R == Give(Q, p, "goods", n)
<1>1. Q \in Purses
  BY DEF Solvent
<1>2. /\ R \in Purses
      /\ \A q \in Players : \A w \in Goodies :
           R[q][w] = Q[q][w] + (IF q = p /\ w = "goods" THEN n ELSE 0) /\ Q[q][w] \in Int
  BY <1>1, GivingAt
<1>3. Gold(R) = Gold(Q) /\ Goods(R) = Goods(Q) + n /\ Coins(R, accounts) = Coins(Q, accounts)
  BY <1>1, Giving
<1> HIDE DEF R
<1>4. R[p].goods = Q[p].goods + n /\ \A q \in Players : R[q].gold = Q[q].gold
  BY <1>2 DEF Goodies
<1>5. ASSUME NEW q \in Players, NEW w \in Goodies PROVE R[q][w] >= 0
  <2>1. Q[q][w] \in Int /\ Q[q][w] >= 0 /\ R[q][w] = Q[q][w] + (IF q = p /\ w = "goods" THEN n ELSE 0)
    BY <1>2 DEF Solvent
  <2> QED BY <2>1
<1>6. Solvent(R)
  BY <1>2, <1>5 DEF Solvent
<1> QED BY <1>3, <1>4, <1>6 DEF R

\* What a purse of a solvent player holds is a natural number.
LEMMA PurseTyped ==
  ASSUME NEW Q, Solvent(Q), NEW p \in Players
  PROVE  Q \in Purses /\ Q[p].gold \in Nat /\ Q[p].goods \in Nat
<1>1. Q \in Purses /\ Q[p]["gold"] >= 0 /\ Q[p]["goods"] >= 0
  BY DEF Solvent, Goodies
<1>2. Q[p].gold \in Int /\ Q[p].goods \in Int
  BY <1>1 DEF Purses
<1> QED BY <1>1, <1>2

\* Whatever a step moves, the totals before and after it are integers.
LEMMA PartsTyped ==
  ASSUME MarketTyped, MarketTyped'
  PROVE  /\ Gold(purse) \in Int /\ Goods(purse) \in Int /\ Coins(purse, account) \in Int
         /\ Gold(purse') \in Int /\ Goods(purse') \in Int /\ Coins(purse', account') \in Int
         /\ Queued(tasks) \in Int /\ Queued(tasks') \in Int /\ nextId \in Int /\ nextId' \in Int
         /\ \A s, k : Held(offers, s, k) \in Int /\ Held(offers', s, k) \in Int
<1>1. /\ purse \in Purses /\ account \in Accounts /\ tasks \in Seq(Task) /\ offers \in Tables
      /\ purse' \in Purses /\ account' \in Accounts /\ tasks' \in Seq(Task) /\ offers' \in Tables
      /\ nextId \in Int /\ nextId' \in Int
  BY DEF MarketTyped, Solvent
<1>2. /\ Gold(purse) \in Int /\ Goods(purse) \in Int /\ Coins(purse, account) \in Int
      /\ Gold(purse') \in Int /\ Goods(purse') \in Int /\ Coins(purse', account') \in Int
  BY <1>1, TotalsTyped
<1>3. Queued(tasks) \in Int /\ Queued(tasks') \in Int
  BY <1>1, WorthTyped
<1>4. \A s, k : Held(offers, s, k) \in Int /\ Held(offers', s, k) \in Int
  BY <1>1, HeldPads
<1> QED BY <1>1, <1>2, <1>3, <1>4

\* The goods gained after a step, from what it moves.
LEMMA GoodsMove ==
  ASSUME MarketTyped, MarketTyped'
  PROVE  GoodsGained \in Int /\ GoodsGained' = GoodsGained + (GoodsMoved + HeldMoved(TRUE, "goods"))
<1>1. PICK d, d1, x, x1, s \in Int :
        /\ d = Goods(purse) /\ d1 = Goods(purse') /\ s = Goods(StartPurse)
        /\ x = Held(offers, TRUE, "goods") /\ x1 = Held(offers', TRUE, "goods")
  BY PartsTyped, StartTyped
<1>2. /\ d + x - s \in Int
      /\ d1 + x1 - s = (d + x - s) + ((d1 - d) + (x1 - x))
  OBVIOUS
<1> QED BY <1>1, <1>2 DEF GoodsGained, GoodsMoved, HeldMoved

\* The coins gained after a step, from what it moves.
LEMMA CoinsMove ==
  ASSUME MarketTyped, MarketTyped'
  PROVE  /\ CoinsGained \in Int
         /\ CoinsGained' = CoinsGained + (CoinsMoved + QueuedMoved + HeldMoved(TRUE, "coins"))
<1>1. PICK c, c1, q, q1, y, y1, s \in Int :
        /\ c = Coins(purse, account) /\ c1 = Coins(purse', account') /\ s = Coins(StartPurse, StartCoins)
        /\ q = Queued(tasks) /\ q1 = Queued(tasks')
        /\ y = Held(offers, TRUE, "coins") /\ y1 = Held(offers', TRUE, "coins")
  BY PartsTyped, StartTyped
<1>2. /\ c + q + y - s \in Int
      /\ c1 + q1 + y1 - s = (c + q + y - s) + ((c1 - c) + (q1 - q) + (y1 - y))
  OBVIOUS
<1> QED BY <1>1, <1>2 DEF CoinsGained, CoinsMoved, QueuedMoved, HeldMoved

\* The gold gained after a step, from what it moves.
LEMMA GoldMoves ==
  ASSUME MarketTyped, MarketTyped'
  PROVE  /\ GoldGained \in Int
         /\ GoldGained' = GoldGained + (GoldMoved
               + Price * (HeldMoved(FALSE, "goods") + HeldMoved(FALSE, "coins")) + Fee * (nextId' - nextId))
<1>1. PICK g, g1, a, a1, b, b1, s \in Int :
        /\ g = Gold(purse) /\ g1 = Gold(purse') /\ s = Gold(StartPurse)
        /\ a = Held(offers, FALSE, "goods") /\ a1 = Held(offers', FALSE, "goods")
        /\ b = Held(offers, FALSE, "coins") /\ b1 = Held(offers', FALSE, "coins")
  BY PartsTyped, StartTyped
<1>2. PICK n, n1, pr, fe \in Int : n = nextId /\ n1 = nextId' /\ pr = Price /\ fe = Fee
  BY PartsTyped, MarketAssumption
<1>3. /\ a1 + b1 = (a + b) + ((a1 - a) + (b1 - b)) /\ a + b \in Int /\ (a1 - a) + (b1 - b) \in Int
      /\ n1 - 1 = (n - 1) + (n1 - n) /\ n - 1 \in Int /\ n1 - n \in Int
  OBVIOUS
<1>4. PICK ph, pm, fk, fm \in Int : /\ ph = pr * (a + b) /\ pm = pr * ((a1 - a) + (b1 - b))
                                    /\ fk = fe * (n - 1) /\ fm = fe * (n1 - n)
  BY <1>3
<1>5. pr * (a1 + b1) = ph + pm /\ fe * (n1 - 1) = fk + fm
  BY <1>3, <1>4, Distributes
<1>6. /\ g + ph + fk - s \in Int
      /\ g1 + (ph + pm) + (fk + fm) - s = (g + ph + fk - s) + ((g1 - g) + pm + fm)
  OBVIOUS
<1>7. GoldGained = g + ph + fk - s /\ GoldGained' = g1 + (ph + pm) + (fk + fm) - s
  <2>1. GoldGained = g + pr * (a + b) + fe * (n - 1) - s
    BY <1>1, <1>2 DEF GoldGained
  <2>2. GoldGained' = g1 + pr * (a1 + b1) + fe * (n1 - 1) - s
    BY <1>1, <1>2 DEF GoldGained
  <2> QED BY <2>1, <2>2, <1>4, <1>5
<1>8. GoldMoved + Price * (HeldMoved(FALSE, "goods") + HeldMoved(FALSE, "coins")) + Fee * (nextId' - nextId)
        = (g1 - g) + pm + fm
  BY <1>1, <1>2, <1>4 DEF GoldMoved, HeldMoved
<1> QED BY <1>6, <1>7, <1>8

\* A step that moves gold, goods and coins without making any.
LEMMA BalancedBy ==
  ASSUME MarketTyped, MarketTyped',
         GoldMoved + Price * (HeldMoved(FALSE, "goods") + HeldMoved(FALSE, "coins"))
           + Fee * (nextId' - nextId) = 0,
         GoodsMoved + HeldMoved(TRUE, "goods") = 0,
         CoinsMoved + QueuedMoved + HeldMoved(TRUE, "coins") = 0
  PROVE  Balanced
<1>1. GoldGained' = GoldGained + 0 /\ GoldGained \in Int
  BY GoldMoves
<1>2. GoodsGained' = GoodsGained + 0 /\ GoodsGained \in Int
  BY GoodsMove
<1>3. CoinsGained' = CoinsGained + 0 /\ CoinsGained \in Int
  BY CoinsMove
<1> QED BY <1>1, <1>2, <1>3 DEF Balanced

\* A step's gains from its parts; used where nothing is queued or nobody's coins move.
LEMMA MovedParts ==
  ASSUME MarketTyped, MarketTyped'
  PROVE  /\ tasks' = tasks => QueuedMoved = 0
         /\ \A t \in Task : tasks' = Append(tasks, t) => QueuedMoved = Worth(t)
         /\ account' = account /\ Coins(purse', account) = Coins(purse, account) => CoinsMoved = 0
         /\ \A n \in Int : Gold(purse') = Gold(purse) + n => GoldMoved = n
         /\ \A n \in Int : Goods(purse') = Goods(purse) + n => GoodsMoved = n
         /\ Gold(purse') = Gold(purse) => GoldMoved = 0
         /\ Goods(purse') = Goods(purse) => GoodsMoved = 0
<1>1. /\ tasks \in Seq(Task) /\ Gold(purse) \in Int /\ Goods(purse) \in Int /\ Coins(purse, account) \in Int
      /\ Queued(tasks) \in Int
  BY PartsTyped DEF MarketTyped
<1>2. tasks' = tasks => QueuedMoved = 0
  BY <1>1 DEF QueuedMoved
<1>3. ASSUME NEW t \in Task, tasks' = Append(tasks, t) PROVE QueuedMoved = Worth(t)
  <2>1. Queued(tasks') = Queued(tasks) + Worth(t)
    BY <1>1, <1>3, QueuedAppend
  <2>2. Worth(t) \in Int
    BY TasksDiffer DEF Task, Worth, Updates
  <2> QED BY <1>1, <2>1, <2>2 DEF QueuedMoved
<1>4. account' = account /\ Coins(purse', account) = Coins(purse, account) => CoinsMoved = 0
  BY <1>1 DEF CoinsMoved
<1>5. ASSUME NEW n \in Int, Gold(purse') = Gold(purse) + n PROVE GoldMoved = n
  BY <1>1, <1>5 DEF GoldMoved
<1>6. ASSUME NEW n \in Int, Goods(purse') = Goods(purse) + n PROVE GoodsMoved = n
  BY <1>1, <1>6 DEF GoodsMoved
<1>7. /\ Gold(purse') = Gold(purse) => GoldMoved = 0
      /\ Goods(purse') = Goods(purse) => GoodsMoved = 0
  BY <1>1 DEF GoldMoved, GoodsMoved
<1> QED BY <1>2, <1>3, <1>4, <1>5, <1>6, <1>7

\* What is taken in one place and put in another cancels out.
LEMMA Cancels ==
  /\ \A n \in Int : -n + n = 0 /\ n + -n = 0 /\ (0 + -n) + n = 0 /\ (0 + n) + -n = 0
                  /\ 0 + n = n /\ n + 0 = n
  /\ 0 + 0 = 0 /\ (0 + 0) + 0 = 0
  OBVIOUS

\* What every step but the processing of a snapshot does.
Kept == MarketTyped' /\ SnapshotsFit' /\ Balanced /\ raced \subseteq raced'

\* The constants' types, in the forms the actions need.
LEMMA ConstantsTyped ==
  /\ Fee \in Int /\ Fee >= 0 /\ Price \in Int /\ Price >= 0
  /\ \A n \in Amounts : n \in Int /\ n >= 1 /\ -n \in Int
  /\ "goods" \in Kinds /\ "coins" \in Kinds /\ TRUE \in BOOLEAN /\ FALSE \in BOOLEAN
  BY MarketAssumption DEF Amounts, Kinds

\* playerCreateMarketOffer: goods leave the backpack for the table.
LEMMA SellGoodsBalances ==
  ASSUME BalanceInv, NEW p \in Players, NEW n \in Amounts, SellGoods(p, n)
  PROVE  Kept
<1>1. MarketTyped /\ SnapshotsFit /\ IdsPassed /\ n \in Int /\ n >= 0 /\ Fee \in Int /\ -n \in Int /\ -Fee \in Int
  BY ConstantsTyped DEF BalanceInv, MarketInv
<1>2. /\ offers' \in Tables /\ nextId' \in 1..(MaxOffers + 1) /\ nextId' = nextId + 1
      /\ SnapshotsFit'
      /\ \A s \in BOOLEAN, k \in Kinds : HeldMoved(s, k) = (IF s = TRUE /\ k = "goods" THEN n ELSE 0)
  BY <1>1, InsertHolds, ConstantsTyped DEF SellGoods
<1> DEFINE Q == Give(purse, p, "goods", -n)
<1>3. /\ purse' = Give(Q, p, "gold", -Fee) /\ purse[p].gold >= Fee /\ purse[p].goods >= n
      /\ UNCHANGED <<account, cached, tasks, replies, raced>>
  BY DEF SellGoods
<1>4. Solvent(purse) /\ account \in Accounts /\ purse[p].gold \in Nat /\ purse[p].goods \in Nat
  BY <1>1, PurseTyped DEF MarketTyped
<1>5. /\ Solvent(Q) /\ Gold(Q) = Gold(purse) /\ Goods(Q) = Goods(purse) + -n
      /\ Coins(Q, account) = Coins(purse, account) /\ Q[p].gold = purse[p].gold
  <2>1. purse[p].goods + -n >= 0
    BY <1>1, <1>3, <1>4
  <2> QED BY <1>1, <1>4, <2>1, GivesGoods
<1> HIDE DEF Q
<1>6. /\ Solvent(purse') /\ Gold(purse') = Gold(purse) + -Fee /\ Goods(purse') = Goods(purse) + -n
      /\ Coins(purse', account) = Coins(purse, account)
  <2>1. Q[p].gold + -Fee >= 0
    BY <1>1, <1>3, <1>4, <1>5
  <2> QED BY <1>1, <1>3, <1>4, <1>5, <2>1, GivesGold
<1>7. MarketTyped'
  BY <1>1, <1>2, <1>3, <1>6 DEF MarketTyped
<1>8. Balanced
  <2>1. GoldMoved = -Fee /\ GoodsMoved = -n /\ CoinsMoved = 0 /\ QueuedMoved = 0
    BY <1>1, <1>3, <1>6, <1>7, MovedParts
  <2>2. /\ HeldMoved(TRUE, "goods") = n /\ HeldMoved(TRUE, "coins") = 0
        /\ HeldMoved(FALSE, "goods") = 0 /\ HeldMoved(FALSE, "coins") = 0
    BY <1>2, ConstantsTyped
  <2>3. nextId' - nextId = 1
    BY <1>1, <1>2 DEF MarketTyped
  <2>4. GoldMoved + Price * (HeldMoved(FALSE, "goods") + HeldMoved(FALSE, "coins")) + Fee * (nextId' - nextId) = 0
    <3>1. -Fee + Price * (0 + 0) + Fee * 1 = 0
      BY ConstantsTyped
    <3> QED BY <2>1, <2>2, <2>3, <3>1
  <2>5. GoodsMoved + HeldMoved(TRUE, "goods") = 0 /\ CoinsMoved + QueuedMoved + HeldMoved(TRUE, "coins") = 0
    BY Cancels, <1>1, <2>1, <2>2
  <2> QED BY <1>1, <1>7, <2>4, <2>5, BalancedBy
<1> QED BY <1>2, <1>3, <1>7, <1>8 DEF Kept

\* playerCreateMarketOffer: store coins leave the account by way of the queue.
LEMMA SellCoinsBalances ==
  ASSUME BalanceInv, NEW p \in Players, NEW n \in Amounts, SellCoins(p, n)
  PROVE  Kept
<1>1. MarketTyped /\ SnapshotsFit /\ IdsPassed /\ n \in Int /\ n >= 0 /\ Fee \in Int /\ -n \in Int /\ -Fee \in Int
  BY ConstantsTyped DEF BalanceInv, MarketInv
<1>2. /\ offers' \in Tables /\ nextId' \in 1..(MaxOffers + 1) /\ nextId' = nextId + 1
      /\ SnapshotsFit'
      /\ \A s \in BOOLEAN, k \in Kinds : HeldMoved(s, k) = (IF s = TRUE /\ k = "coins" THEN n ELSE 0)
  BY <1>1, InsertHolds, ConstantsTyped DEF SellCoins
<1>3. /\ purse' = Give(purse, p, "gold", -Fee) /\ purse[p].gold >= Fee
      /\ tasks' = Append(tasks, AddCoins(p, -n))
      /\ UNCHANGED <<account, cached, replies, raced>>
  BY DEF SellCoins
<1>4. Solvent(purse) /\ account \in Accounts /\ purse[p].gold \in Nat
  BY <1>1, PurseTyped DEF MarketTyped
<1>5. /\ Solvent(purse') /\ Gold(purse') = Gold(purse) + -Fee /\ Goods(purse') = Goods(purse)
      /\ Coins(purse', account) = Coins(purse, account)
  <2>1. purse[p].gold + -Fee >= 0
    BY <1>1, <1>3, <1>4
  <2> QED BY <1>1, <1>3, <1>4, <2>1, GivesGold
<1>6. AddCoins(p, -n) \in Task /\ Worth(AddCoins(p, -n)) = -n
  BY <1>1, TaskMade
<1>7. MarketTyped'
  BY <1>1, <1>2, <1>3, <1>5, <1>6, QueuedAppend DEF MarketTyped
<1>8. Balanced
  <2>1. GoldMoved = -Fee /\ GoodsMoved = 0 /\ CoinsMoved = 0 /\ QueuedMoved = -n
    BY <1>1, <1>3, <1>5, <1>6, <1>7, MovedParts
  <2>2. /\ HeldMoved(TRUE, "goods") = 0 /\ HeldMoved(TRUE, "coins") = n
        /\ HeldMoved(FALSE, "goods") = 0 /\ HeldMoved(FALSE, "coins") = 0
    BY <1>2, ConstantsTyped
  <2>3. nextId' - nextId = 1
    BY <1>1, <1>2 DEF MarketTyped
  <2>4. GoldMoved + Price * (HeldMoved(FALSE, "goods") + HeldMoved(FALSE, "coins")) + Fee * (nextId' - nextId) = 0
    <3>1. -Fee + Price * (0 + 0) + Fee * 1 = 0
      BY ConstantsTyped
    <3> QED BY <2>1, <2>2, <2>3, <3>1
  <2>5. GoodsMoved + HeldMoved(TRUE, "goods") = 0 /\ CoinsMoved + QueuedMoved + HeldMoved(TRUE, "coins") = 0
    BY Cancels, <1>1, <2>1, <2>2
  <2> QED BY <1>1, <1>7, <2>4, <2>5, BalancedBy
<1> QED BY <1>2, <1>3, <1>7, <1>8 DEF Kept

\* playerCreateMarketOffer: the price of what is wanted leaves the purse.
LEMMA BuyBalances ==
  ASSUME BalanceInv, NEW p \in Players, NEW kind \in Kinds, NEW n \in Amounts, Buy(p, kind, n)
  PROVE  Kept
<1> DEFINE cost == Price * n + Fee
<1>1. MarketTyped /\ SnapshotsFit /\ IdsPassed /\ n \in Int /\ n >= 0 /\ cost \in Int /\ -cost \in Int
  <2>1. Price * n \in Int
    BY ConstantsTyped
  <2> QED BY <2>1, ConstantsTyped DEF BalanceInv, MarketInv
<1>2. /\ offers' \in Tables /\ nextId' \in 1..(MaxOffers + 1) /\ nextId' = nextId + 1
      /\ SnapshotsFit'
      /\ \A s \in BOOLEAN, k \in Kinds : HeldMoved(s, k) = (IF s = FALSE /\ k = kind THEN n ELSE 0)
  BY <1>1, InsertHolds, ConstantsTyped DEF Buy
<1>3. /\ purse' = Give(purse, p, "gold", -cost) /\ purse[p].gold >= cost
      /\ UNCHANGED <<account, cached, tasks, replies, raced>>
  BY DEF Buy
<1> HIDE DEF cost
<1>4. Solvent(purse) /\ account \in Accounts /\ purse[p].gold \in Nat
  BY <1>1, PurseTyped DEF MarketTyped
<1>5. /\ Solvent(purse') /\ Gold(purse') = Gold(purse) + -cost /\ Goods(purse') = Goods(purse)
      /\ Coins(purse', account) = Coins(purse, account)
  <2>1. purse[p].gold + -cost >= 0
    BY <1>1, <1>3, <1>4
  <2> QED BY <1>1, <1>3, <1>4, <2>1, GivesGold
<1>6. MarketTyped'
  BY <1>1, <1>2, <1>3, <1>5 DEF MarketTyped
<1>7. Balanced
  <2>1. GoldMoved = -cost /\ GoodsMoved = 0 /\ CoinsMoved = 0 /\ QueuedMoved = 0
    BY <1>1, <1>3, <1>5, <1>6, MovedParts
  <2>2. /\ HeldMoved(TRUE, "goods") = 0 /\ HeldMoved(TRUE, "coins") = 0
        /\ HeldMoved(FALSE, "goods") + HeldMoved(FALSE, "coins") = n
    <3>1. kind = "goods" \/ kind = "coins"
      BY DEF Kinds
    <3>2. /\ HeldMoved(FALSE, "goods") = (IF kind = "goods" THEN n ELSE 0)
          /\ HeldMoved(FALSE, "coins") = (IF kind = "coins" THEN n ELSE 0)
          /\ HeldMoved(TRUE, "goods") = 0 /\ HeldMoved(TRUE, "coins") = 0
      BY <1>2, ConstantsTyped
    <3> QED BY <1>1, <3>1, <3>2, Cancels
  <2>3. nextId' - nextId = 1
    BY <1>1, <1>2 DEF MarketTyped
  <2>4. GoldMoved + Price * (HeldMoved(FALSE, "goods") + HeldMoved(FALSE, "coins")) + Fee * (nextId' - nextId) = 0
    <3>1. -(Price * n + Fee) + Price * n + Fee * 1 = 0
      BY <1>1, ConstantsTyped
    <3> QED BY <2>1, <2>2, <2>3, <3>1 DEF cost
  <2>5. GoodsMoved + HeldMoved(TRUE, "goods") = 0 /\ CoinsMoved + QueuedMoved + HeldMoved(TRUE, "coins") = 0
    BY Cancels, <2>1, <2>2
  <2> QED BY <1>1, <1>6, <2>4, <2>5, BalancedBy
<1> QED BY <1>2, <1>3, <1>6, <1>7 DEF Kept

\* playerCancelMarketOffer: the owner gets what the table held.
LEMMA CancelBalances ==
  ASSUME BalanceInv, NEW p \in Players, NEW id \in DOMAIN offers, CancelOffer(p, id)
  PROVE  Kept
<1> DEFINE a == offers[id].amount
<1>1. MarketTyped /\ SnapshotsFit /\ offers \in Tables /\ id \in OfferIds /\ offers[id] \in Row
  <2>1. MarketTyped /\ SnapshotsFit /\ offers \in Tables
    BY DEF BalanceInv, MarketTyped
  <2> QED BY <2>1, TableTyped
<1>2. /\ a \in Nat /\ a \in Int /\ -a \in Int /\ offers[id].sale \in BOOLEAN /\ offers[id].kind \in Kinds
      /\ Price * a \in Nat /\ Price \in Nat
  <2>1. a \in Amounts /\ offers[id].sale \in BOOLEAN /\ offers[id].kind \in Kinds
    BY <1>1 DEF Row
  <2>2. a \in Nat /\ Price \in Nat
    BY <2>1, MarketAssumption DEF Amounts
  <2> HIDE DEF a
  <2>3. Price * a \in Nat
    BY <2>2
  <2> QED BY <2>1, <2>2, <2>3
<1>3. /\ MoveToHistory({id}) /\ UNCHANGED <<nextId, account, cached, replies, raced>>
      /\ purse' = IF ~offers[id].sale THEN Give(purse, p, "gold", Price * a)
                  ELSE IF offers[id].kind = "goods" THEN Give(purse, p, "goods", a) ELSE purse
      /\ tasks' = IF offers[id].sale /\ offers[id].kind = "coins"
                    THEN Append(tasks, AddCoins(p, a)) ELSE tasks
  BY DEF CancelOffer
<1>4. /\ offers' \in Tables /\ SnapshotsFit'
      /\ \A i \in OfferIds, s \in BOOLEAN, k \in Kinds :
           Holds(offers', i, s, k) = (IF i \in {id} THEN 0 ELSE Holds(offers, i, s, k))
  BY <1>1, <1>3, MoveHolds
<1>5. ASSUME NEW s \in BOOLEAN, NEW k \in Kinds
      PROVE  HeldMoved(s, k) = (IF s = offers[id].sale /\ k = offers[id].kind THEN -a ELSE 0)
  <2>1. \A i \in OfferIds \ {id} : Holds(offers', i, s, k) = Holds(offers, i, s, k)
    BY <1>4
  <2>2. Holds(offers', id, s, k) = 0 /\ Holds(offers, id, s, k) = (IF s = offers[id].sale /\ k = offers[id].kind THEN a ELSE 0)
    BY <1>1, <1>4 DEF Holds
  <2>3. Held(offers', s, k) = Held(offers, s, k) - Holds(offers, id, s, k) + Holds(offers', id, s, k)
    BY <1>1, <1>4, <2>1, HeldChanges
  <2>4. Held(offers, s, k) \in Int
    BY <1>1, HeldPads
  <2> HIDE DEF a
  <2> QED BY <1>2, <2>2, <2>3, <2>4 DEF HeldMoved
<1>6. Solvent(purse) /\ account \in Accounts /\ purse[p].gold \in Nat /\ purse[p].goods \in Nat
  BY <1>1, PurseTyped DEF MarketTyped
<1>7. AddCoins(p, a) \in Task /\ Worth(AddCoins(p, a)) = a
  BY <1>2, TaskMade
<1> HIDE DEF a
<1>8. CASE ~offers[id].sale
  <2>1. purse' = Give(purse, p, "gold", Price * a) /\ tasks' = tasks
    BY <1>3, <1>8
  <2>2. PICK m \in Nat : m = Price * a
    BY <1>2
  <2>3. purse[p].gold + m >= 0 /\ m \in Int
    BY <1>6, <2>2
  <2>4. /\ Solvent(purse') /\ Gold(purse') = Gold(purse) + m /\ Goods(purse') = Goods(purse)
        /\ Coins(purse', account) = Coins(purse, account)
    BY <1>6, <2>1, <2>2, <2>3, GivesGold
  <2>5. MarketTyped'
    BY <1>1, <1>3, <1>4, <2>1, <2>4 DEF MarketTyped
  <2>6. GoldMoved = m /\ GoodsMoved = 0 /\ CoinsMoved = 0 /\ QueuedMoved = 0
    BY <1>1, <1>3, <2>1, <2>3, <2>4, <2>5, MovedParts
  <2>7. /\ HeldMoved(FALSE, "goods") + HeldMoved(FALSE, "coins") = -a
        /\ HeldMoved(TRUE, "goods") = 0 /\ HeldMoved(TRUE, "coins") = 0
    <3>1. /\ HeldMoved(FALSE, "goods") = (IF offers[id].kind = "goods" THEN -a ELSE 0)
          /\ HeldMoved(FALSE, "coins") = (IF offers[id].kind = "coins" THEN -a ELSE 0)
          /\ HeldMoved(TRUE, "goods") = 0 /\ HeldMoved(TRUE, "coins") = 0
      BY <1>2, <1>5, <1>8, ConstantsTyped
    <3>2. offers[id].kind = "goods" \/ offers[id].kind = "coins"
      BY <1>2 DEF Kinds
    <3>3. CASE offers[id].kind = "goods"
      <4>1. HeldMoved(FALSE, "goods") = -a /\ HeldMoved(FALSE, "coins") = 0
        BY <3>1, <3>3
      <4> QED BY <1>2, <3>1, <4>1, Cancels
    <3>4. CASE offers[id].kind = "coins"
      <4>1. HeldMoved(FALSE, "goods") = 0 /\ HeldMoved(FALSE, "coins") = -a
        BY <3>1, <3>4
      <4> QED BY <1>2, <3>1, <4>1, Cancels
    <3> QED BY <3>2, <3>3, <3>4
  <2>8. GoldMoved + Price * (HeldMoved(FALSE, "goods") + HeldMoved(FALSE, "coins")) + Fee * (nextId' - nextId) = 0
    <3>1. Price * a + Price * (-a) + Fee * 0 = 0
      BY <1>2, ConstantsTyped
    <3>2. nextId' - nextId = 0
      BY <1>1, <1>3 DEF MarketTyped
    <3> QED BY <2>2, <2>6, <2>7, <3>1, <3>2
  <2>9. GoodsMoved + HeldMoved(TRUE, "goods") = 0 /\ CoinsMoved + QueuedMoved + HeldMoved(TRUE, "coins") = 0
    BY Cancels, <2>6, <2>7
  <2> QED BY <1>1, <1>3, <1>4, <2>5, <2>8, <2>9, BalancedBy DEF Kept
<1>9. CASE offers[id].sale = TRUE
  <2>1. /\ HeldMoved(FALSE, "goods") = 0 /\ HeldMoved(FALSE, "coins") = 0
        /\ HeldMoved(TRUE, "goods") = (IF offers[id].kind = "goods" THEN -a ELSE 0)
        /\ HeldMoved(TRUE, "coins") = (IF offers[id].kind = "coins" THEN -a ELSE 0)
    BY <1>2, <1>5, <1>9, ConstantsTyped
  <2>2. 0 + Price * (0 + 0) + Fee * 0 = 0 /\ nextId' - nextId = 0
    BY <1>1, <1>3, ConstantsTyped DEF MarketTyped
  <2>3. CASE offers[id].kind = "goods"
    <3>0. HeldMoved(TRUE, "goods") = -a /\ HeldMoved(TRUE, "coins") = 0
      BY <2>1, <2>3
    <3>1. purse' = Give(purse, p, "goods", a) /\ tasks' = tasks
      BY <1>3, <1>9, <2>3
    <3>2. purse[p].goods + a >= 0 /\ a \in Int
      BY <1>2, <1>6
    <3>3. /\ Solvent(purse') /\ Gold(purse') = Gold(purse) + 0 /\ Goods(purse') = Goods(purse) + a
          /\ Coins(purse', account) = Coins(purse, account)
      BY <1>6, <3>1, <3>2, GivesGoods, TotalsTyped DEF Solvent
    <3>4. MarketTyped'
      BY <1>1, <1>3, <1>4, <3>1, <3>3 DEF MarketTyped
    <3>5. GoldMoved = 0 /\ GoodsMoved = a /\ CoinsMoved = 0 /\ QueuedMoved = 0
      BY <1>1, <1>3, <3>1, <3>2, <3>3, <3>4, MovedParts
    <3>6. GoldMoved + Price * (HeldMoved(FALSE, "goods") + HeldMoved(FALSE, "coins")) + Fee * (nextId' - nextId) = 0
      BY <2>1, <2>2, <3>5, Cancels, ConstantsTyped
    <3>7. GoodsMoved + HeldMoved(TRUE, "goods") = 0 /\ CoinsMoved + QueuedMoved + HeldMoved(TRUE, "coins") = 0
      BY Cancels, <1>2, <3>0, <3>5
    <3> QED BY <1>1, <1>3, <1>4, <3>4, <3>6, <3>7, BalancedBy DEF Kept
  <2>4. CASE offers[id].kind = "coins"
    <3>0. HeldMoved(TRUE, "goods") = 0 /\ HeldMoved(TRUE, "coins") = -a
      BY <2>1, <2>4
    <3>1. purse' = purse /\ tasks' = Append(tasks, AddCoins(p, a))
      BY <1>3, <1>9, <2>4
    <3>2. MarketTyped'
      BY <1>1, <1>3, <1>4, <1>7, <3>1, QueuedAppend DEF MarketTyped
    <3>3. Gold(purse') = Gold(purse) + 0 /\ Goods(purse') = Goods(purse) + 0
      BY <1>6, <3>1, TotalsTyped DEF Solvent
    <3>4. GoldMoved = 0 /\ GoodsMoved = 0 /\ CoinsMoved = 0 /\ QueuedMoved = a
      BY <1>1, <1>3, <1>7, <3>1, <3>2, <3>3, MovedParts
    <3>5. GoldMoved + Price * (HeldMoved(FALSE, "goods") + HeldMoved(FALSE, "coins")) + Fee * (nextId' - nextId) = 0
      BY <2>1, <2>2, <3>4, Cancels, ConstantsTyped
    <3>6. GoodsMoved + HeldMoved(TRUE, "goods") = 0 /\ CoinsMoved + QueuedMoved + HeldMoved(TRUE, "coins") = 0
      BY Cancels, <1>2, <3>0, <3>4
    <3> QED BY <1>1, <1>3, <1>4, <3>2, <3>5, <3>6, BalancedBy DEF Kept
  <2> QED BY <1>2, <2>3, <2>4 DEF Kinds
<1> QED BY <1>2, <1>8, <1>9

\* Two changes of accounts that cancel each other, one after the other.
LEMMA QueuedTwo ==
  ASSUME NEW queue \in Seq(Task), NEW t \in Task, NEW u \in Task, Worth(t) + Worth(u) = 0
  PROVE  queue \o <<t, u>> \in Seq(Task) /\ Queued(queue \o <<t, u>>) = Queued(queue)
<1>1. queue \o <<t, u>> = Append(Append(queue, t), u)
  OBVIOUS
<1>2. Append(queue, t) \in Seq(Task) /\ Queued(Append(queue, t)) = Queued(queue) + Worth(t)
  BY QueuedAppend
<1>3. /\ Append(Append(queue, t), u) \in Seq(Task)
      /\ Queued(Append(Append(queue, t), u)) = Queued(Append(queue, t)) + Worth(u)
  BY <1>2, QueuedAppend
<1>4. Queued(queue) \in Int /\ Worth(t) \in Int /\ Worth(u) \in Int
  BY WorthTyped, TasksDiffer DEF Task, Worth, Updates
<1>5. (Queued(queue) + Worth(t)) + Worth(u) = Queued(queue)
  BY <1>4
<1> QED BY <1>1, <1>2, <1>3, <1>5

\* What an acceptance starts from.
LEMMA AcceptFacts ==
  ASSUME BalanceInv, NEW id \in DOMAIN offers, NEW n \in Amounts, n <= offers[id].amount,
         Settle(id, n), UNCHANGED <<replies, nextId>>
  PROVE  /\ MarketTyped /\ SnapshotsFit /\ n \in Int /\ n >= 0 /\ -n \in Int
         /\ offers[id].player \in Players /\ offers[id].sale \in BOOLEAN /\ offers[id].kind \in Kinds
         /\ Solvent(purse) /\ account \in Accounts /\ tasks \in Seq(Task) /\ nextId' - nextId = 0
         /\ Price * n \in Int /\ Price * n >= 0 /\ -(Price * n) \in Int
         /\ offers' \in Tables /\ raced \subseteq raced' /\ raced' \subseteq OfferIds /\ SnapshotsFit'
         /\ \A s \in BOOLEAN, k \in Kinds :
              HeldMoved(s, k) = (IF s = offers[id].sale /\ k = offers[id].kind THEN -n ELSE 0)
<1>1. MarketTyped /\ SnapshotsFit /\ offers \in Tables /\ Solvent(purse) /\ account \in Accounts /\ tasks \in Seq(Task)
  BY DEF BalanceInv, MarketTyped
<1>2. n \in Int /\ n >= 0 /\ -n \in Int /\ Price \in Int /\ Price >= 0
  BY ConstantsTyped
<1>3. Price * n \in Int /\ Price * n >= 0
  BY <1>2
<1>4. offers[id] \in Row
  BY <1>1, TableTyped
<1>5. offers[id].player \in Players /\ offers[id].sale \in BOOLEAN /\ offers[id].kind \in Kinds
  BY <1>4 DEF Row
<1>6. /\ offers' \in Tables /\ raced \subseteq raced' /\ raced' \subseteq OfferIds /\ SnapshotsFit'
      /\ \A s \in BOOLEAN, k \in Kinds :
           HeldMoved(s, k) = (IF s = offers[id].sale /\ k = offers[id].kind THEN -n ELSE 0)
  BY <1>1, SettleHolds
<1>7. nextId' - nextId = 0
  BY <1>1 DEF MarketTyped
<1> QED BY <1>1, <1>2, <1>3, <1>5, <1>6, <1>7

\* playerAcceptMarketOffer of an offer to buy: who delivers gets the gold the
\* offer holds, the buyer what is delivered.
LEMMA AcceptBuyBalances ==
  ASSUME BalanceInv, NEW p \in Players, NEW id \in DOMAIN offers, NEW n \in Amounts, AcceptBuyOffer(p, id, n)
  PROVE  Kept
<1> DEFINE cost == Price * n
           buyer == offers[id].player
<1>1. /\ Settle(id, n) /\ UNCHANGED <<nextId, account, cached, replies>> /\ ~offers[id].sale
      /\ \/ /\ offers[id].kind = "coins"
            /\ tasks' = tasks \o <<AddCoins(p, -n), AddCoins(buyer, n)>>
            /\ purse' = Give(purse, p, "gold", cost)
         \/ /\ offers[id].kind = "goods" /\ n <= purse[p].goods
            /\ purse' = Give(Give(Give(purse, p, "goods", -n), p, "gold", cost), buyer, "goods", n)
            /\ tasks' = tasks
  BY DEF AcceptBuyOffer
<1>2. /\ MarketTyped /\ SnapshotsFit /\ n \in Int /\ n >= 0 /\ -n \in Int
      /\ buyer \in Players /\ offers[id].sale \in BOOLEAN /\ offers[id].kind \in Kinds
      /\ Solvent(purse) /\ account \in Accounts /\ tasks \in Seq(Task) /\ nextId' - nextId = 0
      /\ cost \in Int /\ cost >= 0
      /\ offers' \in Tables /\ raced \subseteq raced' /\ raced' \subseteq OfferIds /\ SnapshotsFit'
      /\ \A s \in BOOLEAN, k \in Kinds :
           HeldMoved(s, k) = (IF s = offers[id].sale /\ k = offers[id].kind THEN -n ELSE 0)
  BY AcceptFacts DEF AcceptBuyOffer
<1>3. HeldMoved(TRUE, "goods") = 0 /\ HeldMoved(TRUE, "coins") = 0
  BY <1>1, <1>2, ConstantsTyped
<1>4. HeldMoved(FALSE, "goods") + HeldMoved(FALSE, "coins") = -n
  <2>1. CASE offers[id].kind = "goods"
    <3>1. HeldMoved(FALSE, "goods") = -n /\ HeldMoved(FALSE, "coins") = 0
      BY <1>1, <1>2, <2>1, ConstantsTyped
    <3> QED BY <1>2, <3>1, Cancels
  <2>2. CASE offers[id].kind = "coins"
    <3>1. HeldMoved(FALSE, "goods") = 0 /\ HeldMoved(FALSE, "coins") = -n
      BY <1>1, <1>2, <2>2, ConstantsTyped
    <3> QED BY <1>2, <3>1, Cancels
  <2> QED BY <1>2, <2>1, <2>2 DEF Kinds
<1>5. cost + Price * (-n) + Fee * 0 = 0
  BY <1>2, ConstantsTyped
<1> HIDE DEF cost, buyer
<1>6. Gold(purse) \in Int /\ Goods(purse) \in Int /\ purse[p].gold \in Nat /\ purse[p].goods \in Nat
  BY <1>2, TotalsTyped, PurseTyped
<1>7. ASSUME Solvent(purse'), Gold(purse') = Gold(purse) + cost, Goods(purse') = Goods(purse),
             Coins(purse', account) = Coins(purse, account),
             tasks' \in Seq(Task), Queued(tasks') = Queued(tasks)
      PROVE  Kept
  <2>1. MarketTyped'
    BY <1>1, <1>2, <1>7 DEF MarketTyped
  <2>2. GoldMoved = cost /\ GoodsMoved = 0 /\ CoinsMoved = 0
    BY <1>1, <1>2, <1>7, <2>1, MovedParts
  <2>3. QueuedMoved = 0
    BY <1>2, <1>7, WorthTyped DEF QueuedMoved
  <2>4. GoldMoved + Price * (HeldMoved(FALSE, "goods") + HeldMoved(FALSE, "coins")) + Fee * (nextId' - nextId) = 0
    BY <1>2, <1>4, <1>5, <2>2
  <2>5. GoodsMoved + HeldMoved(TRUE, "goods") = 0 /\ CoinsMoved + QueuedMoved + HeldMoved(TRUE, "coins") = 0
    BY Cancels, <1>3, <2>2, <2>3
  <2> QED BY <1>2, <2>1, <2>4, <2>5, BalancedBy DEF Kept
<1>8. CASE /\ offers[id].kind = "coins"
           /\ tasks' = tasks \o <<AddCoins(p, -n), AddCoins(buyer, n)>>
           /\ purse' = Give(purse, p, "gold", cost)
  <2>1. purse[p].gold + cost >= 0
    BY <1>2, <1>6
  <2>2. /\ Solvent(purse') /\ Gold(purse') = Gold(purse) + cost /\ Goods(purse') = Goods(purse)
        /\ Coins(purse', account) = Coins(purse, account)
    BY <1>2, <1>8, <2>1, GivesGold
  <2>3. /\ AddCoins(p, -n) \in Task /\ AddCoins(buyer, n) \in Task
        /\ Worth(AddCoins(p, -n)) = -n /\ Worth(AddCoins(buyer, n)) = n
    BY <1>2, TaskMade
  <2>4. Worth(AddCoins(p, -n)) + Worth(AddCoins(buyer, n)) = 0
    BY <1>2, <2>3, Cancels
  <2>5. tasks' \in Seq(Task) /\ Queued(tasks') = Queued(tasks)
    BY <1>2, <1>8, <2>3, <2>4, QueuedTwo
  <2> QED BY <1>7, <2>2, <2>5
<1>9. CASE /\ offers[id].kind = "goods" /\ n <= purse[p].goods
           /\ purse' = Give(Give(Give(purse, p, "goods", -n), p, "gold", cost), buyer, "goods", n)
           /\ tasks' = tasks
  <2> DEFINE Q == Give(purse, p, "goods", -n)
             R == Give(Q, p, "gold", cost)
  <2>1. purse[p].goods + -n >= 0
    BY <1>2, <1>6, <1>9
  <2>2. /\ Solvent(Q) /\ Gold(Q) = Gold(purse) /\ Goods(Q) = Goods(purse) + -n
        /\ Coins(Q, account) = Coins(purse, account)
    BY <1>2, <2>1, GivesGoods
  <2> HIDE DEF Q
  <2>3. Q[p].gold + cost >= 0
    BY <1>2, <2>2, PurseTyped
  <2>4. /\ Solvent(R) /\ Gold(R) = Gold(Q) + cost /\ Goods(R) = Goods(Q)
        /\ Coins(R, account) = Coins(Q, account)
    BY <1>2, <2>2, <2>3, GivesGold
  <2> HIDE DEF R
  <2>5. R[buyer].goods + n >= 0
    BY <1>2, <2>4, PurseTyped
  <2>6. purse' = Give(R, buyer, "goods", n)
    BY <1>9 DEF R, Q
  <2>7. /\ Solvent(purse') /\ Gold(purse') = Gold(R) /\ Goods(purse') = Goods(R) + n
        /\ Coins(purse', account) = Coins(R, account)
    BY <1>2, <2>4, <2>5, <2>6, GivesGoods
  <2>8. (Goods(purse) + -n) + n = Goods(purse)
    BY <1>2, <1>6
  <2> QED BY <1>2, <1>7, <1>9, <2>2, <2>4, <2>7, <2>8
<1> QED BY <1>1, <1>8, <1>9

\* playerAcceptMarketOffer of an offer to sell: the seller gets the gold, who
\* accepts what the offer holds.
LEMMA AcceptSellBalances ==
  ASSUME BalanceInv, NEW p \in Players, NEW id \in DOMAIN offers, NEW n \in Amounts, AcceptSellOffer(p, id, n)
  PROVE  Kept
<1> DEFINE cost == Price * n
           seller == offers[id].player
           Q == Give(purse, p, "gold", -cost)
           R == Give(Q, seller, "gold", cost)
<1>1. /\ Settle(id, n) /\ UNCHANGED <<nextId, account, cached, replies>> /\ offers[id].sale
      /\ cost <= purse[p].gold
      /\ \/ /\ offers[id].kind = "coins"
            /\ tasks' = Append(tasks, AddCoins(p, n))
            /\ purse' = R
         \/ /\ offers[id].kind = "goods"
            /\ tasks' = tasks
            /\ purse' = Give(R, p, "goods", n)
  BY DEF AcceptSellOffer
<1>2. /\ MarketTyped /\ SnapshotsFit /\ n \in Int /\ n >= 0 /\ -n \in Int
      /\ seller \in Players /\ offers[id].sale \in BOOLEAN /\ offers[id].kind \in Kinds
      /\ Solvent(purse) /\ account \in Accounts /\ tasks \in Seq(Task) /\ nextId' - nextId = 0
      /\ cost \in Int /\ cost >= 0 /\ -cost \in Int
      /\ offers' \in Tables /\ raced \subseteq raced' /\ raced' \subseteq OfferIds /\ SnapshotsFit'
      /\ \A s \in BOOLEAN, k \in Kinds :
           HeldMoved(s, k) = (IF s = offers[id].sale /\ k = offers[id].kind THEN -n ELSE 0)
  BY AcceptFacts DEF AcceptSellOffer
<1>3. HeldMoved(FALSE, "goods") = 0 /\ HeldMoved(FALSE, "coins") = 0
  BY <1>1, <1>2, ConstantsTyped
<1> HIDE DEF cost, seller
<1>4. Gold(purse) \in Int /\ Goods(purse) \in Int /\ purse[p].gold \in Nat /\ purse[p].goods \in Nat
  BY <1>2, TotalsTyped, PurseTyped
<1>5. /\ Solvent(Q) /\ Gold(Q) = Gold(purse) + -cost /\ Goods(Q) = Goods(purse)
      /\ Coins(Q, account) = Coins(purse, account)
  <2>1. purse[p].gold + -cost >= 0
    BY <1>1, <1>2, <1>4
  <2> QED BY <1>2, <2>1, GivesGold
<1> HIDE DEF Q
<1>6. /\ Solvent(R) /\ Gold(R) = Gold(purse) /\ Goods(R) = Goods(purse)
      /\ Coins(R, account) = Coins(purse, account)
  <2>1. Q[seller].gold + cost >= 0
    BY <1>2, <1>5, PurseTyped
  <2>2. /\ Solvent(R) /\ Gold(R) = Gold(Q) + cost /\ Goods(R) = Goods(Q)
        /\ Coins(R, account) = Coins(Q, account)
    BY <1>2, <1>5, <2>1, GivesGold
  <2>3. (Gold(purse) + -cost) + cost = Gold(purse)
    BY <1>2, <1>4
  <2> QED BY <1>5, <2>2, <2>3
<1> HIDE DEF R
<1>7. 0 + Price * (0 + 0) + Fee * 0 = 0
  BY ConstantsTyped
<1>8. n + -n = 0 /\ (0 + n) + -n = 0 /\ 0 + 0 = 0 /\ (0 + 0) + 0 = 0
  <2>1. n \in Int
    BY <1>2
  <2> QED BY <2>1, Cancels
<1>9. CASE offers[id].kind = "coins" /\ tasks' = Append(tasks, AddCoins(p, n)) /\ purse' = R
  <2>1. AddCoins(p, n) \in Task /\ Worth(AddCoins(p, n)) = n
    BY <1>2, TaskMade
  <2>2. MarketTyped'
    BY <1>1, <1>2, <1>6, <1>9, <2>1, QueuedAppend DEF MarketTyped
  <2>3. GoldMoved = 0 /\ GoodsMoved = 0 /\ CoinsMoved = 0 /\ QueuedMoved = n
    BY <1>1, <1>2, <1>6, <1>9, <2>1, <2>2, MovedParts
  <2>4. HeldMoved(TRUE, "goods") = 0 /\ HeldMoved(TRUE, "coins") = -n
    BY <1>1, <1>2, <1>9, ConstantsTyped
  <2>5. GoldMoved + Price * (HeldMoved(FALSE, "goods") + HeldMoved(FALSE, "coins")) + Fee * (nextId' - nextId) = 0
    BY <1>2, <1>3, <1>7, <2>3
  <2>6. GoodsMoved + HeldMoved(TRUE, "goods") = 0 /\ CoinsMoved + QueuedMoved + HeldMoved(TRUE, "coins") = 0
    BY <1>8, <2>3, <2>4
  <2> QED BY <1>2, <2>2, <2>5, <2>6, BalancedBy DEF Kept
<1>10. CASE offers[id].kind = "goods" /\ tasks' = tasks /\ purse' = Give(R, p, "goods", n)
  <2>1. R[p].goods + n >= 0
    BY <1>2, <1>6, PurseTyped
  <2>2. /\ Solvent(purse') /\ Gold(purse') = Gold(purse) /\ Goods(purse') = Goods(purse) + n
        /\ Coins(purse', account) = Coins(purse, account)
    BY <1>2, <1>6, <1>10, <2>1, GivesGoods
  <2>3. MarketTyped'
    BY <1>1, <1>2, <1>10, <2>2 DEF MarketTyped
  <2>4. GoldMoved = 0 /\ GoodsMoved = n /\ CoinsMoved = 0 /\ QueuedMoved = 0
    BY <1>1, <1>2, <1>10, <2>2, <2>3, MovedParts
  <2>5. HeldMoved(TRUE, "goods") = -n /\ HeldMoved(TRUE, "coins") = 0
    BY <1>1, <1>2, <1>10, ConstantsTyped
  <2>6. GoldMoved + Price * (HeldMoved(FALSE, "goods") + HeldMoved(FALSE, "coins")) + Fee * (nextId' - nextId) = 0
    BY <1>2, <1>3, <1>7, <2>4
  <2>7. GoodsMoved + HeldMoved(TRUE, "goods") = 0 /\ CoinsMoved + QueuedMoved + HeldMoved(TRUE, "coins") = 0
    BY <1>8, <2>4, <2>5
  <2> QED BY <1>2, <2>3, <2>6, <2>7, BalancedBy DEF Kept
<1> QED BY <1>1, <1>9, <1>10

\* A step that leaves purses, accounts, queue and what the table holds alone.
LEMMA NothingMoves ==
  ASSUME MarketTyped, MarketTyped', UNCHANGED <<purse, account, nextId>>, Queued(tasks') = Queued(tasks),
         \A s \in BOOLEAN, k \in Kinds : HeldMoved(s, k) = 0
  PROVE  Balanced
<1>1. /\ Gold(purse) \in Int /\ Goods(purse) \in Int /\ Coins(purse, account) \in Int
      /\ Queued(tasks) \in Int /\ nextId \in Int
  BY PartsTyped
<1>2. GoldMoved = 0 /\ GoodsMoved = 0 /\ CoinsMoved = 0 /\ QueuedMoved = 0 /\ nextId' - nextId = 0
  BY <1>1 DEF GoldMoved, GoodsMoved, CoinsMoved, QueuedMoved
<1>3. /\ HeldMoved(FALSE, "goods") = 0 /\ HeldMoved(FALSE, "coins") = 0
      /\ HeldMoved(TRUE, "goods") = 0 /\ HeldMoved(TRUE, "coins") = 0
  BY ConstantsTyped
<1>4. 0 + Price * (0 + 0) + Fee * 0 = 0
  BY ConstantsTyped
<1>5. GoldMoved + Price * (HeldMoved(FALSE, "goods") + HeldMoved(FALSE, "coins")) + Fee * (nextId' - nextId) = 0
  BY <1>2, <1>3, <1>4
<1>6. GoodsMoved + HeldMoved(TRUE, "goods") = 0 /\ CoinsMoved + QueuedMoved + HeldMoved(TRUE, "coins") = 0
  BY Cancels, <1>2, <1>3
<1> QED BY <1>5, <1>6, BalancedBy

\* A table that stays holds what it held.
LEMMA TableStays ==
  ASSUME MarketTyped, offers' = offers, NEW s, NEW k
  PROVE  HeldMoved(s, k) = 0
<1>1. Held(offers, s, k) \in Int
  BY HeldPads DEF MarketTyped
<1> QED BY <1>1 DEF HeldMoved

\* A login reads the account and moves nothing.
LEMMA RefreshBalances ==
  ASSUME BalanceInv, NEW p \in Players, RefreshCoins(p)
  PROVE  Kept
<1>1. MarketTyped /\ SnapshotsFit /\ account[p] \in Int
  BY DEF BalanceInv, MarketTyped, Accounts
<1>2. /\ cached' = [cached EXCEPT ![p] = account[p]]
      /\ UNCHANGED <<offers, nextId, purse, account, tasks, replies, ledger, raced>>
  BY DEF RefreshCoins
<1>3. MarketTyped' /\ SnapshotsFit'
  BY <1>1, <1>2 DEF MarketTyped, Accounts, SnapshotsFit, Fits
<1>4. \A s \in BOOLEAN, k \in Kinds : HeldMoved(s, k) = 0
  BY <1>1, <1>2, TableStays
<1>5. Balanced
  BY <1>1, <1>2, <1>3, <1>4, NothingMoves
<1> QED BY <1>2, <1>3, <1>5 DEF Kept

\* The check of expired offers queues its query, which is worth nothing.
LEMMA CheckBalances ==
  ASSUME BalanceInv, CheckExpiredOffers
  PROVE  Kept
<1>1. MarketTyped /\ SnapshotsFit /\ tasks \in Seq(Task) /\ Query \in Task /\ Worth(Query) = 0
  BY DEF BalanceInv, MarketTyped, Task, Worth
<1>2. /\ tasks' = Append(tasks, Query)
      /\ UNCHANGED <<offers, nextId, purse, account, cached, replies, ledger, raced>>
  BY DEF CheckExpiredOffers
<1>3. tasks' \in Seq(Task) /\ Queued(tasks') = Queued(tasks) + 0
  BY <1>1, <1>2, QueuedAppend
<1>4. Queued(tasks') = Queued(tasks)
  BY <1>1, <1>3, WorthTyped
<1>5. MarketTyped' /\ SnapshotsFit'
  BY <1>1, <1>2, <1>3 DEF MarketTyped, SnapshotsFit, Fits
<1>6. \A s \in BOOLEAN, k \in Kinds : HeldMoved(s, k) = 0
  BY <1>1, <1>2, TableStays
<1>7. Balanced
  BY <1>1, <1>2, <1>4, <1>5, <1>6, NothingMoves
<1> QED BY <1>2, <1>5, <1>7 DEF Kept

\* An offer gets old with what it holds.
LEMMA AgeBalances ==
  ASSUME BalanceInv, NEW id \in DOMAIN offers, Age(id)
  PROVE  Kept
<1>1. /\ MarketTyped /\ SnapshotsFit /\ offers \in Tables /\ id \in OfferIds /\ offers[id] \in Row
      /\ DOMAIN offers \subseteq OfferIds /\ \A i \in DOMAIN offers : offers[i] \in Row
  <2>1. MarketTyped /\ SnapshotsFit /\ offers \in Tables
    BY DEF BalanceInv, MarketTyped
  <2> QED BY <2>1, TableTyped
<1>2. /\ offers' = [offers EXCEPT ![id].expired = TRUE]
      /\ UNCHANGED <<nextId, purse, account, cached, tasks, replies, ledger, raced>>
  BY DEF Age
<1>3. /\ DOMAIN offers' = DOMAIN offers /\ offers'[id] = [offers[id] EXCEPT !.expired = TRUE]
      /\ \A i \in DOMAIN offers \ {id} : offers'[i] = offers[i]
      /\ offers' = [i \in DOMAIN offers |-> offers'[i]]
  BY <1>1, <1>2, TableTyped
<1>4. /\ offers'[id] \in Row /\ offers'[id].player = offers[id].player /\ offers'[id].sale = offers[id].sale
      /\ offers'[id].kind = offers[id].kind /\ offers'[id].amount = offers[id].amount
  BY <1>1, <1>3 DEF Row
<1>5. offers' \in Tables
  <2>1. offers' \in [DOMAIN offers -> Row]
    BY <1>1, <1>3, <1>4
  <2> QED BY <1>1, <2>1, IsTable
<1>6. \A i \in DOMAIN offers : /\ offers'[i].player = offers[i].player /\ offers'[i].sale = offers[i].sale
                               /\ offers'[i].kind = offers[i].kind /\ offers'[i].amount = offers[i].amount
  BY <1>3, <1>4
<1>7. MarketTyped'
  BY <1>1, <1>2, <1>5 DEF MarketTyped
<1>8. SnapshotsFit'
  BY <1>1, <1>2, <1>3, <1>6 DEF SnapshotsFit, Fits
<1>9. ASSUME NEW s \in BOOLEAN, NEW k \in Kinds PROVE HeldMoved(s, k) = 0
  <2>1. \A i \in OfferIds : Holds(offers', i, s, k) = Holds(offers, i, s, k)
    BY <1>3, <1>6 DEF Holds
  <2>2. Held(offers', s, k) = Held(offers, s, k) - Holds(offers, id, s, k) + Holds(offers', id, s, k)
    BY <1>1, <1>5, <2>1, HeldChanges
  <2>3. Held(offers, s, k) \in Int /\ Holds(offers, id, s, k) \in Int /\ Holds(offers', id, s, k) = Holds(offers, id, s, k)
    BY <1>1, <2>1, HeldPads, HoldsTyped
  <2> QED BY <2>2, <2>3 DEF HeldMoved
<1>10. Balanced
  BY <1>1, <1>2, <1>7, <1>9, NothingMoves
<1> QED BY <1>2, <1>7, <1>8, <1>10 DEF Kept

\* The database thread takes a snapshot of the offers past their time.
LEMMA SnapshotBalances ==
  ASSUME BalanceInv, DatabaseThread, Head(tasks) = Query
  PROVE  Kept
<1>1. /\ MarketTyped /\ SnapshotsFit /\ IdsPassed /\ offers \in Tables /\ DOMAIN offers \subseteq OfferIds
      /\ \A i \in DOMAIN offers : offers[i] \in Row
      /\ tasks \in Seq(Task) /\ replies \in Seq(Tables)
  <2>1. MarketTyped /\ SnapshotsFit /\ IdsPassed /\ offers \in Tables /\ tasks \in Seq(Task) /\ replies \in Seq(Tables)
    BY DEF BalanceInv, MarketTyped, MarketInv
  <2> QED BY <2>1, TableTyped
<1>2. /\ tasks # << >> /\ tasks' = Tail(tasks) /\ replies' = Append(replies, Expired(offers))
      /\ UNCHANGED <<account, offers, nextId, purse, cached, ledger, raced>>
  BY DEF DatabaseThread
<1>3. /\ DOMAIN Expired(offers) \subseteq DOMAIN offers
      /\ \A i \in DOMAIN Expired(offers) : Expired(offers)[i] = offers[i]
      /\ Expired(offers) \in Tables
  <2> DEFINE D == {j \in DOMAIN offers : offers[j].expired}
  <2>1. Expired(offers) = [i \in D |-> offers[i]] /\ D \in SUBSET OfferIds
    BY <1>1 DEF Expired
  <2>2. Expired(offers) \in [D -> Row]
    BY <1>1, <2>1
  <2>3. Expired(offers) \in Tables
    BY <2>1, <2>2, IsTable
  <2> QED BY <2>1, <2>3
<1>4. tasks' \in Seq(Task) /\ Queued(tasks) = 0 + Queued(tasks')
  BY <1>1, <1>2, QueuedTail DEF Worth
<1>5. Queued(tasks') = Queued(tasks)
  BY <1>4, WorthTyped
<1>6. replies' \in Seq(Tables)
  BY <1>1, <1>2, <1>3
<1>7. MarketTyped'
  BY <1>1, <1>2, <1>4, <1>6 DEF MarketTyped
<1>8. SnapshotsFit'
  <2> SUFFICES ASSUME NEW r \in DOMAIN replies', NEW i \in DOMAIN replies'[r]
               PROVE  i < nextId' /\ (i \in DOMAIN offers' => Fits(replies[r][i], i)')
    BY DEF SnapshotsFit
  <2>1. /\ DOMAIN replies = 1..Len(replies) /\ DOMAIN replies' = 1..(Len(replies) + 1) /\ Len(replies) \in Nat
        /\ \A j \in 1..Len(replies) : replies'[j] = replies[j]
        /\ replies'[Len(replies) + 1] = Expired(offers)
    BY <1>1, <1>2, <1>3
  <2>2. CASE r \in DOMAIN replies
    <3>1. i < nextId /\ (i \in DOMAIN offers => Fits(replies[r][i], i))
      BY <2>1, <2>2, <1>1 DEF SnapshotsFit
    <3> QED BY <1>2, <2>1, <2>2, <3>1 DEF Fits
  <2>3. CASE r \notin DOMAIN replies
    <3>1. r = Len(replies) + 1
      BY <2>1, <2>3
    <3>2. i \in DOMAIN offers /\ replies'[r][i] = offers[i]
      BY <1>3, <2>1, <3>1
    <3>3. i < nextId /\ offers[i].amount \in Nat
      BY <1>1, <3>2, MarketAssumption DEF IdsPassed, Row, Amounts
    <3> QED BY <1>2, <3>2, <3>3 DEF Fits
  <2> QED BY <2>2, <2>3
<1>9. \A s \in BOOLEAN, k \in Kinds : HeldMoved(s, k) = 0
  BY <1>1, <1>2, TableStays
<1>10. Balanced
  BY <1>1, <1>2, <1>5, <1>7, <1>9, NothingMoves
<1> QED BY <1>2, <1>7, <1>8, <1>10 DEF Kept

\* The database thread changes an account as the task says.
LEMMA UpdateBalances ==
  ASSUME BalanceInv, DatabaseThread, Head(tasks) # Query
  PROVE  Kept
<1> DEFINE t == Head(tasks)
<1>1. MarketTyped /\ SnapshotsFit /\ tasks \in Seq(Task) /\ account \in Accounts /\ purse \in Purses
  BY DEF BalanceInv, MarketTyped, Solvent
<1>2. /\ tasks # << >> /\ tasks' = Tail(tasks) /\ replies' = replies
      /\ account' = [account EXCEPT ![t.player] = @ + t.coins]
      /\ UNCHANGED <<offers, nextId, purse, cached, ledger, raced>>
  BY DEF DatabaseThread
<1>3. t \in Task /\ tasks' \in Seq(Task) /\ Queued(tasks) = Worth(t) + Queued(tasks')
  BY <1>1, <1>2, QueuedTail
<1>4. t.player \in Players /\ t.coins \in Int /\ Worth(t) = t.coins
  BY <1>3 DEF Task, Updates, Worth
<1> HIDE DEF t
<1>5. /\ account' \in Accounts /\ account'[t.player] = account[t.player] + t.coins
      /\ \A q \in Players \ {t.player} : account'[q] = account[q]
  BY <1>1, <1>2, <1>4 DEF Accounts
<1>6. Coins(purse', account') = Coins(purse, account) + t.coins
  <2> DEFINE f == [q \in Players |-> purse[q].coins + account[q]]
             g == [q \in Players |-> purse[q].coins + account'[q]]
  <2>1. \A q \in Players : purse[q].coins \in Int /\ account[q] \in Int /\ account'[q] \in Int
    BY <1>1, <1>5 DEF Purses, Accounts
  <2>2. f \in Accounts /\ g \in Accounts
    BY <2>1 DEF Accounts
  <2>3. g[t.player] = f[t.player] + t.coins /\ \A q \in Players \ {t.player} : g[q] = f[q]
    BY <1>4, <1>5, <2>1
  <2> HIDE DEF f, g
  <2>4. SumFunction(g) = SumFunction(f) + t.coins
    BY <1>4, <2>2, <2>3, TotalChanges
  <2> QED BY <1>2, <2>4 DEF Coins, f, g
<1>7. MarketTyped' /\ SnapshotsFit'
  BY <1>1, <1>2, <1>3, <1>5 DEF MarketTyped, SnapshotsFit, Fits
<1>8. Balanced
  <2>1. Coins(purse, account) \in Int /\ Queued(tasks) \in Int /\ Queued(tasks') \in Int /\ nextId \in Int
    BY <1>1, <1>7, PartsTyped
  <2>2. CoinsMoved = t.coins
    BY <1>4, <1>6, <2>1 DEF CoinsMoved
  <2>3. QueuedMoved = -t.coins
    BY <1>3, <1>4, <2>1 DEF QueuedMoved
  <2>4. GoldMoved = 0 /\ GoodsMoved = 0 /\ nextId' - nextId = 0
    BY <1>1, <1>2, <1>7, <2>1, MovedParts
  <2>5. /\ HeldMoved(FALSE, "goods") = 0 /\ HeldMoved(FALSE, "coins") = 0
        /\ HeldMoved(TRUE, "goods") = 0 /\ HeldMoved(TRUE, "coins") = 0
    BY <1>1, <1>2, TableStays
  <2>6. 0 + Price * (0 + 0) + Fee * 0 = 0 /\ (t.coins + -t.coins) + 0 = 0 /\ 0 + 0 = 0
    BY <1>4, ConstantsTyped
  <2>7. GoldMoved + Price * (HeldMoved(FALSE, "goods") + HeldMoved(FALSE, "coins")) + Fee * (nextId' - nextId) = 0
    BY <2>4, <2>5, <2>6
  <2>8. GoodsMoved + HeldMoved(TRUE, "goods") = 0 /\ CoinsMoved + QueuedMoved + HeldMoved(TRUE, "coins") = 0
    BY <2>2, <2>3, <2>4, <2>5, <2>6
  <2> QED BY <1>1, <1>7, <2>7, <2>8, BalancedBy
<1> QED BY <1>2, <1>7, <1>8 DEF Kept

\* Products of natural numbers are natural numbers, and grow with a factor.
LEMMA ProductTyped == \A a, b \in Nat : a * b \in Nat
  OBVIOUS

LEMMA ProductGrows == \A k, a, b \in Nat : a <= b => a * k <= b * k
  OBVIOUS

\* What the processing of a snapshot pays for one of its rows to one player,
\* and to all of them.
Pay(rows, i, p, what) ==
  IF i \in DOMAIN rows \intersect DOMAIN offers THEN Due(rows[i], p, what) ELSE 0

PayAll(rows, i, what) ==
  IF i \in DOMAIN rows \intersect DOMAIN offers /\ what = (IF rows[i].sale THEN rows[i].kind ELSE "gold")
    THEN rows[i].amount * (IF what = "gold" THEN Price ELSE 1) ELSE 0

\* What one of its rows still holds in the table.
Closes(rows, i, sale, kind) == IF i \in DOMAIN rows THEN Holds(offers, i, sale, kind) ELSE 0

\* What is paid is a natural number.
LEMMA PayTyped ==
  ASSUME NEW rows \in Tables, NEW i, NEW p, NEW what
  PROVE  Pay(rows, i, p, what) \in Nat /\ PayAll(rows, i, what) \in Nat
<1>1. CASE i \in DOMAIN rows
  <2>1. rows[i].amount \in Nat /\ Price \in Nat /\ 1 \in Nat
    BY <1>1, TableTyped, MarketAssumption DEF Row, Amounts
  <2>2. rows[i].amount * Price \in Nat /\ rows[i].amount * 1 \in Nat
    BY <2>1, ProductTyped
  <2> QED BY <2>2 DEF Pay, PayAll, Due
<1>2. CASE i \notin DOMAIN rows
  BY <1>2 DEF Pay, PayAll
<1> QED BY <1>1, <1>2

\* The refund of a player, as a sum over all ids.
LEMMA RefundPads ==
  ASSUME MarketTyped, NEW rows \in Tables, NEW p, NEW what
  PROVE  /\ Refund(rows, p, what) = SumFunctionOnSet([i \in OfferIds |-> Pay(rows, i, p, what)], OfferIds)
         /\ Refund(rows, p, what) \in Nat
<1> DEFINE S == DOMAIN rows \intersect DOMAIN offers
           f == [i \in DOMAIN rows |-> Due(rows[i], p, what)]
           g == [i \in OfferIds |-> Pay(rows, i, p, what)]
<1>1. S \subseteq OfferIds /\ IsFiniteSet(OfferIds)
  BY TableTyped, OfferIdsFinite
<1>2. \A i \in OfferIds : g[i] \in Nat /\ g[i] = Pay(rows, i, p, what)
  BY PayTyped
<1>3. \A i \in S : f[i] = Pay(rows, i, p, what) /\ f[i] \in Nat
  BY PayTyped DEF Pay
<1>4. \A i \in OfferIds \ S : g[i] = 0
  BY DEF Pay
<1>5. Refund(rows, p, what) = SumFunctionOnSet(f, S)
  BY DEF Refund
<1> HIDE DEF f, g, S
<1>6. \A i \in S : f[i] \in Int /\ g[i] = f[i]
  BY <1>1, <1>2, <1>3
<1>7. SumFunctionOnSet(g, OfferIds) = SumFunctionOnSet(f, S)
  BY <1>1, <1>4, <1>6, SumPads
<1>8. SumFunctionOnSet(g, OfferIds) \in Nat
  BY <1>1, <1>2, SumNotNegative
<1> QED BY <1>5, <1>7, <1>8 DEF g

\* Only the owner of the row is paid for it.
LEMMA PaidOnce ==
  ASSUME NEW rows \in Tables, NEW i, NEW what
  PROVE  SumFunctionOnSet([p \in Players |-> Pay(rows, i, p, what)], Players) = PayAll(rows, i, what)
<1> DEFINE f == [p \in Players |-> Pay(rows, i, p, what)]
<1>1. \A p \in Players : f[p] = Pay(rows, i, p, what) /\ f[p] \in Int
  BY PayTyped
<1>2. IsFiniteSet(Players)
  BY OfferIdsFinite
<1> HIDE DEF f
<1>3. CASE i \notin DOMAIN rows
  <2>1. \A p \in Players : f[p] = 0
    BY <1>1, <1>3 DEF Pay
  <2> QED BY <1>2, <1>3, <2>1, SumZero DEF PayAll, f
<1>4. CASE i \in DOMAIN rows
  <2> DEFINE x == rows[i].player
             T == Players \ {x}
  <2>1. x \in Players
    BY <1>4, TableTyped DEF Row
  <2>2. \A p \in T : f[p] = 0
    BY <1>1 DEF Pay, Due
  <2>3. f[x] = PayAll(rows, i, what)
    BY <1>1, <2>1 DEF Pay, Due, PayAll
  <2>4. IsFiniteSet(T)
    BY <1>2, FS_Subset
  <2> HIDE DEF x, T
  <2>5. SumFunctionOnSet(f, T) = 0
    BY <2>2, <2>4, SumZero
  <2>6. SumFunctionOnSet(f, Players) = f[x] + SumFunctionOnSet(f, T)
    BY <1>1, <1>2, <2>1, SumTakeOut DEF T
  <2>7. PICK n \in Nat : n = PayAll(rows, i, what)
    BY PayTyped
  <2>8. SumFunctionOnSet(f, Players) = n + 0
    BY <2>3, <2>5, <2>6, <2>7
  <2> QED BY <2>7, <2>8 DEF f
<1> QED BY <1>3, <1>4

\* All that is refunded, row by row.
LEMMA RefundsAdd ==
  ASSUME MarketTyped, NEW rows \in Tables, NEW what
  PROVE  SumFunctionOnSet([p \in Players |-> Refund(rows, p, what)], Players)
           = SumFunctionOnSet([i \in OfferIds |-> PayAll(rows, i, what)], OfferIds)
<1> DEFINE m == [p \in Players |-> [i \in OfferIds |-> Pay(rows, i, p, what)]]
           left == [p \in Players |-> SumFunctionOnSet(m[p], OfferIds)]
           right == [i \in OfferIds |-> SumFunctionOnSet([p \in Players |-> m[p][i]], Players)]
<1>1. IsFiniteSet(Players) /\ IsFiniteSet(OfferIds)
  BY OfferIdsFinite
<1>2. \A p \in Players : \A i \in OfferIds : m[p][i] \in Int /\ m[p][i] = Pay(rows, i, p, what)
  BY PayTyped
<1>3. SumFunctionOnSet(left, Players) = SumFunctionOnSet(right, OfferIds)
  <2> HIDE DEF m
  <2> QED BY <1>1, <1>2, SumSwaps
<1>4. left = [p \in Players |-> Refund(rows, p, what)]
  BY RefundPads
<1>5. right = [i \in OfferIds |-> PayAll(rows, i, what)]
  <2>1. ASSUME NEW i \in OfferIds
        PROVE  SumFunctionOnSet([p \in Players |-> m[p][i]], Players) = PayAll(rows, i, what)
    <3>1. [p \in Players |-> m[p][i]] = [p \in Players |-> Pay(rows, i, p, what)]
      OBVIOUS
    <3> QED BY <3>1, PaidOnce
  <2> QED BY <2>1
<1> QED BY <1>3, <1>4, <1>5

\* What a row closes is a natural number.
LEMMA ClosesTyped ==
  ASSUME MarketTyped, NEW rows, NEW i, NEW sale, NEW kind
  PROVE  Closes(rows, i, sale, kind) \in Nat
<1>1. Holds(offers, i, sale, kind) \in Nat
  BY HoldsTyped DEF MarketTyped
<1> QED BY <1>1 DEF Closes

\* Of an offer to sell, things; of an offer to buy, an order to be paid back.
Things(rows, i, kind) == Closes(rows, i, TRUE, kind)
Orders(rows, i, kind) == Closes(rows, i, FALSE, kind)

\* The same of the two kinds of offers.
LEMMA ThingsTyped ==
  ASSUME MarketTyped, NEW rows, NEW i, NEW kind
  PROVE  Things(rows, i, kind) \in Nat /\ Orders(rows, i, kind) \in Nat
  BY ClosesTyped, Zenon DEF Things, Orders

\* A row still in the table names the offer it was taken from.
LEMMA RowFits ==
  ASSUME MarketTyped, NEW rows \in Tables, \A i \in DOMAIN rows : i \in DOMAIN offers => Fits(rows[i], i),
         NEW i \in DOMAIN rows \intersect DOMAIN offers
  PROVE  /\ rows[i].amount \in Nat /\ offers[i].amount \in Nat
         /\ rows[i].sale \in BOOLEAN /\ rows[i].kind \in Kinds
         /\ offers[i].amount <= rows[i].amount
         /\ raced = {} => offers[i].amount = rows[i].amount
         /\ \A k : /\ Things(rows, i, k) =
                      (IF rows[i].sale /\ rows[i].kind = k THEN offers[i].amount ELSE 0)
                  /\ Orders(rows, i, k) =
                      (IF ~rows[i].sale /\ rows[i].kind = k THEN offers[i].amount ELSE 0)
<1>1. rows[i] \in Row /\ offers[i] \in Row
  BY TableTyped DEF MarketTyped
<1>2. /\ rows[i].amount \in Nat /\ offers[i].amount \in Nat
      /\ rows[i].sale \in BOOLEAN /\ rows[i].kind \in Kinds
  BY <1>1, MarketAssumption DEF Row, Amounts
<1>3. /\ offers[i].sale = rows[i].sale /\ offers[i].kind = rows[i].kind
      /\ offers[i].amount <= rows[i].amount
      /\ raced = {} => offers[i].amount = rows[i].amount
  BY DEF Fits
<1>4. \A s, k : Closes(rows, i, s, k) = (IF rows[i].sale = s /\ rows[i].kind = k THEN offers[i].amount ELSE 0)
  BY <1>3 DEF Closes, Holds
<1>5. /\ rows[i].sale = TRUE <=> rows[i].sale
      /\ rows[i].sale = FALSE <=> ~rows[i].sale
  BY <1>2
<1>6. \A k : /\ Things(rows, i, k) =
                 (IF rows[i].sale /\ rows[i].kind = k THEN offers[i].amount ELSE 0)
             /\ Orders(rows, i, k) =
                 (IF ~rows[i].sale /\ rows[i].kind = k THEN offers[i].amount ELSE 0)
  BY <1>4, <1>5, Zenon DEF Things, Orders
<1> QED BY <1>2, <1>3, <1>6

\* Nothing is paid or closed for an id without a row or without an offer.
LEMMA NoRow ==
  ASSUME NEW rows, NEW i, i \notin DOMAIN rows \intersect DOMAIN offers
  PROVE  /\ \A k : Things(rows, i, k) = 0 /\ Orders(rows, i, k) = 0
         /\ \A what : PayAll(rows, i, what) = 0
  BY DEF Closes, Holds, PayAll, Things, Orders

\* A row is paid for at least as much as it still holds, and exactly that much
\* unless the offer was partly accepted meanwhile.
LEMMA CoversThings ==
  ASSUME MarketTyped, NEW rows \in Tables, \A i \in DOMAIN rows : i \in DOMAIN offers => Fits(rows[i], i),
         NEW i \in OfferIds, NEW k \in Kinds
  PROVE  /\ Things(rows, i, k) <= PayAll(rows, i, k)
         /\ raced = {} => PayAll(rows, i, k) = Things(rows, i, k)
<1>0. Things(rows, i, k) \in Int /\ PayAll(rows, i, k) \in Int
  <2>1. Things(rows, i, k) \in Nat
    BY ThingsTyped
  <2>2. PayAll(rows, i, k) \in Nat
    BY PayTyped
  <2> QED BY <2>1, <2>2
<1>1. PICK c, d \in Int : c = Things(rows, i, k) /\ d = PayAll(rows, i, k)
  BY <1>0
<1>2. c <= d /\ (raced = {} => d = c)
  <2>1. CASE i \in DOMAIN rows \intersect DOMAIN offers
    <3>1. /\ rows[i].sale \in BOOLEAN
          /\ raced = {} => offers[i].amount = rows[i].amount
          /\ Things(rows, i, k) = (IF rows[i].sale /\ rows[i].kind = k THEN offers[i].amount ELSE 0)
      BY <2>1, RowFits
    <3>2. PICK a, b \in Nat : a = offers[i].amount /\ b = rows[i].amount /\ a <= b
      BY <2>1, RowFits
    <3>3. k # "gold"
      BY DEF Kinds
    <3>4. d = (IF rows[i].sale /\ rows[i].kind = k THEN b ELSE 0)
      BY <1>1, <2>1, <3>2, <3>3 DEF PayAll
    <3>5. c = (IF rows[i].sale /\ rows[i].kind = k THEN a ELSE 0)
      BY <1>1, <3>1, <3>2
    <3>6. CASE rows[i].sale /\ rows[i].kind = k
      BY <3>1, <3>2, <3>4, <3>5, <3>6
    <3>7. CASE ~(rows[i].sale /\ rows[i].kind = k)
      BY <3>4, <3>5, <3>7
    <3> QED BY <3>6, <3>7
  <2>2. CASE i \notin DOMAIN rows \intersect DOMAIN offers
    <3>1. c = 0 /\ d = 0
      BY <1>1, <2>2, NoRow
    <3> QED BY <3>1
  <2> QED BY <2>1, <2>2
<1> QED BY <1>1, <1>2

\* What a row closed is owed in gold.
ToBuy(rows, i) == Orders(rows, i, "goods") + Orders(rows, i, "coins")

\* The same of the gold that an order is paid back with.
LEMMA CoversGold ==
  ASSUME MarketTyped, NEW rows \in Tables, \A i \in DOMAIN rows : i \in DOMAIN offers => Fits(rows[i], i),
         NEW i \in OfferIds
  PROVE  /\ Price * ToBuy(rows, i) <= PayAll(rows, i, "gold")
         /\ raced = {} => PayAll(rows, i, "gold") = Price * ToBuy(rows, i)
<1>0. Price \in Nat
  BY MarketAssumption
<1>1. CASE i \in DOMAIN rows \intersect DOMAIN offers
  <2>1. /\ rows[i].sale \in BOOLEAN /\ rows[i].kind \in Kinds
        /\ offers[i].amount <= rows[i].amount
        /\ raced = {} => offers[i].amount = rows[i].amount
        /\ \A k : Orders(rows, i, k) =
                    (IF ~rows[i].sale /\ rows[i].kind = k THEN offers[i].amount ELSE 0)
    BY <1>1, RowFits
  <2>2. PICK a \in Nat, b \in Nat : a = offers[i].amount /\ b = rows[i].amount
    BY <1>1, RowFits
  <2>3. a * Price <= b * Price /\ Price * a = a * Price
    BY <1>0, <2>1, <2>2, ProductGrows
  <2>4. CASE ~rows[i].sale
    <3>1. /\ Orders(rows, i, "goods") = (IF rows[i].kind = "goods" THEN a ELSE 0)
          /\ Orders(rows, i, "coins") = (IF rows[i].kind = "coins" THEN a ELSE 0)
      BY <2>1, <2>2, <2>4
    <3>2. rows[i].kind = "goods" \/ rows[i].kind = "coins"
      BY <2>1 DEF Kinds
    <3>3. a + 0 = a /\ 0 + a = a
      OBVIOUS
    <3>4. ToBuy(rows, i) = a
      <4>1. CASE rows[i].kind = "goods"
        <5>1. Orders(rows, i, "goods") = a /\ Orders(rows, i, "coins") = 0
          BY <3>1, <4>1
        <5> QED BY <3>3, <5>1 DEF ToBuy
      <4>2. CASE rows[i].kind = "coins"
        <5>1. Orders(rows, i, "goods") = 0 /\ Orders(rows, i, "coins") = a
          BY <3>1, <4>2
        <5> QED BY <3>3, <5>1 DEF ToBuy
      <4> QED BY <3>2, <4>1, <4>2
    <3>6. PayAll(rows, i, "gold") = b * Price
      BY <1>1, <2>2, <2>4 DEF PayAll
    <3>7. raced = {} => b * Price = a * Price
      BY <2>1, <2>2
    <3> QED BY <2>3, <3>4, <3>6, <3>7
  <2>5. CASE rows[i].sale
    <3>1. Orders(rows, i, "goods") = 0 /\ Orders(rows, i, "coins") = 0
      BY <2>1, <2>5
    <3>2. PayAll(rows, i, "gold") = 0
      BY <2>1, <2>5 DEF PayAll, Kinds
    <3>3. Price * (0 + 0) = 0
      BY <1>0
    <3>4. Price * ToBuy(rows, i) = 0
      BY <3>1, <3>3 DEF ToBuy
    <3> QED BY <3>2, <3>4
  <2> QED BY <2>1, <2>4, <2>5
<1>2. CASE i \notin DOMAIN rows \intersect DOMAIN offers
  <2>1. /\ Orders(rows, i, "goods") = 0 /\ Orders(rows, i, "coins") = 0
        /\ PayAll(rows, i, "gold") = 0
    BY <1>2, NoRow
  <2>2. Price * (0 + 0) = 0
    BY <1>0
  <2>3. Price * ToBuy(rows, i) = 0
    BY <2>1, <2>2 DEF ToBuy
  <2> QED BY <2>1, <2>3
<1> QED BY <1>1, <1>2

\* The sums over the ids that the processing of a snapshot moves.
Refunded(rows, what) == SumFunctionOnSet([p \in Players |-> Refund(rows, p, what)], Players)
PaidOut(rows, what) == SumFunctionOnSet([i \in OfferIds |-> PayAll(rows, i, what)], OfferIds)
Closed(rows, sale, kind) == SumFunctionOnSet([i \in OfferIds |-> Closes(rows, i, sale, kind)], OfferIds)
ClosedThings(rows, kind) == SumFunctionOnSet([i \in OfferIds |-> Things(rows, i, kind)], OfferIds)
ClosedOrders(rows, kind) == SumFunctionOnSet([i \in OfferIds |-> Orders(rows, i, kind)], OfferIds)

\* What is paid and closed are natural numbers; what all players get is what is paid
\* out row by row.
LEMMA SumsTyped ==
  ASSUME MarketTyped, NEW rows \in Tables, NEW what, NEW sale, NEW kind
  PROVE  /\ PaidOut(rows, what) \in Nat /\ Refunded(rows, what) = PaidOut(rows, what)
         /\ Closed(rows, sale, kind) \in Nat
<1>1. IsFiniteSet(OfferIds)
  BY OfferIdsFinite
<1>2. PaidOut(rows, what) \in Nat
  <2> DEFINE f == [i \in OfferIds |-> PayAll(rows, i, what)]
  <2>1. \A i \in OfferIds : f[i] \in Nat
    BY PayTyped
  <2> HIDE DEF f
  <2>2. SumFunctionOnSet(f, OfferIds) \in Nat
    BY <1>1, <2>1, SumNotNegative
  <2> QED BY <2>2 DEF f, PaidOut
<1>3. Closed(rows, sale, kind) \in Nat
  <2> DEFINE f == [i \in OfferIds |-> Closes(rows, i, sale, kind)]
  <2>1. \A i \in OfferIds : f[i] \in Nat
    BY ClosesTyped
  <2> HIDE DEF f
  <2>2. SumFunctionOnSet(f, OfferIds) \in Nat
    BY <1>1, <2>1, SumNotNegative
  <2> QED BY <2>2 DEF f, Closed
<1>4. Refunded(rows, what) = PaidOut(rows, what)
  BY RefundsAdd DEF Refunded, PaidOut
<1> QED BY <1>2, <1>3, <1>4

\* moveOfferToHistory of the rows: the table holds what they closed no more.
LEMMA HeldShrinks ==
  ASSUME MarketTyped, NEW rows \in Tables, NEW s \in BOOLEAN, NEW k \in Kinds, offers' \in Tables,
         \A i \in OfferIds : Holds(offers', i, s, k) = (IF i \in DOMAIN rows THEN 0 ELSE Holds(offers, i, s, k))
  PROVE  HeldMoved(s, k) = -Closed(rows, s, k)
<1> DEFINE f == HeldBy(offers', s, k)
           g == [i \in OfferIds |-> Closes(rows, i, s, k)]
           h == HeldBy(offers, s, k)
<1>0. offers \in Tables
  BY DEF MarketTyped
<1>1. \A i \in OfferIds : /\ f[i] = Holds(offers', i, s, k) /\ f[i] \in Int
                          /\ h[i] = Holds(offers, i, s, k) /\ h[i] \in Int
                          /\ g[i] = (IF i \in DOMAIN rows THEN h[i] ELSE 0)
                          /\ f[i] = (IF i \in DOMAIN rows THEN 0 ELSE h[i])
  BY <1>0, HoldsTyped DEF HeldBy, Closes
<1>2. IsFiniteSet(OfferIds)
  BY OfferIdsFinite
<1>3. /\ Held(offers', s, k) = SumFunctionOnSet(f, OfferIds)
      /\ Held(offers, s, k) = SumFunctionOnSet(h, OfferIds)
      /\ Held(offers', s, k) \in Int
  BY <1>0, HeldPads
<1>4. Closed(rows, s, k) = SumFunctionOnSet(g, OfferIds)
  BY DEF Closed
<1> HIDE DEF f, g, h
<1>5. \A i \in OfferIds : f[i] \in Int /\ g[i] \in Int /\ h[i] = f[i] + g[i]
  BY <1>1
<1>6. SumFunctionOnSet(h, OfferIds) = SumFunctionOnSet(f, OfferIds) + SumFunctionOnSet(g, OfferIds)
  BY <1>2, <1>5, SumAdds
<1>7. SumFunctionOnSet(g, OfferIds) \in Int
  BY <1>2, <1>5, SumTyped
<1>8. PICK a, c \in Int : a = Held(offers', s, k) /\ c = Closed(rows, s, k)
  BY <1>3, <1>4, <1>7
<1>9. Held(offers, s, k) = a + c
  BY <1>3, <1>4, <1>6, <1>8
<1>10. a - (a + c) = -c
  OBVIOUS
<1> QED BY <1>8, <1>9, <1>10 DEF HeldMoved

\* Goods and coins: what is paid out covers what is closed.
LEMMA ThingsCovered ==
  ASSUME MarketTyped, NEW rows \in Tables, \A i \in DOMAIN rows : i \in DOMAIN offers => Fits(rows[i], i),
         NEW k \in Kinds
  PROVE  /\ ClosedThings(rows, k) <= PaidOut(rows, k)
         /\ raced = {} => ClosedThings(rows, k) = PaidOut(rows, k)
<1> DEFINE f == [i \in OfferIds |-> Things(rows, i, k)]
           g == [i \in OfferIds |-> PayAll(rows, i, k)]
<1>1. \A i \in OfferIds : /\ f[i] \in Int /\ g[i] \in Int
                          /\ f[i] <= g[i] /\ (raced = {} => g[i] = f[i])
  <2> TAKE i \in OfferIds
  <2>1. Things(rows, i, k) \in Nat
    BY ThingsTyped
  <2>2. PayAll(rows, i, k) \in Nat
    BY PayTyped
  <2>3. /\ Things(rows, i, k) <= PayAll(rows, i, k)
        /\ raced = {} => PayAll(rows, i, k) = Things(rows, i, k)
    BY CoversThings
  <2> QED BY <2>1, <2>2, <2>3
<1>2. IsFiniteSet(OfferIds)
  BY OfferIdsFinite
<1>3. /\ ClosedThings(rows, k) = SumFunctionOnSet(f, OfferIds)
      /\ PaidOut(rows, k) = SumFunctionOnSet(g, OfferIds)
  BY DEF ClosedThings, ClosedOrders, PaidOut
<1> HIDE DEF f, g
<1>4. SumFunctionOnSet(f, OfferIds) <= SumFunctionOnSet(g, OfferIds)
  BY <1>1, <1>2, SumMonotone
<1>5. raced = {} => SumFunctionOnSet(g, OfferIds) = SumFunctionOnSet(f, OfferIds)
  BY <1>1, <1>2, SumAgrees
<1> QED BY <1>3, <1>4, <1>5

\* Gold: what is paid out covers the price of what is closed.
LEMMA GoldCovered ==
  ASSUME MarketTyped, NEW rows \in Tables, \A i \in DOMAIN rows : i \in DOMAIN offers => Fits(rows[i], i)
  PROVE  LET price == Price * (ClosedOrders(rows, "goods") + ClosedOrders(rows, "coins")) IN
         price <= PaidOut(rows, "gold") /\ (raced = {} => price = PaidOut(rows, "gold"))
<1> DEFINE a == [i \in OfferIds |-> Orders(rows, i, "goods")]
           b == [i \in OfferIds |-> Orders(rows, i, "coins")]
           t == [i \in OfferIds |-> ToBuy(rows, i)]
           f == [i \in OfferIds |-> Price * ToBuy(rows, i)]
           g == [i \in OfferIds |-> PayAll(rows, i, "gold")]
<1>1. \A i \in OfferIds : /\ a[i] \in Int /\ b[i] \in Int /\ t[i] = a[i] + b[i] /\ t[i] \in Int
                          /\ f[i] = Price * t[i] /\ f[i] \in Int /\ g[i] \in Int
                          /\ f[i] <= g[i] /\ (raced = {} => g[i] = f[i])
  <2> TAKE i \in OfferIds
  <2>1. Orders(rows, i, "goods") \in Nat
    BY ThingsTyped
  <2>2. Orders(rows, i, "coins") \in Nat
    BY ThingsTyped
  <2>3. PayAll(rows, i, "gold") \in Nat
    BY PayTyped
  <2>4. /\ Price * ToBuy(rows, i) <= PayAll(rows, i, "gold")
        /\ raced = {} => PayAll(rows, i, "gold") = Price * ToBuy(rows, i)
    BY CoversGold
  <2>5. ToBuy(rows, i) \in Nat
    BY <2>1, <2>2 DEF ToBuy
  <2>6. Price * ToBuy(rows, i) \in Nat
    BY <2>5, ProductTyped, MarketAssumption
  <2>7. a[i] \in Int /\ b[i] \in Int /\ t[i] = a[i] + b[i] /\ t[i] \in Int
    BY <2>1, <2>2, <2>5 DEF ToBuy
  <2>8. f[i] = Price * t[i] /\ f[i] \in Int /\ g[i] \in Int
    BY <2>3, <2>6
  <2> QED BY <2>4, <2>7, <2>8
<1>2. IsFiniteSet(OfferIds) /\ Price \in Int
  BY OfferIdsFinite, MarketAssumption
<1>3. /\ ClosedOrders(rows, "goods") = SumFunctionOnSet(a, OfferIds)
      /\ ClosedOrders(rows, "coins") = SumFunctionOnSet(b, OfferIds)
      /\ PaidOut(rows, "gold") = SumFunctionOnSet(g, OfferIds)
  BY DEF ClosedThings, ClosedOrders, PaidOut
<1> HIDE DEF a, b, t, f, g
<1>4. SumFunctionOnSet(t, OfferIds) = SumFunctionOnSet(a, OfferIds) + SumFunctionOnSet(b, OfferIds)
  BY <1>1, <1>2, SumAdds
<1>5. SumFunctionOnSet(f, OfferIds) = Price * SumFunctionOnSet(t, OfferIds)
  BY <1>1, <1>2, SumScales
<1>6. SumFunctionOnSet(f, OfferIds) <= SumFunctionOnSet(g, OfferIds)
  BY <1>1, <1>2, SumMonotone
<1>7. raced = {} => SumFunctionOnSet(g, OfferIds) = SumFunctionOnSet(f, OfferIds)
  BY <1>1, <1>2, SumAgrees
<1>8. Price * (ClosedOrders(rows, "goods") + ClosedOrders(rows, "coins")) = SumFunctionOnSet(f, OfferIds)
  BY <1>3, <1>4, <1>5
<1> QED BY <1>3, <1>6, <1>7, <1>8

\* The totals of purses to which the refunds are added.
LEMMA TotalsRefunded ==
  ASSUME NEW rows, NEW Q, NEW R, NEW accounts \in Accounts,
         \A p \in Players :
           /\ Q[p].gold \in Int /\ Q[p].goods \in Int /\ Q[p].coins \in Int
           /\ Refund(rows, p, "gold") \in Int /\ Refund(rows, p, "goods") \in Int
           /\ Refund(rows, p, "coins") \in Int
           /\ R[p].gold = Q[p].gold + Refund(rows, p, "gold")
           /\ R[p].goods = Q[p].goods + Refund(rows, p, "goods")
           /\ R[p].coins = Q[p].coins + Refund(rows, p, "coins")
  PROVE  /\ Gold(R) = Gold(Q) + Refunded(rows, "gold")
         /\ Goods(R) = Goods(Q) + Refunded(rows, "goods")
         /\ Coins(R, accounts) = Coins(Q, accounts) + Refunded(rows, "coins")
<1>0. IsFiniteSet(Players) /\ \A p \in Players : accounts[p] \in Int
  BY OfferIdsFinite DEF Accounts
<1>1. Gold(R) = Gold(Q) + Refunded(rows, "gold")
  <2> DEFINE f == [p \in Players |-> Q[p].gold]
             g == [p \in Players |-> Refund(rows, p, "gold")]
             h == [p \in Players |-> R[p].gold]
  <2>1. \A p \in Players : f[p] \in Int /\ g[p] \in Int /\ h[p] = f[p] + g[p]
    OBVIOUS
  <2>2. /\ Gold(Q) = SumFunctionOnSet(f, Players) /\ Gold(R) = SumFunctionOnSet(h, Players)
        /\ Refunded(rows, "gold") = SumFunctionOnSet(g, Players)
    BY DEF Gold, SumFunction, Refunded
  <2> HIDE DEF f, g, h
  <2>3. \A p \in Players : f[p] \in Int /\ g[p] \in Int /\ h[p] \in Int /\ h[p] = f[p] + g[p]
    BY <2>1
  <2> QED BY <1>0, <2>2, <2>3, SumAdds
<1>2. Goods(R) = Goods(Q) + Refunded(rows, "goods")
  <2> DEFINE f == [p \in Players |-> Q[p].goods]
             g == [p \in Players |-> Refund(rows, p, "goods")]
             h == [p \in Players |-> R[p].goods]
  <2>1. \A p \in Players : f[p] \in Int /\ g[p] \in Int /\ h[p] = f[p] + g[p]
    OBVIOUS
  <2>2. /\ Goods(Q) = SumFunctionOnSet(f, Players) /\ Goods(R) = SumFunctionOnSet(h, Players)
        /\ Refunded(rows, "goods") = SumFunctionOnSet(g, Players)
    BY DEF Goods, SumFunction, Refunded
  <2> HIDE DEF f, g, h
  <2>3. \A p \in Players : f[p] \in Int /\ g[p] \in Int /\ h[p] \in Int /\ h[p] = f[p] + g[p]
    BY <2>1
  <2> QED BY <1>0, <2>2, <2>3, SumAdds
<1>3. Coins(R, accounts) = Coins(Q, accounts) + Refunded(rows, "coins")
  <2> DEFINE f == [p \in Players |-> Q[p].coins + accounts[p]]
             g == [p \in Players |-> Refund(rows, p, "coins")]
             h == [p \in Players |-> R[p].coins + accounts[p]]
  <2>1. \A p \in Players : f[p] \in Int /\ g[p] \in Int /\ h[p] = f[p] + g[p]
    BY <1>0
  <2>2. /\ Coins(Q, accounts) = SumFunctionOnSet(f, Players)
        /\ Coins(R, accounts) = SumFunctionOnSet(h, Players)
        /\ Refunded(rows, "coins") = SumFunctionOnSet(g, Players)
    BY DEF Coins, SumFunction, Refunded
  <2> HIDE DEF f, g, h
  <2>3. \A p \in Players : f[p] \in Int /\ g[p] \in Int /\ h[p] \in Int /\ h[p] = f[p] + g[p]
    BY <2>1
  <2> QED BY <1>0, <2>2, <2>3, SumAdds
<1> QED BY <1>1, <1>2, <1>3

\* The purses with the refunds in them.
LEMMA PursesRefunded ==
  ASSUME MarketTyped, NEW rows \in Tables,
         purse' = [p \in Players |-> [what \in DOMAIN purse[p] |-> purse[p][what] + Refund(rows, p, what)]]
  PROVE  /\ Solvent(purse')
         /\ Gold(purse') = Gold(purse) + PaidOut(rows, "gold")
         /\ Goods(purse') = Goods(purse) + PaidOut(rows, "goods")
         /\ Coins(purse', account) = Coins(purse, account) + PaidOut(rows, "coins")
<1>1. purse \in Purses /\ account \in Accounts
  BY DEF MarketTyped, Solvent
<1>2. \A p \in Players : /\ DOMAIN purse[p] = Goodies
                         /\ purse[p].gold \in Nat /\ purse[p].goods \in Nat /\ purse[p].coins \in Nat
  <2> TAKE p \in Players
  <2>1. /\ purse[p]["gold"] >= 0 /\ purse[p]["goods"] >= 0 /\ purse[p]["coins"] >= 0
        /\ purse[p] \in [gold : Int, goods : Int, coins : Int]
    BY <1>1 DEF MarketTyped, Solvent, Goodies, Purses
  <2> QED BY <2>1 DEF Goodies
<1>3. \A p \in Players, what \in Goodies : Refund(rows, p, what) \in Nat
  BY RefundPads
<1>4. \A p \in Players : purse'[p] = [what \in Goodies |-> purse[p][what] + Refund(rows, p, what)]
  BY <1>2
<1>5. \A p \in Players : /\ purse'[p].gold = purse[p].gold + Refund(rows, p, "gold")
                         /\ purse'[p].goods = purse[p].goods + Refund(rows, p, "goods")
                         /\ purse'[p].coins = purse[p].coins + Refund(rows, p, "coins")
                         /\ Refund(rows, p, "gold") \in Nat /\ Refund(rows, p, "goods") \in Nat
                         /\ Refund(rows, p, "coins") \in Nat
  BY <1>3, <1>4 DEF Goodies
<1>6. /\ Gold(purse') = Gold(purse) + Refunded(rows, "gold")
      /\ Goods(purse') = Goods(purse) + Refunded(rows, "goods")
      /\ Coins(purse', account) = Coins(purse, account) + Refunded(rows, "coins")
  <2>1. \A p \in Players :
           /\ purse[p].gold \in Int /\ purse[p].goods \in Int /\ purse[p].coins \in Int
           /\ Refund(rows, p, "gold") \in Int /\ Refund(rows, p, "goods") \in Int
           /\ Refund(rows, p, "coins") \in Int
    BY <1>2, <1>5
  <2> QED BY <1>1, <1>5, <2>1, TotalsRefunded
<1>7. /\ Refunded(rows, "gold") = PaidOut(rows, "gold")
      /\ Refunded(rows, "goods") = PaidOut(rows, "goods")
      /\ Refunded(rows, "coins") = PaidOut(rows, "coins")
  BY SumsTyped
<1>8. Solvent(purse')
  <2>1. ASSUME NEW p \in Players, NEW what \in Goodies PROVE purse'[p][what] \in Nat
    <3>1. purse[p][what] \in Nat
      BY <1>2 DEF Goodies
    <3>2. purse'[p][what] = purse[p][what] + Refund(rows, p, what)
      BY <1>4
    <3> QED BY <1>3, <3>1, <3>2
  <2>2. ASSUME NEW p \in Players PROVE purse'[p] \in [gold : Int, goods : Int, coins : Int]
    <3> DEFINE f == purse'[p]
    <3>1. \A what \in Goodies : purse[p][what] + Refund(rows, p, what) \in Int
      <4> TAKE what \in Goodies
      <4>1. purse[p][what] \in Nat /\ Refund(rows, p, what) \in Nat
        BY <1>2, <1>3 DEF Goodies
      <4> QED BY <4>1
    <3>2. f = [what \in Goodies |-> purse[p][what] + Refund(rows, p, what)]
      BY <1>4
    <3> HIDE DEF f
    <3>3. f \in [Goodies -> Int]
      BY <3>1, <3>2
    <3>4. f \in [gold : Int, goods : Int, coins : Int]
      BY <3>3 DEF Goodies
    <3> QED BY <3>4 DEF f
  <2>3. purse' \in [Players -> [gold : Int, goods : Int, coins : Int]]
    BY <2>2
  <2> QED BY <2>1, <2>3 DEF Solvent, Purses
<1> QED BY <1>6, <1>7, <1>8

\* What a step may do: no gold, goods or coins disappear, and none are made
\* while no offer was partly accepted under a snapshot.
Growing == /\ GoldGained' >= GoldGained /\ GoodsGained' >= GoodsGained /\ CoinsGained' >= CoinsGained
           /\ raced = {} => Balanced

\* A price of what is closed, taken out of the table.
LEMMA Negates == \A k, a, b \in Int : k * (-a + -b) = -(k * (a + b)) /\ k * (a + b) \in Int
  OBVIOUS

\* processExpiredOffers: whoever owns a row that is still in the table gets
\* what the snapshot says it holds.
LEMMA ProcessBalances ==
  ASSUME BalanceInv, ProcessExpiredOffers
  PROVE  MarketTyped' /\ SnapshotsFit' /\ Growing /\ raced' = raced
<1> DEFINE rows == Head(replies)
<1>1. /\ MarketTyped /\ SnapshotsFit /\ replies \in Seq(Tables) /\ account \in Accounts
  BY DEF BalanceInv, MarketTyped
<1>2. /\ replies # << >> /\ replies' = Tail(replies)
      /\ purse' = [p \in Players |-> [what \in DOMAIN purse[p] |-> purse[p][what] + Refund(rows, p, what)]]
      /\ MoveToHistory(DOMAIN rows)
      /\ UNCHANGED <<nextId, account, cached, tasks, raced>>
  BY DEF ProcessExpiredOffers
<1>3. rows \in Tables /\ \A i \in DOMAIN rows : i \in DOMAIN offers => Fits(rows[i], i)
  <2>1. rows = replies[1] /\ 1 \in DOMAIN replies /\ rows \in Tables
    BY <1>1, <1>2
  <2> QED BY <1>1, <2>1 DEF SnapshotsFit
<1> HIDE DEF rows
<1>4. /\ offers' \in Tables /\ replies' \in Seq(Tables) /\ SnapshotsFit'
      /\ \A i \in OfferIds, s \in BOOLEAN, k \in Kinds :
           Holds(offers', i, s, k) = (IF i \in DOMAIN rows THEN 0 ELSE Holds(offers, i, s, k))
  BY <1>1, <1>2, MoveHolds
<1>5. /\ Solvent(purse')
      /\ Gold(purse') = Gold(purse) + PaidOut(rows, "gold")
      /\ Goods(purse') = Goods(purse) + PaidOut(rows, "goods")
      /\ Coins(purse', account) = Coins(purse, account) + PaidOut(rows, "coins")
  BY <1>1, <1>2, <1>3, PursesRefunded
<1>6. MarketTyped'
  BY <1>1, <1>2, <1>4, <1>5 DEF MarketTyped
<1>7. ASSUME NEW s \in BOOLEAN, NEW k \in Kinds PROVE HeldMoved(s, k) = -Closed(rows, s, k)
  BY <1>1, <1>3, <1>4, HeldShrinks
<1>8. /\ HeldMoved(TRUE, "goods") = -ClosedThings(rows, "goods")
      /\ HeldMoved(TRUE, "coins") = -ClosedThings(rows, "coins")
      /\ HeldMoved(FALSE, "goods") = -ClosedOrders(rows, "goods")
      /\ HeldMoved(FALSE, "coins") = -ClosedOrders(rows, "coins")
  BY <1>7, ConstantsTyped, Zenon DEF Closed, ClosedThings, ClosedOrders, Things, Orders
<1>9. /\ Gold(purse) \in Int /\ Goods(purse) \in Int /\ Coins(purse, account) \in Int
      /\ Queued(tasks) \in Int /\ nextId \in Int
  BY <1>1, <1>6, PartsTyped
<1>10. PICK g, w, c \in Int : g = PaidOut(rows, "gold") /\ w = PaidOut(rows, "goods") /\ c = PaidOut(rows, "coins")
  <2>1. PaidOut(rows, "gold") \in Nat /\ PaidOut(rows, "goods") \in Nat /\ PaidOut(rows, "coins") \in Nat
    BY <1>1, <1>3, SumsTyped
  <2> QED BY <2>1
<1>11. /\ GoldMoved = g /\ GoodsMoved = w /\ CoinsMoved = c /\ QueuedMoved = 0 /\ nextId' - nextId = 0
  <2>1. Coins(purse', account') = Coins(purse, account) + c
    BY <1>2, <1>5, <1>10
  <2>2. GoldMoved = g /\ GoodsMoved = w
    BY <1>5, <1>9, <1>10 DEF GoldMoved, GoodsMoved
  <2>3. CoinsMoved = c
    BY <1>9, <2>1, <1>10 DEF CoinsMoved
  <2>4. QueuedMoved = 0 /\ nextId' - nextId = 0
    BY <1>2, <1>9 DEF QueuedMoved
  <2> QED BY <2>2, <2>3, <2>4
<1>12. PICK tg, tc, og, oc \in Int :
         /\ tg = ClosedThings(rows, "goods") /\ tc = ClosedThings(rows, "coins")
         /\ og = ClosedOrders(rows, "goods") /\ oc = ClosedOrders(rows, "coins")
  <2>1. \A s, k : Closed(rows, s, k) \in Nat
    BY <1>1, <1>3, SumsTyped
  <2>2. /\ ClosedThings(rows, "goods") \in Nat /\ ClosedThings(rows, "coins") \in Nat
        /\ ClosedOrders(rows, "goods") \in Nat /\ ClosedOrders(rows, "coins") \in Nat
    BY <2>1, Zenon DEF Closed, ClosedThings, ClosedOrders, Things, Orders
  <2> QED BY <2>2
<1>13. /\ tg <= w /\ (raced = {} => tg = w)
       /\ tc <= c /\ (raced = {} => tc = c)
  <2>1. \A k \in Kinds : /\ ClosedThings(rows, k) <= PaidOut(rows, k)
                         /\ raced = {} => ClosedThings(rows, k) = PaidOut(rows, k)
    BY <1>1, <1>3, ThingsCovered
  <2> QED BY <1>10, <1>12, <2>1, ConstantsTyped
<1>14. Price * (og + oc) <= g /\ (raced = {} => Price * (og + oc) = g)
  <2>1. /\ Price * (ClosedOrders(rows, "goods") + ClosedOrders(rows, "coins")) <= PaidOut(rows, "gold")
        /\ raced = {} =>
             Price * (ClosedOrders(rows, "goods") + ClosedOrders(rows, "coins")) = PaidOut(rows, "gold")
    BY <1>1, <1>3, GoldCovered
  <2> QED BY <1>10, <1>12, <2>1
<1>15. GoodsGained' >= GoodsGained /\ (raced = {} => GoodsGained' = GoodsGained)
  <2>1. PICK n \in Int : n = GoodsGained /\ GoodsGained' = n + (GoodsMoved + HeldMoved(TRUE, "goods"))
    BY <1>1, <1>6, GoodsMove
  <2>2. GoodsGained' = n + (w + -tg)
    BY <1>8, <1>11, <1>12, <2>1
  <2>3. PICK m \in Int : m = n + (w + -tg)
    OBVIOUS
  <2>4. m >= n /\ (raced = {} => m = n)
    BY <1>13, <2>3
  <2>5. GoodsGained' = m
    BY <2>2, <2>3
  <2> QED BY <2>1, <2>4, <2>5
<1>16. CoinsGained' >= CoinsGained /\ (raced = {} => CoinsGained' = CoinsGained)
  <2>1. PICK n \in Int : n = CoinsGained /\ CoinsGained' = n + (CoinsMoved + QueuedMoved + HeldMoved(TRUE, "coins"))
    BY <1>1, <1>6, CoinsMove
  <2>2. CoinsGained' = n + (c + 0 + -tc)
    BY <1>8, <1>11, <1>12, <2>1
  <2>3. PICK m \in Int : m = n + (c + 0 + -tc)
    OBVIOUS
  <2>4. m >= n /\ (raced = {} => m = n)
    BY <1>13, <2>3
  <2>5. CoinsGained' = m
    BY <2>2, <2>3
  <2> QED BY <2>1, <2>4, <2>5
<1>17. GoldGained' >= GoldGained /\ (raced = {} => GoldGained' = GoldGained)
  <2>1. PICK n \in Int :
          /\ n = GoldGained
          /\ GoldGained' = n + (GoldMoved + Price * (HeldMoved(FALSE, "goods") + HeldMoved(FALSE, "coins"))
                                + Fee * (nextId' - nextId))
    BY <1>1, <1>6, GoldMoves
  <2>2. GoldGained' = n + (g + Price * (-og + -oc) + Fee * 0)
    BY <1>8, <1>11, <1>12, <2>1
  <2>3. PICK x \in Int : x = Price * (og + oc) /\ Price * (-og + -oc) = -x
    BY Negates, ConstantsTyped
  <2>4. GoldGained' = n + (g + -x)
    <3>1. Fee * 0 = 0 /\ g + -x + 0 = g + -x
      BY ConstantsTyped
    <3> QED BY <2>2, <2>3, <3>1
  <2>5. PICK m \in Int : m = n + (g + -x)
    OBVIOUS
  <2>6. m >= n /\ (raced = {} => m = n)
    BY <1>14, <2>3, <2>5
  <2>7. GoldGained' = m
    BY <2>4, <2>5
  <2> QED BY <2>1, <2>6, <2>7
<1> QED BY <1>2, <1>4, <1>6, <1>15, <1>16, <1>17 DEF Growing, Balanced

\* At the start nothing is offered or queued, and nothing is gained.
LEMMA InitiallyBalanced == Init => BalanceInv
<1> SUFFICES ASSUME Init PROVE BalanceInv
  OBVIOUS
<1>1. MarketInv
  BY Initially
<1>2. /\ offers = << >> /\ nextId = 1 /\ purse = StartPurse /\ account = StartCoins /\ cached = StartCoins
      /\ tasks = << >> /\ replies = << >> /\ raced = {}
  BY DEF Init
<1>3. << >> \in Tables
  <2>1. << >> \in [{} -> Row] /\ {} \in SUBSET OfferIds
    OBVIOUS
  <2> QED BY <2>1, IsTable
<1>4. Solvent(StartPurse) /\ StartCoins \in Accounts
  <2>1. StartPurse \in [Players -> [gold : Nat, goods : Nat, coins : Nat]] /\ StartCoins \in [Players -> Nat]
    BY MarketAssumption
  <2>2. \A p \in Players : \A what \in Goodies : StartPurse[p][what] \in Nat
    BY <2>1 DEF Goodies
  <2>3. [gold : Nat, goods : Nat, coins : Nat] \subseteq [gold : Int, goods : Int, coins : Int]
    OBVIOUS
  <2>4. StartPurse \in Purses /\ StartCoins \in Accounts
    BY <2>1, <2>3 DEF Purses, Accounts
  <2> QED BY <2>2, <2>4 DEF Solvent
<1>5. 1 \in 1..(MaxOffers + 1)
  BY MarketAssumption
<1>6. MarketTyped
  BY <1>2, <1>3, <1>4, <1>5 DEF MarketTyped
<1>7. SnapshotsFit
  BY <1>2 DEF SnapshotsFit
<1>8. \A s, k : Held(offers, s, k) = 0
  <2> TAKE s, k
  <2> DEFINE S == {i \in DOMAIN offers : offers[i].sale = s /\ offers[i].kind = k}
  <2>1. S = {}
    BY <1>2
  <2>2. Held(offers, s, k) = SumFunctionOnSet([i \in DOMAIN offers |-> offers[i].amount], S)
    BY DEF Held
  <2> QED BY <2>1, <2>2, SumOfNothing
<1>9. /\ Held(offers, FALSE, "goods") = 0 /\ Held(offers, FALSE, "coins") = 0
      /\ Held(offers, TRUE, "goods") = 0 /\ Held(offers, TRUE, "coins") = 0
  BY <1>8, Zenon
<1>10. Queued(tasks) = 0
  BY <1>2, QueuedEmpty
<1>11. GoldGained = 0
  <2>1. PICK g \in Int : g = Gold(StartPurse)
    BY StartTyped
  <2>2. GoldGained = g + Price * (0 + 0) + Fee * (1 - 1) - g
    BY <1>2, <1>9, <2>1 DEF GoldGained
  <2>3. Price * (0 + 0) = 0 /\ Fee * (1 - 1) = 0 /\ g + 0 + 0 - g = 0
    BY ConstantsTyped
  <2> QED BY <2>2, <2>3
<1>12. GoodsGained = 0
  <2>1. PICK g \in Int : g = Goods(StartPurse)
    BY StartTyped
  <2>2. GoodsGained = g + 0 - g
    BY <1>2, <1>9, <2>1 DEF GoodsGained
  <2> QED BY <2>2
<1>13. CoinsGained = 0
  <2>1. PICK g \in Int : g = Coins(StartPurse, StartCoins)
    BY StartTyped
  <2>2. CoinsGained = g + 0 + 0 - g
    BY <1>2, <1>9, <1>10, <2>1 DEF CoinsGained
  <2> QED BY <2>2
<1>14. NothingLost /\ NothingCreated
  BY <1>11, <1>12, <1>13 DEF NothingLost, NothingCreated
<1> QED BY <1>1, <1>6, <1>7, <1>14 DEF BalanceInv

\* The gains stay integers.
LEMMA GainsTyped ==
  ASSUME MarketTyped, MarketTyped'
  PROVE  GoldGained' \in Int /\ GoodsGained' \in Int /\ CoinsGained' \in Int
<1>1. PICK g, a, b, s \in Int : /\ g = Gold(purse') /\ s = Gold(StartPurse)
                                /\ a = Held(offers', FALSE, "goods") /\ b = Held(offers', FALSE, "coins")
  BY PartsTyped, StartTyped
<1>2. PICK n, pr, fe \in Int : n = nextId' /\ pr = Price /\ fe = Fee
  BY PartsTyped, ConstantsTyped
<1>3. g + pr * (a + b) + fe * (n - 1) - s \in Int
  OBVIOUS
<1>4. GoldGained' \in Int
  BY <1>1, <1>2, <1>3 DEF GoldGained
<1>5. PICK d, x, t \in Int : d = Goods(purse') /\ x = Held(offers', TRUE, "goods") /\ t = Goods(StartPurse)
  BY PartsTyped, StartTyped
<1>6. d + x - t \in Int
  OBVIOUS
<1>7. GoodsGained' \in Int
  BY <1>5, <1>6 DEF GoodsGained
<1>8. PICK c, q, y, u \in Int : /\ c = Coins(purse', account') /\ q = Queued(tasks')
                                /\ y = Held(offers', TRUE, "coins") /\ u = Coins(StartPurse, StartCoins)
  BY PartsTyped, StartTyped
<1>9. c + q + y - u \in Int
  OBVIOUS
<1>10. CoinsGained' \in Int
  BY <1>8, <1>9 DEF CoinsGained
<1> QED BY <1>4, <1>7, <1>10

\* What is balanced, or grows only where an offer was raced, stays conserved.
LEMMA StaysConserved ==
  ASSUME BalanceInv, MarketInv', MarketTyped', SnapshotsFit', Balanced \/ Growing, raced \subseteq raced'
  PROVE  BalanceInv'
<1>1. MarketTyped /\ NothingLost /\ NothingCreated
  BY DEF BalanceInv
<1>2. PICK a, b, c, a1, b1, c1 \in Int :
        /\ a = GoldGained /\ b = GoodsGained /\ c = CoinsGained
        /\ a1 = GoldGained' /\ b1 = GoodsGained' /\ c1 = CoinsGained'
  <2>1. GoldGained \in Int /\ GoodsGained \in Int /\ CoinsGained \in Int
    BY <1>1, GoldMoves, GoodsMove, CoinsMove
  <2>2. GoldGained' \in Int /\ GoodsGained' \in Int /\ CoinsGained' \in Int
    BY <1>1, GainsTyped
  <2> QED BY <2>1, <2>2
<1>3. /\ a >= 0 /\ b >= 0 /\ c >= 0
      /\ raced = {} => a <= 0 /\ b <= 0 /\ c <= 0
  BY <1>1, <1>2 DEF NothingLost, NothingCreated
<1>4. /\ a1 >= a /\ b1 >= b /\ c1 >= c
      /\ raced = {} => a1 = a /\ b1 = b /\ c1 = c
  BY <1>2 DEF Balanced, Growing
<1>5. raced' = {} => raced = {}
  OBVIOUS
<1>6. /\ a1 >= 0 /\ b1 >= 0 /\ c1 >= 0
      /\ raced' = {} => a1 <= 0 /\ b1 <= 0 /\ c1 <= 0
  BY <1>3, <1>4, <1>5
<1>7. NothingLost' /\ NothingCreated'
  BY <1>2, <1>6 DEF NothingLost, NothingCreated
<1> QED BY <1>7 DEF BalanceInv

\* Every step keeps the invariant: the processing of a snapshot by Growing, every
\* other by Kept.
LEMMA BalanceStep == BalanceInv /\ [Next]_vars => BalanceInv'
<1> SUFFICES ASSUME BalanceInv, [Next]_vars PROVE BalanceInv'
  OBVIOUS
<1>1. MarketInv'
  BY StepKeeps DEF BalanceInv
<1>2. ASSUME Kept PROVE BalanceInv'
  BY <1>1, <1>2, StaysConserved DEF Kept
<1>3. ASSUME NEW p \in Players, NEW n \in Amounts, SellGoods(p, n) PROVE BalanceInv'
  BY <1>2, <1>3, SellGoodsBalances
<1>4. ASSUME NEW p \in Players, NEW n \in Amounts, SellCoins(p, n) PROVE BalanceInv'
  BY <1>2, <1>4, SellCoinsBalances
<1>5. ASSUME NEW p \in Players, NEW n \in Amounts, NEW kind \in Kinds, Buy(p, kind, n) PROVE BalanceInv'
  BY <1>2, <1>5, BuyBalances
<1>6. ASSUME NEW p \in Players, NEW id \in DOMAIN offers, CancelOffer(p, id) PROVE BalanceInv'
  BY <1>2, <1>6, CancelBalances
<1>7. ASSUME NEW p \in Players, NEW id \in DOMAIN offers, NEW n \in Amounts, AcceptBuyOffer(p, id, n)
      PROVE  BalanceInv'
  BY <1>2, <1>7, AcceptBuyBalances
<1>8. ASSUME NEW p \in Players, NEW id \in DOMAIN offers, NEW n \in Amounts, AcceptSellOffer(p, id, n)
      PROVE  BalanceInv'
  BY <1>2, <1>8, AcceptSellBalances
<1>9. ASSUME NEW p \in Players, RefreshCoins(p) PROVE BalanceInv'
  BY <1>2, <1>9, RefreshBalances
<1>10. Request => BalanceInv'
  BY <1>3, <1>4, <1>5, <1>6, <1>7, <1>8, <1>9 DEF Request
<1>11. ASSUME NEW id \in DOMAIN offers, Age(id) PROVE BalanceInv'
  BY <1>2, <1>11, AgeBalances
<1>12. CASE CheckExpiredOffers
  BY <1>2, <1>12, CheckBalances
<1>13. CASE DatabaseThread
  BY <1>2, <1>13, SnapshotBalances, UpdateBalances
<1>14. CASE ProcessExpiredOffers
  BY <1>1, <1>14, ProcessBalances, StaysConserved
<1>15. CASE UNCHANGED vars
  <2>1. /\ offers' = offers /\ nextId' = nextId /\ purse' = purse /\ account' = account
        /\ cached' = cached /\ tasks' = tasks /\ replies' = replies /\ raced' = raced
    BY <1>15 DEF vars
  <2>2. MarketTyped'
    BY <2>1 DEF BalanceInv, MarketTyped
  <2>3. SnapshotsFit'
    BY <2>1 DEF BalanceInv, SnapshotsFit, Fits
  <2>4. GoldGained' = GoldGained /\ GoodsGained' = GoodsGained /\ CoinsGained' = CoinsGained
    BY <2>1, Zenon DEF GoldGained, GoodsGained, CoinsGained
  <2>5. NothingLost' /\ NothingCreated'
    BY <2>1, <2>4 DEF BalanceInv, NothingLost, NothingCreated
  <2> QED BY <1>1, <2>2, <2>3, <2>5 DEF BalanceInv
<1> QED BY <1>10, <1>11, <1>12, <1>13, <1>14, <1>15 DEF Next

\* The invariant says that the state is typed as the run wants it.
LEMMA TypedSo == MarketTyped => TypeOK
<1> SUFFICES ASSUME MarketTyped PROVE TypeOK
  OBVIOUS
<1>1. offers \in Tables /\ replies \in Seq(Tables) /\ \A i \in DOMAIN replies : replies[i] \in Tables
  BY DEF MarketTyped
<1>2. /\ DOMAIN offers \subseteq OfferIds /\ \A i \in DOMAIN offers : offers[i] \in Row
      /\ \A i \in DOMAIN replies : \A j \in DOMAIN replies[i] : replies[i][j] \in Row
  BY <1>1, TableTyped
<1>3. \A p \in Players : \A what \in {"gold", "goods", "coins"} : purse[p][what] \in Nat
  <2> TAKE p \in Players
  <2> TAKE what \in {"gold", "goods", "coins"}
  <2>1. purse[p] \in [gold : Int, goods : Int, coins : Int] /\ purse[p][what] >= 0
    BY DEF MarketTyped, Solvent, Purses, Goodies
  <2>2. purse[p][what] \in Int
    BY <2>1
  <2> QED BY <2>1, <2>2
<1> QED BY <1>2, <1>3 DEF MarketTyped, TypeOK, Accounts

\* Gold, goods and coins are conserved whatever players, prices, amounts and
\* interleavings: none is lost, and none is made unless an offer was partly
\* accepted while a snapshot of the expiry check held it.
THEOREM ConservedHolds == Spec => []Conserved
<1>1. BalanceInv => Conserved
  BY TypedSo DEF BalanceInv, Conserved
<1> QED BY InitiallyBalanced, BalanceStep, <1>1, PTL DEF Spec
=============================================================================
