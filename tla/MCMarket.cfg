SPECIFICATION Spec
CONSTANTS
  anna = anna
  bert = bert
  Players = {anna, bert}
  StartPurse <- MCStartPurse
  StartCoins <- MCStartCoins
  Price = 2
  Fee = 1
  MaxOffers = 2
  MaxAmount = 2
  MaxChecks = 2
INVARIANTS Conserved HistoryAddsUp
PROPERTY ExpiredOffersLeave
