SPECIFICATION MCSpec
CONSTANTS
  anna = anna
  bert = bert
  carl = carl
  pouch = pouch
  coin = coin
  Players = {anna, bert, carl}
  Items = {pouch, coin}
  Bags = {pouch}
  StartAt <- MCStartAt
  Ground = Ground
  Nowhere = Nowhere
  None = None
  \* WaitingList
  premium = premium
  staff = staff
  quitter = quitter
  plain = plain
  Clients = {premium, staff, quitter, plain}
  Premium = {premium}
  Staff = {staff}
  Quitters = {quitter}
  MaxPlayers = 2
  \* Saving
  character = character
  houses = houses
  query = query
  Characters = {character}
  Houses = {houses}
  Queries = {query}
  MaxVersion = 2
  MaxLost = 1
  Nothing = Nothing
  \* Windows
  alice = alice
  bob = bob
  sack = sack
  purse = purse
  Openers = {alice, bob}
  Carriers = {}
  Sacks = {sack, purse}
  Fields = {1, 3}
  Cids = {0, 15}
  DummyCid <- MCDummyCid
  MaxLeaks = 1
  Away = Away
  \* LiveCast
  h1 = h1
  h2 = h2
  g1 = g1
  g2 = g2
  Casters = {h1, h2}
  Viewers = {g1, g2}
  MaxShown = 2
  MaxPings = 1
  Off = Off
INVARIANTS TradesConsistent OffersIntact PartiesConsistent SavedWhole QueriesKept WindowsKept CastKept
PROPERTY PlacesAheadKept
CHECK_DEADLOCK FALSE
CONSTRAINT FewWaiting
VIEW View
