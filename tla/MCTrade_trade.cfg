CONSTANTS
  p1 = p1  p2 = p2  p3 = p3
  i1 = i1  i2 = i2
  Players = {p1, p2, p3}
  NoPlayer = NoPlayer
  Items = {i1, i2}
  NoItem = NoItem
  Spells = {spell}
  NoSpell = NoSpell
  TradedSlots = {s1}
  NonTraded = nontraded
  Places = 1
  MaxMoney = 1
  MaxOffer = 1
SYMMETRY Symmetric
CONSTRAINT Few
SPECIFICATION Spec
INVARIANTS TypeOK TradesPaired ItemsHavePlaces
PROPERTIES AgreedByBoth ExchangeConserves
