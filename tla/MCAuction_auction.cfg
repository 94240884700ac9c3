CONSTANTS
  p1 = p1  p2 = p2  p3 = p3
  anna = anna  boris = boris
  Players = {p1, p2, p3}
  NoPlayer = NoPlayer
  AccountOf <- Accounts
  Items = {i1}
  AuctionIds = {a1}
  NoAuction = NoAuction
  MailIds = {m1, m2, m3}
  NoMail = NoMail
  Postage = 1
  Deposit = 1
  CutPercent = 50
  MaxMoney = 3
  MaxOffer = 2
  Total = 4

SYMMETRY Symmetric
CONSTRAINT FewMails
SPECIFICATION Spec
CHECK_DEADLOCK FALSE
INVARIANTS TypeOK  MoneyAccounted
PROPERTIES NobodyElsePays 
