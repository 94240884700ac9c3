------------------------------ MODULE Auction ------------------------------
(***************************************************************************)
(* The auction house and the mail (src/game/AuctionHouseHandler.cpp,        *)
(* AuctionHouseMgr.cpp, Mail.cpp).  Items and money pass between purses,    *)
(* bags, auctions and mails; players come and go, and what is sent to one   *)
(* who is away waits in the database.  All of it runs in the world thread:  *)
(* an action is a handler, or what a tick does to one auction or one mail.  *)
(*                                                                         *)
(* Abstracted: how long things last (an auction becomes due, a mail is      *)
(* delivered and expires at some time); mails that hold text only; the      *)
(* room in bags and what may be sold or sent at all, which may refuse a     *)
(* handler in any state; stacks that merge.  Clients name an item of the    *)
(* mail they take it from, and amounts of 32 bits that fit one together     *)
(* with the postage.                                                       *)
(***************************************************************************)
EXTENDS Integers, FiniteSets, Functions

CONSTANTS
  Players, NoPlayer,  \* the sender of the auction house's mails is NoPlayer
  AccountOf,
  Items,
  AuctionIds, NoAuction,
  MailIds, NoMail,    \* bound: mails at a time
  Postage,            \* of a mail, and of every item in it: 30
  Deposit,            \* GetAuctionDeposit, the same for every item
  CutPercent,         \* cutPercent of the auction house times its rate
  MaxMoney,           \* MAX_MONEY_AMOUNT
  MaxOffer,           \* bound: the amounts clients send
  Total               \* bound: the money there is

AuctionEntry ==
  [owner : Players, item : Items, startbid : Nat, buyout : Nat,
   bidder : Players \cup {NoPlayer}, bid : Nat, due : BOOLEAN]

\* A mail that is "stored" is not in the m_mail of its receiver.
MailEntry ==
  [receiver : Players, sender : Players \cup {NoPlayer}, items : SUBSET Items,
   money : Nat, COD : Nat, delivered : BOOLEAN, returned : BOOLEAN,
   state : {"stored", "listed", "deleted"}]

ASSUME AuctionAssumption ==
  /\ NoPlayer \notin Players
  /\ \A S \in {Players, Items, AuctionIds, MailIds} : IsFiniteSet(S)
  /\ {Postage, Deposit, MaxMoney, MaxOffer, Total} \subseteq Nat
  /\ CutPercent \in 0..100
  /\ NoAuction \notin AuctionEntry /\ NoMail \notin MailEntry

VARIABLES
  online,    \* players in the world
  money,
  bag,       \* the items of a player
  auctions,  \* AuctionsMap with the items of mAitems
  mails,     \* the table mail and the m_mail of players in the world
  sunk,      \* history: money that went to nobody
  gone       \* history: items that were destroyed

vars == <<online, money, bag, auctions, mails, sunk, gone>>

Running == {a \in AuctionIds : auctions[a] # NoAuction}
Sent == {k \in MailIds : mails[k] # NoMail}

\* The type of sunk is in MoneyAccounted.
TypeOK ==
  /\ online \subseteq Players
  /\ money \in [Players -> 0..MaxMoney]
  /\ bag \in [Players -> SUBSET Items]
  /\ auctions \in [AuctionIds -> AuctionEntry \cup {NoAuction}]
  /\ mails \in [MailIds -> MailEntry \cup {NoMail}]
  /\ gone \subseteq Items

Init ==
  /\ online = {}
  /\ money \in [Players -> 0..MaxMoney]
  /\ SumFunction(money) = Total
  /\ \E owner \in [Items -> Players] :
       bag = [p \in Players |-> {i \in Items : owner[i] = p}]
  /\ auctions = [a \in AuctionIds |-> NoAuction]
  /\ mails = [k \in MailIds |-> NoMail]
  /\ sunk = 0
  /\ gone = {}

-----------------------------------------------------------------------------
(* Sending mails.                                                          *)

StateFor(p) == IF p \in online THEN "listed" ELSE "stored"

\* A mail of the auction house.
AuctionMail(p, items, amount, delivered) ==
  [receiver |-> p, sender |-> NoPlayer, items |-> items, money |-> amount,
   COD |-> 0, delivered |-> delivered, returned |-> FALSE, state |-> StateFor(p)]

\* MAIL_NORMAL, from a player.
PlayerMail(s, p, items, amount, cod, delivered, returned) ==
  [receiver |-> p, sender |-> s, items |-> items, money |-> amount,
   COD |-> cod, delivered |-> delivered, returned |-> returned, state |-> StateFor(p)]

\* MailDraft::SendMailTo for every draft, in new entries beside those of kept.
SendMailTo(kept, drafts) ==
  \E new \in [MailIds -> drafts \cup {NoMail}] :
    /\ \A d \in drafts : \E k \in MailIds : \A j \in MailIds : new[j] = d <=> j = k
    /\ \A k \in MailIds : new[k] # NoMail => kept[k] = NoMail
    /\ mails' = [k \in MailIds |-> IF new[k] = NoMail THEN kept[k] ELSE new[k]]

\* A delay for items, between accounts only.
Undelayed(s, p, items) == items = {} \/ AccountOf[s] = AccountOf[p]

\* Player::ModifyMoney for an amount taken, which the handlers have tested.
Pay(p, amount) == money' = [money EXCEPT ![p] = @ - amount]

-----------------------------------------------------------------------------
(* Auctions.                                                               *)

\* uint32(cutPercent * bid * rate / 100), of the bid.
GetAuctionCut(bid) == (CutPercent * bid) \div 100
GetAuctionOutBid(bid) == IF bid < 100 THEN 1 ELSE 5 * (bid \div 100)

HandleAuctionSellItem(p, item, startbid, buyout) ==
  /\ p \in online
  /\ item \in bag[p]
  /\ \A a \in Running : auctions[a].item # item
  /\ startbid # 0
  /\ money[p] >= Deposit
  /\ Pay(p, Deposit)
  /\ bag' = [bag EXCEPT ![p] = @ \ {item}]
  /\ \E a \in AuctionIds \ Running :
       auctions' = [auctions EXCEPT ![a] =
         [owner |-> p, item |-> item, startbid |-> startbid, buyout |-> buyout,
          bidder |-> NoPlayer, bid |-> 0, due |-> FALSE]]
  /\ UNCHANGED <<online, mails, sunk, gone>>

\* The refund of the bidder so far.
OutbiddedMails(e) ==
  IF e.bidder = NoPlayer THEN {} ELSE {AuctionMail(e.bidder, {}, e.bid, TRUE)}

\* bid + deposit - cut for the owner, after an hour.
SuccessfulMail(e) ==
  AuctionMail(e.owner, {}, e.bid + Deposit - GetAuctionCut(e.bid), FALSE)
WonMail(e) == AuctionMail(e.bidder, {e.item}, 0, TRUE)
ExpiredMail(e) == AuctionMail(e.owner, {e.item}, 0, TRUE)

Ended(a) == auctions' = [auctions EXCEPT ![a] = NoAuction]

\* Nobody bids for his own auction, nor for that of another of his characters.
BidAllowed(p, e) ==
  /\ p \in online /\ p # e.owner
  /\ ~(e.owner \notin online /\ AccountOf[e.owner] = AccountOf[p])

BidBelowBuyout(e, price) == price < e.buyout \/ e.buyout = 0

BidAccepted(p, e, price) ==
  /\ BidAllowed(p, e)
  /\ price # 0 /\ price > e.bid /\ price >= e.startbid
  /\ BidBelowBuyout(e, price) => price >= e.bid + GetAuctionOutBid(e.bid)
  /\ price <= money[p]

\* Mutants: who raises his bid pays all of it; the entry is changed before the
\* mail to the bidder so far is sent.
PlaceBidAgain(p, a, price) ==
  LET e == auctions[a] IN
  /\ a \in Running
  /\ BidAccepted(p, e, price) /\ BidBelowBuyout(e, price)
  /\ Pay(p, price)
  /\ SendMailTo(mails, IF e.bidder = p THEN {} ELSE OutbiddedMails(e))
  /\ auctions' = [auctions EXCEPT ![a].bidder = p, ![a].bid = price]
  /\ UNCHANGED <<online, bag, sunk, gone>>
PlaceBidEarly(p, a, price) ==
  LET e == auctions[a] IN
  /\ a \in Running
  /\ BidAccepted(p, e, price) /\ BidBelowBuyout(e, price)
  /\ IF e.bidder = p
     THEN Pay(p, price - e.bid) /\ UNCHANGED mails
     ELSE Pay(p, price) /\ SendMailTo(mails, OutbiddedMails([e EXCEPT !.bidder = p]))
  /\ auctions' = [auctions EXCEPT ![a].bidder = p, ![a].bid = price]
  /\ UNCHANGED <<online, bag, sunk, gone>>

PlaceBid(p, a, price) ==
  LET e == auctions[a] IN
  /\ a \in Running
  /\ BidAccepted(p, e, price) /\ BidBelowBuyout(e, price)
  /\ IF e.bidder = p
     THEN Pay(p, price - e.bid) /\ UNCHANGED mails
     ELSE Pay(p, price) /\ SendMailTo(mails, OutbiddedMails(e))
  /\ auctions' = [auctions EXCEPT ![a].bidder = p, ![a].bid = price]
  /\ UNCHANGED <<online, bag, sunk, gone>>

\* Mutant: the owner's mail is made before the entry has the new bid.
BuyoutEarly(p, a, price) ==
  LET e == auctions[a]
      won == [e EXCEPT !.bidder = p, !.bid = e.buyout]
  IN
  /\ a \in Running
  /\ BidAccepted(p, e, price) /\ ~BidBelowBuyout(e, price)
  /\ Pay(p, IF e.bidder = p THEN e.buyout - e.bid ELSE e.buyout)
  /\ SendMailTo(mails, {SuccessfulMail(e), WonMail(won)} \cup
                       IF e.bidder = p THEN {} ELSE OutbiddedMails(e))
  /\ Ended(a)
  /\ sunk' = sunk + GetAuctionCut(e.bid)
  /\ UNCHANGED <<online, bag, gone>>

Buyout(p, a, price) ==
  LET e == auctions[a]
      won == [e EXCEPT !.bidder = p, !.bid = e.buyout]
  IN
  /\ a \in Running
  /\ BidAccepted(p, e, price) /\ ~BidBelowBuyout(e, price)
  /\ Pay(p, IF e.bidder = p THEN e.buyout - e.bid ELSE e.buyout)
  /\ SendMailTo(mails, {SuccessfulMail(won), WonMail(won)} \cup
                       IF e.bidder = p THEN {} ELSE OutbiddedMails(e))
  /\ Ended(a)
  /\ sunk' = sunk + GetAuctionCut(e.buyout)
  /\ UNCHANGED <<online, bag, gone>>

HandleAuctionPlaceBid(p, a, price) == PlaceBid(p, a, price) \/ Buyout(p, a, price)

\* The owner cancels: he pays the cut if there is a bid, which is refunded.
HandleAuctionRemoveItem(p, a) ==
  LET e == auctions[a]
      cut == IF e.bidder = NoPlayer THEN 0 ELSE GetAuctionCut(e.bid)
  IN
  /\ a \in Running
  /\ p \in online /\ e.owner = p
  /\ money[p] >= cut
  /\ Pay(p, cut)
  /\ SendMailTo(mails, OutbiddedMails(e) \cup {ExpiredMail(e)})
  /\ Ended(a)
  /\ sunk' = sunk + cut + Deposit
  /\ UNCHANGED <<online, bag, gone>>

AuctionDue(a) ==
  /\ a \in Running /\ ~auctions[a].due
  /\ auctions' = [auctions EXCEPT ![a].due = TRUE]
  /\ UNCHANGED <<online, money, bag, mails, sunk, gone>>

\* AuctionHouseObject::Update, for one auction; until then bids are accepted.
Update(a) ==
  LET e == auctions[a] IN
  /\ a \in Running /\ e.due
  /\ IF e.bidder = NoPlayer
     THEN /\ SendMailTo(mails, {ExpiredMail(e)})
          /\ sunk' = sunk + Deposit
     ELSE /\ SendMailTo(mails, {SuccessfulMail(e), WonMail(e)})
          /\ sunk' = sunk + GetAuctionCut(e.bid)
  /\ Ended(a)
  /\ UNCHANGED <<online, money, bag, gone>>

-----------------------------------------------------------------------------
(* Mail.                                                                   *)

Cost(items) == IF items = {} THEN Postage ELSE Postage * Cardinality(items)

HandleSendMail(p, r, items, amount, cod) ==
  /\ p \in online /\ p # r
  /\ money[p] >= Cost(items) + amount
  /\ items \subseteq bag[p]
  /\ Pay(p, Cost(items) + amount)
  /\ bag' = [bag EXCEPT ![p] = @ \ items]
  /\ SendMailTo(mails,
       {PlayerMail(p, r, items, amount, cod, Undelayed(p, r, items), FALSE)})
  /\ sunk' = sunk + Cost(items)
  /\ UNCHANGED <<online, auctions, gone>>

\* Player::GetMail.
HasMail(p, k) ==
  /\ p \in online /\ k \in Sent
  /\ mails[k].receiver = p /\ mails[k].state # "stored"

\* Also brings a deleted mail back.
HandleMailMarkAsRead(p, k) ==
  /\ HasMail(p, k)
  /\ mails' = [mails EXCEPT ![k].state = "listed"]
  /\ UNCHANGED <<online, money, bag, auctions, sunk, gone>>

\* Not for a mail with COD.
HandleMailDelete(p, k) ==
  /\ HasMail(p, k)
  /\ mails[k].COD = 0
  /\ mails' = [mails EXCEPT ![k].state = "deleted"]
  /\ UNCHANGED <<online, money, bag, auctions, sunk, gone>>

\* The guard of what is done with a mail.
Open(p, k) == HasMail(p, k) /\ mails[k].state # "deleted" /\ mails[k].delivered

\* Mutant: the mail stays beside the one that goes back.
HandleMailReturnToSenderKeeps(p, k) ==
  LET m == mails[k] IN
  /\ Open(p, k) /\ m.sender # NoPlayer
  /\ SendMailTo(mails, {PlayerMail(p, m.sender, m.items, m.money, 0,
                                   Undelayed(p, m.sender, m.items), TRUE)})
  /\ UNCHANGED <<online, money, bag, auctions, sunk, gone>>

\* A mail of the auction house is dropped.
HandleMailReturnToSender(p, k) ==
  LET m == mails[k] IN
  /\ Open(p, k)
  /\ IF m.sender # NoPlayer
     THEN /\ SendMailTo([mails EXCEPT ![k] = NoMail],
               {PlayerMail(p, m.sender, m.items, m.money, 0,
                           Undelayed(p, m.sender, m.items), TRUE)})
          /\ UNCHANGED <<sunk, gone>>
     ELSE /\ mails' = [mails EXCEPT ![k] = NoMail]
          /\ sunk' = sunk + m.money
          /\ gone' = gone \cup m.items
  /\ UNCHANGED <<online, money, bag, auctions>>

\* Player::_SaveMail: the deleted mails of a player disappear.
Deleted(p, box) ==
  {k \in MailIds : box[k] # NoMail /\ box[k].receiver = p /\ box[k].state = "deleted"}
SaveMail(p, box) == [k \in MailIds |-> IF k \in Deleted(p, box) THEN NoMail ELSE box[k]]
MoneyIn(box, ks) == SumFunction([k \in ks |-> box[k].money])
ItemsIn(box, ks) == UNION {box[k].items : k \in ks}
Lost(p) ==
  /\ sunk' = sunk + MoneyIn(mails, Deleted(p, mails))
  /\ gone' = gone \cup ItemsIn(mails, Deleted(p, mails))

\* The first item taken pays the COD.
HandleMailTakeItem(p, k, item) ==
  LET m == mails[k]
      kept == SaveMail(p, [mails EXCEPT ![k].items = @ \ {item}, ![k].COD = 0])
  IN
  /\ Open(p, k)
  /\ money[p] >= m.COD
  /\ item \in m.items
  /\ IF m.COD > 0
     THEN SendMailTo(kept, IF m.sender = NoPlayer THEN {}
            ELSE {PlayerMail(p, m.sender, {}, m.COD, 0, TRUE, FALSE)})
     ELSE mails' = kept
  /\ Pay(p, m.COD)
  /\ bag' = [bag EXCEPT ![p] = @ \cup {item}]
  /\ Lost(p)
  /\ UNCHANGED <<online, auctions>>

\* Mutant: no limit.
MoreUnlimited(m, d) == m + d
\* Player::ModifyMoney for an amount given: more than the limit is lost.
More(m, d) == IF m < MaxMoney - d THEN m + d ELSE MaxMoney

HandleMailTakeMoney(p, k) ==
  LET amount == mails[k].money
      after == More(money[p], amount)
  IN
  /\ Open(p, k)
  /\ money' = [money EXCEPT ![p] = after]
  /\ mails' = SaveMail(p, [mails EXCEPT ![k].money = 0])
  /\ sunk' = sunk + MoneyIn(mails, Deleted(p, mails)) + money[p] + amount - after
  /\ gone' = gone \cup ItemsIn(mails, Deleted(p, mails))
  /\ UNCHANGED <<online, bag, auctions>>

\* Player::SaveToDB, now and then.
SavePlayer(p) ==
  /\ p \in online /\ Deleted(p, mails) # {}
  /\ mails' = SaveMail(p, mails)
  /\ Lost(p)
  /\ UNCHANGED <<online, money, bag, auctions>>

Relisted(p, box, state) ==
  [k \in MailIds |-> IF box[k] # NoMail /\ box[k].receiver = p
                     THEN [box[k] EXCEPT !.state = state] ELSE box[k]]

\* One character of an account at a time; its mails are loaded.
LogIn(p) ==
  /\ p \in Players \ online
  /\ \A q \in online : AccountOf[q] # AccountOf[p]
  /\ online' = online \cup {p}
  /\ mails' = Relisted(p, mails, "listed")
  /\ UNCHANGED <<money, bag, auctions, sunk, gone>>

LogOut(p) ==
  /\ p \in online
  /\ online' = online \ {p}
  /\ mails' = Relisted(p, SaveMail(p, mails), "stored")
  /\ Lost(p)
  /\ UNCHANGED <<money, bag, auctions>>

MailDelivered(k) ==
  /\ k \in Sent /\ ~mails[k].delivered
  /\ mails' = [mails EXCEPT ![k].delivered = TRUE]
  /\ UNCHANGED <<online, money, bag, auctions, sunk, gone>>

\* What goes back to its sender when it expires; the rest is deleted.
Returnable(m) == m.items # {} /\ m.sender # NoPlayer /\ ~m.returned

\* Of ObjectMgr::ReturnOrDeleteOldMails: an expired mail, of a receiver who is
\* away.  A sender who is in the world does not see it before he logs in again.
MailExpires(k) ==
  LET m == mails[k] IN
  /\ k \in Sent /\ m.delivered
  /\ m.receiver \notin online
  /\ IF Returnable(m)
     THEN /\ mails' = [mails EXCEPT ![k] =
               [m EXCEPT !.sender = m.receiver, !.receiver = m.sender, !.COD = 0,
                         !.returned = TRUE, !.state = "stored"]]
          /\ UNCHANGED <<sunk, gone>>
     ELSE /\ mails' = [mails EXCEPT ![k] = NoMail]
          /\ sunk' = sunk + m.money
          /\ gone' = gone \cup m.items
  /\ UNCHANGED <<online, money, bag, auctions>>

-----------------------------------------------------------------------------
\* What a client of p asks for.
ActOf(p) ==
  \/ \E i \in Items, s \in 1..MaxOffer, b \in 0..MaxOffer : HandleAuctionSellItem(p, i, s, b)
  \/ \E a \in AuctionIds :
       \/ \E price \in 1..MaxOffer : HandleAuctionPlaceBid(p, a, price)
       \/ HandleAuctionRemoveItem(p, a)
  \/ \E r \in Players, items \in SUBSET Items, m, c \in 0..MaxOffer :
       HandleSendMail(p, r, items, m, c)
  \/ \E k \in MailIds :
       \/ HandleMailMarkAsRead(p, k)
       \/ HandleMailDelete(p, k)
       \/ HandleMailReturnToSender(p, k)
       \/ \E i \in Items : HandleMailTakeItem(p, k, i)
       \/ HandleMailTakeMoney(p, k)

Next ==
  \/ \E p \in Players : ActOf(p) \/ SavePlayer(p) \/ LogIn(p) \/ LogOut(p)
  \/ \E a \in AuctionIds : AuctionDue(a) \/ Update(a)
  \/ \E k \in MailIds : MailDelivered(k) \/ MailExpires(k)

Spec == Init /\ [][Next]_vars

-----------------------------------------------------------------------------
(* Properties.                                                             *)

\* An item is in one place: a bag, an auction, a mail, or destroyed.
InBag(i) == {p \in Players : i \in bag[p]}
InAuction(i) == {a \in Running : auctions[a].item = i}
InMail(i) == {k \in Sent : i \in mails[k].items}
One(S) == \E x \in S : S = {x}
OncePlaced(i) ==
  \/ i \notin gone /\ One(InBag(i)) /\ InAuction(i) = {} /\ InMail(i) = {}
  \/ i \notin gone /\ InBag(i) = {} /\ One(InAuction(i)) /\ InMail(i) = {}
  \/ i \notin gone /\ InBag(i) = {} /\ InAuction(i) = {} /\ One(InMail(i))
  \/ i \in gone /\ InBag(i) = {} /\ InAuction(i) = {} /\ InMail(i) = {}
EachItemOnce == \A i \in Items : OncePlaced(i)

\* No money is made, and what leaves the game is the postage, the cut, the
\* deposits of auctions without a buyer, and the money in mails that expire,
\* are deleted or exceed what a purse holds.
MoneyAccounted ==
  SumFunction(money) + MoneyIn(mails, Sent)
    + SumFunction([a \in Running |-> auctions[a].bid + Deposit]) + sunk = Total

\* What a player has: his purse, the bids that stand and the money in his mails.
Bids(p) == {a \in Running : auctions[a].bidder = p}
MailsOf(p) == {k \in Sent : mails[k].receiver = p /\ mails[k].state # "deleted"}
Wealth(p) == money[p] + SumFunction([a \in Bids(p) |-> auctions[a].bid])
             + MoneyIn(mails, MailsOf(p))

\* Whatever others do, a player becomes poorer only by his own acts, when he
\* wins an auction, and when a mail to him expires.
NobodyElsePays ==
  [][\A p \in Players : Wealth(p)' < Wealth(p) =>
       \/ ActOf(p)
       \/ \E a \in Bids(p) : /\ a \notin Running'
                             /\ \E k \in MailsOf(p)' : auctions[a].item \in mails'[k].items
       \/ \E k \in MailsOf(p) : MailExpires(k)]_vars

\* Nobody loses an item for less than he asked.  When an auction ends with the
\* item in the mail of another than its owner, the owner becomes richer by his
\* price, the lower of the starting bid and the buyout, with the deposit and
\* without the cut; when an item is taken from a mail with COD, its sender
\* becomes richer by it.
Asked(e) == IF e.buyout # 0 /\ e.buyout < e.startbid THEN e.buyout ELSE e.startbid
SellersPaid ==
  [][\A p \in Players :
       /\ \A a \in Running \ Running' : \A k \in Sent' :
            LET e == auctions[a] IN
            /\ e.owner = p
            /\ e.item \in mails'[k].items /\ mails'[k].receiver # p
            => Wealth(p)' >= Wealth(p) + Deposit + Asked(e) - GetAuctionCut(Asked(e))
       /\ \A k \in Sent, q \in Players :
            mails[k].sender = p /\ bag'[q] \cap mails[k].items # {}
              => Wealth(p)' >= Wealth(p) + mails[k].COD]_vars
=============================================================================
