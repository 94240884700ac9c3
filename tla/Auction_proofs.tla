--------------------------- MODULE Auction_proofs ---------------------------
(***************************************************************************)
(* Proofs about Auction for any players, items, auctions, mails and amounts: *)
(* first types, limits of purses and bids, and items that stay in one place; *)
(* then money: none is made and none lost uncounted, nobody pays for what  *)
(* others do, and whoever sells an item gets what he asked.                *)
(***************************************************************************)
EXTENDS Auction, FiniteSetTheorems, FiniteSetsExt, TLAPS

\* A bid that reaches the buyout ends the auction.
BidsBelowBuyout ==
  \A a \in Running : auctions[a].buyout = 0 \/ auctions[a].bid < auctions[a].buyout

TypeInv == TypeOK /\ BidsBelowBuyout
IInv == TypeInv /\ EachItemOnce

\* The values of mails.
Box == [MailIds -> MailEntry \cup {NoMail}]

-----------------------------------------------------------------------------
(* Amounts.                                                                *)

\* The constants are of the types the module assumes.
LEMMA Constants ==
  /\ Postage \in Nat /\ Deposit \in Nat /\ MaxMoney \in Nat /\ MaxOffer \in Nat
  /\ CutPercent \in 0..100
  /\ IsFiniteSet(Players) /\ IsFiniteSet(Items)
  /\ IsFiniteSet(AuctionIds) /\ IsFiniteSet(MailIds)
  /\ NoAuction \notin AuctionEntry /\ NoMail \notin MailEntry /\ NoPlayer \notin Players
BY AuctionAssumption

\* The cut is a part of the bid.
LEMMA CutOfBid ==
  ASSUME NEW bid \in Nat
  PROVE  GetAuctionCut(bid) \in 0..bid
<1> DEFINE n == CutPercent * bid
<1>1. CutPercent \in Nat /\ CutPercent <= 100
  BY Constants
<1>2. n \in Nat /\ n <= 100 * bid
  BY <1>1
<1> HIDE DEF n
<1>3. n \div 100 \in 0..bid
  BY <1>2
<1> QED BY <1>3 DEF n, GetAuctionCut

\* The postage of finitely many items is a natural number.
LEMMA CostType ==
  ASSUME NEW items \in SUBSET Items
  PROVE  Cost(items) \in Nat
<1>1. Cardinality(items) \in Nat
  BY Constants, FS_Subset, FS_CardinalityType
<1> QED BY <1>1, Constants DEF Cost

\* ModifyMoney for an amount given stays between nothing and the most.
LEMMA MoreType ==
  ASSUME NEW m \in 0..MaxMoney, NEW d \in Nat
  PROVE  More(m, d) \in 0..MaxMoney
BY Constants DEF More

\* Paying what the purse holds.
LEMMA PayType ==
  ASSUME TypeOK, NEW p \in Players, NEW amount \in Nat,
         amount <= money[p], Pay(p, amount)
  PROVE  money' \in [Players -> 0..MaxMoney]
BY Constants DEF TypeOK, Pay

-----------------------------------------------------------------------------
(* Mails.                                                                  *)

\* A mail of the auction house is a mail, as is one of a player.
LEMMA AuctionMailType ==
  ASSUME NEW p \in Players, NEW items \in SUBSET Items, NEW amount \in Nat,
         NEW delivered \in BOOLEAN
  PROVE  AuctionMail(p, items, amount, delivered) \in MailEntry
BY DEF AuctionMail, MailEntry, StateFor

\* See AuctionMailType.
LEMMA PlayerMailType ==
  ASSUME NEW s \in Players, NEW p \in Players, NEW items \in SUBSET Items,
         NEW amount \in Nat, NEW cod \in Nat,
         NEW delivered \in BOOLEAN, NEW returned \in BOOLEAN
  PROVE  PlayerMail(s, p, items, amount, cod, delivered, returned) \in MailEntry
BY DEF PlayerMail, MailEntry, StateFor

\* Whether a delay applies is a truth value.
LEMMA UndelayedType ==
  ASSUME NEW s, NEW p, NEW items
  PROVE  Undelayed(s, p, items) \in BOOLEAN
BY DEF Undelayed

\* The mails of an auction are mails; only those with the item hold it.
LEMMA AuctionMails ==
  ASSUME NEW e \in AuctionEntry
  PROVE  /\ \A d \in OutbiddedMails(e) : d \in MailEntry /\ d.items = {}
         /\ ExpiredMail(e) \in MailEntry /\ ExpiredMail(e).items = {e.item}
         /\ e.bidder # NoPlayer =>
              /\ SuccessfulMail(e) \in MailEntry /\ SuccessfulMail(e).items = {}
              /\ WonMail(e) \in MailEntry /\ WonMail(e).items = {e.item}
<1>1. \A d \in OutbiddedMails(e) : d \in MailEntry /\ d.items = {}
  <2>1. CASE e.bidder = NoPlayer
    BY <2>1 DEF OutbiddedMails
  <2>2. CASE e.bidder # NoPlayer
    <3>1. e.bidder \in Players /\ e.bid \in Nat
      BY <2>2 DEF AuctionEntry
    <3>2. AuctionMail(e.bidder, {}, e.bid, TRUE) \in MailEntry
      BY <3>1, AuctionMailType
    <3>3. AuctionMail(e.bidder, {}, e.bid, TRUE).items = {}
      BY DEF AuctionMail
    <3> QED BY <2>2, <3>2, <3>3 DEF OutbiddedMails
  <2> QED BY <2>1, <2>2
<1>2. ExpiredMail(e) \in MailEntry /\ ExpiredMail(e).items = {e.item}
  <2>1. e.owner \in Players /\ {e.item} \in SUBSET Items
    BY DEF AuctionEntry
  <2> QED BY <2>1, AuctionMailType DEF ExpiredMail, AuctionMail
<1>3. ASSUME e.bidder # NoPlayer
      PROVE  /\ SuccessfulMail(e) \in MailEntry /\ SuccessfulMail(e).items = {}
             /\ WonMail(e) \in MailEntry /\ WonMail(e).items = {e.item}
  <2>1. /\ e.owner \in Players /\ {e.item} \in SUBSET Items
        /\ e.bidder \in Players /\ e.bid \in Nat
    BY <1>3 DEF AuctionEntry
  <2>2. e.bid + Deposit - GetAuctionCut(e.bid) \in Nat
    <3>1. GetAuctionCut(e.bid) \in 0..e.bid
      BY <2>1, CutOfBid
    <3> QED BY <2>1, <3>1, Constants
  <2>3. SuccessfulMail(e) \in MailEntry
    BY <2>1, <2>2, AuctionMailType DEF SuccessfulMail
  <2>4. WonMail(e) \in MailEntry
    BY <2>1, AuctionMailType DEF WonMail
  <2> QED BY <2>3, <2>4 DEF SuccessfulMail, WonMail, AuctionMail
<1> QED BY <1>1, <1>2, <1>3

\* The mails of box that hold an item.
Holders(box, i) == {k \in MailIds : box[k] # NoMail /\ i \in box[k].items}

\* SendMailTo adds mails to those that were kept, and where an item is after
\* it: where it was, if no draft holds it, and in one mail, if one draft does
\* and no mail did.
LEMMA Mailed ==
  ASSUME NEW kept \in Box, NEW drafts \in SUBSET MailEntry, SendMailTo(kept, drafts)
  PROVE  /\ mails' \in Box
         /\ \A i : (\A d \in drafts : i \notin d.items)
                     => Holders(mails', i) = Holders(kept, i)
         /\ \A i : /\ \E d \in drafts : i \in d.items
                   /\ \A d, c \in drafts : i \in d.items /\ i \in c.items => c = d
                   /\ Holders(kept, i) = {}
                   => One(Holders(mails', i))
<1>1. PICK new \in [MailIds -> drafts \cup {NoMail}] :
        /\ \A d \in drafts : \E k \in MailIds : \A j \in MailIds : new[j] = d <=> j = k
        /\ \A k \in MailIds : new[k] # NoMail => kept[k] = NoMail
        /\ mails' = [k \in MailIds |-> IF new[k] = NoMail THEN kept[k] ELSE new[k]]
  BY DEF SendMailTo
<1>2. mails' \in Box
  BY <1>1 DEF Box
<1>3. \A k \in MailIds : mails'[k] = IF new[k] = NoMail THEN kept[k] ELSE new[k]
  BY <1>1
<1>4. ASSUME NEW i, \A d \in drafts : i \notin d.items
      PROVE  Holders(mails', i) = Holders(kept, i)
  <2>1. \A k \in MailIds : new[k] # NoMail => i \notin mails'[k].items /\ kept[k] = NoMail
    BY <1>1, <1>3, <1>4
  <2> QED BY <1>3, <2>1 DEF Holders
<1>5. ASSUME NEW i,
             \E d \in drafts : i \in d.items,
             \A d, c \in drafts : i \in d.items /\ i \in c.items => c = d,
             Holders(kept, i) = {}
      PROVE  One(Holders(mails', i))
  <2>1. PICK d \in drafts : i \in d.items
    BY <1>5
  <2>2. PICK k \in MailIds : \A j \in MailIds : new[j] = d <=> j = k
    BY <1>1
  <2>3. k \in Holders(mails', i)
    <3>1. new[k] = d /\ d # NoMail
      BY <2>2, Constants
    <3> QED BY <1>3, <2>1, <3>1 DEF Holders
  <2>4. \A j \in Holders(mails', i) : j = k
    <3> TAKE j \in Holders(mails', i)
    <3>1. j \in MailIds /\ mails'[j] # NoMail /\ i \in mails'[j].items
      BY DEF Holders
    <3>2. new[j] # NoMail
      BY <1>3, <1>5, <3>1 DEF Holders
    <3>3. new[j] \in drafts /\ i \in new[j].items
      BY <1>1, <1>3, <3>1, <3>2
    <3> QED BY <1>5, <2>1, <2>2, <3>1, <3>3
  <2>5. Holders(mails', i) = {k}
    BY <2>3, <2>4
  <2> QED BY <2>5 DEF One
<1> QED BY <1>2, <1>4, <1>5

\* A mail with another state, delivered, with an item or the money taken, or
\* on its way back, is a mail.
LEMMA MailWith ==
  ASSUME NEW m \in MailEntry
  PROVE  /\ \A s \in {"stored", "listed", "deleted"} : [m EXCEPT !.state = s] \in MailEntry
         /\ [m EXCEPT !.delivered = TRUE] \in MailEntry
         /\ [m EXCEPT !.money = 0] \in MailEntry
         /\ \A item : [m EXCEPT !.items = @ \ {item}, !.COD = 0] \in MailEntry
         /\ m.sender # NoPlayer =>
              [m EXCEPT !.sender = m.receiver, !.receiver = m.sender, !.COD = 0,
                        !.returned = TRUE, !.state = "stored"] \in MailEntry
BY DEF MailEntry

\* SaveMail keeps mails and drops the deleted ones: an item in one of them is
\* in no mail afterwards, and every other stays where it is.
LEMMA SavedMails ==
  ASSUME NEW box \in Box, NEW p
  PROVE  /\ SaveMail(p, box) \in Box
         /\ ItemsIn(box, Deleted(p, box)) \in SUBSET Items
         /\ \A i : i \notin ItemsIn(box, Deleted(p, box))
                  => Holders(SaveMail(p, box), i) = Holders(box, i)
         /\ \A i : i \in ItemsIn(box, Deleted(p, box)) /\ One(Holders(box, i))
                  => Holders(SaveMail(p, box), i) = {}
<1>1. SaveMail(p, box) \in Box
  BY DEF SaveMail, Box
<1>2. ItemsIn(box, Deleted(p, box)) \in SUBSET Items
  <2>1. \A k \in Deleted(p, box) : box[k].items \in SUBSET Items
    BY DEF Deleted, Box, MailEntry
  <2> QED BY <2>1 DEF ItemsIn
<1>3. \A k \in MailIds : SaveMail(p, box)[k] = IF k \in Deleted(p, box) THEN NoMail ELSE box[k]
  BY DEF SaveMail
<1>4. ASSUME NEW i, i \notin ItemsIn(box, Deleted(p, box))
      PROVE  Holders(SaveMail(p, box), i) = Holders(box, i)
  <2>1. \A k \in Deleted(p, box) : i \notin box[k].items
    BY <1>4 DEF ItemsIn
  <2> QED BY <1>3, <2>1 DEF Holders
<1>5. ASSUME NEW i, i \in ItemsIn(box, Deleted(p, box)), One(Holders(box, i))
      PROVE  Holders(SaveMail(p, box), i) = {}
  <2>1. PICK k \in Deleted(p, box) : i \in box[k].items
    BY <1>5 DEF ItemsIn
  <2>2. k \in Holders(box, i)
    BY <2>1 DEF Holders, Deleted
  <2>3. Holders(box, i) = {k}
    BY <1>5, <2>2 DEF One
  <2> QED BY <1>3, <2>1, <2>3 DEF Holders
<1> QED BY <1>1, <1>2, <1>4, <1>5

\* Relisting keeps mails and what they hold.
LEMMA RelistedMails ==
  ASSUME NEW box \in Box, NEW p, NEW s \in {"stored", "listed"}
  PROVE  /\ Relisted(p, box, s) \in Box
         /\ \A i : Holders(Relisted(p, box, s), i) = Holders(box, i)
<1>1. \A k \in MailIds : Relisted(p, box, s)[k] =
        IF box[k] # NoMail /\ box[k].receiver = p THEN [box[k] EXCEPT !.state = s] ELSE box[k]
  BY DEF Relisted
<1>2. \A k \in MailIds : box[k] # NoMail =>
        /\ [box[k] EXCEPT !.state = s] \in MailEntry
        /\ [box[k] EXCEPT !.state = s].items = box[k].items
  BY DEF Box, MailEntry
<1>3. Relisted(p, box, s) \in Box
  BY <1>1, <1>2 DEF Relisted, Box
<1>4. ASSUME NEW i
      PROVE  Holders(Relisted(p, box, s), i) = Holders(box, i)
  <2>1. \A k \in MailIds :
          /\ Relisted(p, box, s)[k] # NoMail <=> box[k] # NoMail
          /\ box[k] # NoMail => Relisted(p, box, s)[k].items = box[k].items
    BY <1>1, <1>2, Constants
  <2> QED BY <2>1 DEF Holders
<1> QED BY <1>3, <1>4

-----------------------------------------------------------------------------
(* Types.                                                                  *)

\* An auction of the house is an entry.
LEMMA EntryType ==
  ASSUME TypeOK, NEW a \in Running
  PROVE  a \in AuctionIds /\ auctions[a] \in AuctionEntry
BY DEF TypeOK, Running

\* Ending an auction keeps the others.
LEMMA EndedType ==
  ASSUME TypeInv, NEW a \in Running, Ended(a)
  PROVE  /\ auctions' \in [AuctionIds -> AuctionEntry \cup {NoAuction}]
         /\ BidsBelowBuyout'
BY DEF TypeInv, TypeOK, BidsBelowBuyout, Ended, Running

\* Paying and sending are typed, which leaves the auctions.
LEMMA BidTypes ==
  ASSUME TypeInv, NEW p \in Players, NEW a \in Running, NEW price \in 1..MaxOffer,
         HandleAuctionPlaceBid(p, a, price)
  PROVE  TypeInv'
<1> DEFINE e == auctions[a]
<1>1. /\ a \in AuctionIds /\ e \in AuctionEntry /\ mails \in Box
      /\ price \in Nat /\ e.bid \in Nat /\ e.buyout \in Nat
      /\ money[p] \in 0..MaxMoney
  BY EntryType, Constants DEF TypeInv, TypeOK, Box, AuctionEntry
<1>2. e.buyout = 0 \/ e.bid < e.buyout
  BY DEF TypeInv, BidsBelowBuyout
<1> HIDE DEF e
<1>3. CASE PlaceBid(p, a, price)
  <2>1. /\ price > e.bid /\ price <= money[p] /\ BidBelowBuyout(e, price)
        /\ IF e.bidder = p
           THEN Pay(p, price - e.bid) /\ UNCHANGED mails
           ELSE Pay(p, price) /\ SendMailTo(mails, OutbiddedMails(e))
        /\ auctions' = [auctions EXCEPT ![a].bidder = p, ![a].bid = price]
        /\ UNCHANGED <<online, bag, sunk, gone>>
    BY <1>3 DEF PlaceBid, BidAccepted, e
  <2>2. money' \in [Players -> 0..MaxMoney]
    <3>1. price - e.bid \in Nat /\ price - e.bid <= money[p]
      BY <1>1, <2>1
    <3> QED BY <1>1, <2>1, <3>1, PayType DEF TypeInv
  <2>3. mails' \in Box
    <3>1. OutbiddedMails(e) \in SUBSET MailEntry
      BY <1>1, AuctionMails
    <3> QED BY <1>1, <2>1, <3>1, Mailed
  <2>4. /\ auctions' \in [AuctionIds -> AuctionEntry \cup {NoAuction}]
        /\ BidsBelowBuyout'
    <3> DEFINE f == [e EXCEPT !.bidder = p, !.bid = price]
    <3>1. /\ f \in AuctionEntry
          /\ f.buyout = 0 \/ f.bid < f.buyout
      BY <1>1, <2>1 DEF AuctionEntry, BidBelowBuyout
    <3>2. auctions' = [auctions EXCEPT ![a] = f]
      BY <2>1, <1>1 DEF TypeInv, TypeOK, e
    <3> HIDE DEF f
    <3>3. auctions' \in [AuctionIds -> AuctionEntry \cup {NoAuction}]
      BY <3>1, <3>2 DEF TypeInv, TypeOK
    <3>4. \A b \in AuctionIds : auctions'[b] = IF b = a THEN f ELSE auctions[b]
      BY <3>2 DEF TypeInv, TypeOK
    <3>5. BidsBelowBuyout'
      BY <3>1, <3>4 DEF TypeInv, BidsBelowBuyout, Running
    <3> QED BY <3>3, <3>5
  <2> QED BY <2>1, <2>2, <2>3, <2>4 DEF TypeInv, TypeOK, Box
<1>4. CASE Buyout(p, a, price)
  <2> DEFINE won == [e EXCEPT !.bidder = p, !.bid = e.buyout]
  <2>1. /\ price > e.bid /\ price <= money[p] /\ ~BidBelowBuyout(e, price)
        /\ Pay(p, IF e.bidder = p THEN e.buyout - e.bid ELSE e.buyout)
        /\ SendMailTo(mails, {SuccessfulMail(won), WonMail(won)} \cup
                             IF e.bidder = p THEN {} ELSE OutbiddedMails(e))
        /\ Ended(a)
        /\ UNCHANGED <<online, bag, gone>>
    BY <1>4 DEF Buyout, BidAccepted, e
  <2>2. won \in AuctionEntry /\ won.bidder # NoPlayer
    BY <1>1, Constants DEF AuctionEntry
  <2> HIDE DEF won
  <2>3. money' \in [Players -> 0..MaxMoney]
    <3>1. /\ e.buyout <= money[p]
          /\ e.buyout - e.bid \in Nat /\ e.buyout - e.bid <= money[p]
      BY <1>1, <1>2, <2>1 DEF BidBelowBuyout
    <3>2. CASE e.bidder = p
      BY <1>1, <2>1, <3>1, <3>2, PayType DEF TypeInv
    <3>3. CASE e.bidder # p
      BY <1>1, <2>1, <3>1, <3>3, PayType DEF TypeInv
    <3> QED BY <3>2, <3>3
  <2>4. mails' \in Box
    <3>1. OutbiddedMails(e) \in SUBSET MailEntry /\ {SuccessfulMail(won), WonMail(won)} \in SUBSET MailEntry
      BY <1>1, <2>2, AuctionMails
    <3>2. {SuccessfulMail(won), WonMail(won)} \cup
            (IF e.bidder = p THEN {} ELSE OutbiddedMails(e)) \in SUBSET MailEntry
      BY <3>1
    <3> QED BY <1>1, <2>1, <3>2, Mailed
  <2> QED BY <2>1, <2>3, <2>4, EndedType DEF TypeInv, TypeOK, Box
<1> QED BY <1>3, <1>4 DEF HandleAuctionPlaceBid

\* The other handlers of the auction house, and the end of an auction.
LEMMA AuctionTypes ==
  ASSUME TypeInv,
         \/ \E p \in Players :
              \/ \E i \in Items, s \in 1..MaxOffer, b \in 0..MaxOffer :
                   HandleAuctionSellItem(p, i, s, b)
              \/ \E a \in AuctionIds : HandleAuctionRemoveItem(p, a)
         \/ \E a \in AuctionIds : AuctionDue(a) \/ Update(a)
  PROVE  TypeInv'
<1>1. ASSUME NEW p \in Players, NEW i \in Items, NEW s \in 1..MaxOffer,
             NEW b \in 0..MaxOffer, HandleAuctionSellItem(p, i, s, b)
      PROVE  TypeInv'
  <2> DEFINE f == [owner |-> p, item |-> i, startbid |-> s, buyout |-> b,
                   bidder |-> NoPlayer, bid |-> 0, due |-> FALSE]
  <2>1. f \in AuctionEntry /\ (f.buyout = 0 \/ f.bid < f.buyout)
    BY Constants DEF AuctionEntry
  <2>2. PICK a \in AuctionIds \ Running : auctions' = [auctions EXCEPT ![a] = f]
    BY <1>1 DEF HandleAuctionSellItem
  <2> HIDE DEF f
  <2>3. money' \in [Players -> 0..MaxMoney]
    BY <1>1, Constants, PayType DEF HandleAuctionSellItem, TypeInv, TypeOK
  <2>4. auctions' \in [AuctionIds -> AuctionEntry \cup {NoAuction}] /\ BidsBelowBuyout'
    BY <2>1, <2>2 DEF TypeInv, TypeOK, BidsBelowBuyout, Running
  <2> QED BY <1>1, <2>3, <2>4 DEF HandleAuctionSellItem, TypeInv, TypeOK
<1>2. ASSUME NEW p \in Players, NEW a \in AuctionIds, HandleAuctionRemoveItem(p, a)
      PROVE  TypeInv'
  <2> DEFINE e == auctions[a]
             cut == IF e.bidder = NoPlayer THEN 0 ELSE GetAuctionCut(e.bid)
  <2>1. a \in Running /\ e \in AuctionEntry /\ mails \in Box
    BY <1>2, EntryType DEF HandleAuctionRemoveItem, TypeInv, TypeOK, Box
  <2>2. cut \in Nat
    <3>1. e.bid \in Nat
      BY <2>1 DEF AuctionEntry
    <3>2. GetAuctionCut(e.bid) \in Nat
      BY <3>1, CutOfBid
    <3> QED BY <3>2
  <2>3. /\ cut <= money[p] /\ Pay(p, cut) /\ Ended(a)
        /\ SendMailTo(mails, OutbiddedMails(e) \cup {ExpiredMail(e)})
        /\ UNCHANGED <<online, bag, gone>>
    <3>1. money[p] >= cut
      BY <1>2 DEF HandleAuctionRemoveItem
    <3>2. money[p] \in Nat
      BY Constants DEF TypeInv, TypeOK
    <3>3. cut <= money[p]
      BY <2>2, <3>1, <3>2
    <3> QED BY <1>2, <3>3 DEF HandleAuctionRemoveItem
  <2> HIDE DEF e, cut
  <2>4. money' \in [Players -> 0..MaxMoney]
    BY <2>2, <2>3, PayType DEF TypeInv
  <2>5. mails' \in Box
    <3>1. OutbiddedMails(e) \cup {ExpiredMail(e)} \in SUBSET MailEntry
      BY <2>1, AuctionMails
    <3> QED BY <2>1, <2>3, <3>1, Mailed
  <2> QED BY <2>1, <2>3, <2>4, <2>5, EndedType DEF TypeInv, TypeOK, Box
<1>3. ASSUME NEW a \in AuctionIds, AuctionDue(a)
      PROVE  TypeInv'
  <2> DEFINE f == [auctions[a] EXCEPT !.due = TRUE]
  <2>1. auctions[a] \in AuctionEntry /\ a \in Running
    BY <1>3, EntryType DEF AuctionDue, TypeInv
  <2>2. f \in AuctionEntry /\ f.buyout = auctions[a].buyout /\ f.bid = auctions[a].bid
    BY <2>1 DEF AuctionEntry
  <2>3. auctions' = [auctions EXCEPT ![a] = f]
    BY <1>3 DEF AuctionDue, TypeInv, TypeOK
  <2> HIDE DEF f
  <2>4. auctions' \in [AuctionIds -> AuctionEntry \cup {NoAuction}] /\ BidsBelowBuyout'
    BY <2>1, <2>2, <2>3 DEF TypeInv, TypeOK, BidsBelowBuyout, Running
  <2> QED BY <1>3, <2>4 DEF AuctionDue, TypeInv, TypeOK
<1>4. ASSUME NEW a \in AuctionIds, Update(a)
      PROVE  TypeInv'
  <2> DEFINE e == auctions[a]
  <2>1. a \in Running /\ e \in AuctionEntry /\ mails \in Box
    BY <1>4, EntryType DEF Update, TypeInv, TypeOK, Box
  <2>2. /\ Ended(a) /\ UNCHANGED <<online, money, bag, gone>>
        /\ IF e.bidder = NoPlayer
           THEN SendMailTo(mails, {ExpiredMail(e)})
           ELSE SendMailTo(mails, {SuccessfulMail(e), WonMail(e)})
    BY <1>4 DEF Update
  <2> HIDE DEF e
  <2>3. mails' \in Box
    <3>1. CASE e.bidder = NoPlayer
      <4>1. {ExpiredMail(e)} \in SUBSET MailEntry
        BY <2>1, AuctionMails
      <4> QED BY <2>1, <2>2, <3>1, <4>1, Mailed
    <3>2. CASE e.bidder # NoPlayer
      <4>1. {SuccessfulMail(e), WonMail(e)} \in SUBSET MailEntry
        BY <2>1, <3>2, AuctionMails
      <4> QED BY <2>1, <2>2, <3>2, <4>1, Mailed
    <3> QED BY <3>1, <3>2
  <2> QED BY <2>1, <2>2, <2>3, EndedType DEF TypeInv, TypeOK, Box
<1> QED BY <1>1, <1>2, <1>3, <1>4

\* With one mail m instead of the one in k, a box stays one.
LEMMA BoxWith ==
  ASSUME NEW box \in Box, NEW k \in MailIds, NEW m \in MailEntry \cup {NoMail}
  PROVE  [box EXCEPT ![k] = m] \in Box
BY DEF Box

\* What a player may act on is a mail of his that is not stored.
LEMMA HasMailType ==
  ASSUME TypeOK, NEW p, NEW k, HasMail(p, k)
  PROVE  k \in MailIds /\ mails[k] \in MailEntry /\ mails[k] # NoMail /\ mails \in Box
BY DEF TypeOK, HasMail, Sent, Box

\* The handlers of mails.
LEMMA MailTypes ==
  ASSUME TypeInv, NEW p \in Players,
         \/ \E r \in Players, items \in SUBSET Items, m, c \in 0..MaxOffer :
              HandleSendMail(p, r, items, m, c)
         \/ \E k \in MailIds :
              \/ HandleMailMarkAsRead(p, k)
              \/ HandleMailDelete(p, k)
              \/ HandleMailReturnToSender(p, k)
              \/ \E i \in Items : HandleMailTakeItem(p, k, i)
              \/ HandleMailTakeMoney(p, k)
  PROVE  TypeInv'
<1> /\ MaxOffer \in Nat /\ MaxMoney \in Nat /\ mails \in Box
    /\ money[p] \in 0..MaxMoney /\ bag[p] \in SUBSET Items
  BY Constants DEF TypeInv, TypeOK, Box
<1>1. ASSUME NEW r \in Players, NEW items \in SUBSET Items,
             NEW m \in 0..MaxOffer, NEW c \in 0..MaxOffer,
             HandleSendMail(p, r, items, m, c)
      PROVE  TypeInv'
  <2> DEFINE d == PlayerMail(p, r, items, m, c, Undelayed(p, r, items), FALSE)
             price == Cost(items) + m
  <2>1. d \in MailEntry
    <3>1. m \in Nat /\ c \in Nat /\ Undelayed(p, r, items) \in BOOLEAN
      BY UndelayedType
    <3> QED BY <3>1, PlayerMailType
  <2>2. price \in Nat
    BY CostType
  <2>3. /\ money[p] >= price /\ Pay(p, price)
        /\ bag' = [bag EXCEPT ![p] = @ \ items]
        /\ SendMailTo(mails, {d})
        /\ UNCHANGED <<online, auctions, gone>>
    BY <1>1 DEF HandleSendMail
  <2> HIDE DEF d, price
  <2>4. money' \in [Players -> 0..MaxMoney]
    <3>1. price <= money[p]
      BY <2>2, <2>3
    <3> QED BY <2>2, <2>3, <3>1, PayType DEF TypeInv
  <2>5. mails' \in Box
    BY <2>1, <2>3, Mailed
  <2>6. bag' \in [Players -> SUBSET Items]
    BY <2>3 DEF TypeInv, TypeOK
  <2> QED BY <2>3, <2>4, <2>5, <2>6 DEF TypeInv, TypeOK, Box, BidsBelowBuyout, Running
<1>2. ASSUME NEW k \in MailIds, HandleMailMarkAsRead(p, k) \/ HandleMailDelete(p, k)
      PROVE  TypeInv'
  <2>1. HasMail(p, k) /\ mails[k] \in MailEntry
    BY <1>2, HasMailType DEF HandleMailMarkAsRead, HandleMailDelete, TypeInv
  <2>2. PICK s \in {"listed", "deleted"} : mails' = [mails EXCEPT ![k].state = s]
    BY <1>2 DEF HandleMailMarkAsRead, HandleMailDelete
  <2>3. [mails[k] EXCEPT !.state = s] \in MailEntry
    BY <2>1, MailWith
  <2>4. mails' = [mails EXCEPT ![k] = [mails[k] EXCEPT !.state = s]]
    BY <2>2 DEF Box
  <2>5. mails' \in Box
    BY <2>3, <2>4, BoxWith
  <2> QED BY <1>2, <2>5
       DEF HandleMailMarkAsRead, HandleMailDelete, TypeInv, TypeOK, Box, BidsBelowBuyout, Running
<1>3. ASSUME NEW k \in MailIds, HandleMailReturnToSender(p, k)
      PROVE  TypeInv'
  <2> DEFINE m == mails[k]
             d == PlayerMail(p, m.sender, m.items, m.money, 0,
                             Undelayed(p, m.sender, m.items), TRUE)
             kept == [mails EXCEPT ![k] = NoMail]
  <2>1. m \in MailEntry
    BY <1>3, HasMailType DEF HandleMailReturnToSender, Open, TypeInv
  <2>2. m.items \in SUBSET Items /\ m.money \in Nat /\ m.sender \in Players \cup {NoPlayer}
    BY <2>1 DEF MailEntry
  <2>3. kept \in Box
    BY BoxWith
  <2>4. /\ IF m.sender # NoPlayer
           THEN SendMailTo(kept, {d}) /\ UNCHANGED gone
           ELSE mails' = kept /\ gone' = gone \cup m.items
        /\ UNCHANGED <<online, money, bag, auctions>>
    BY <1>3 DEF HandleMailReturnToSender
  <2>5. m.sender # NoPlayer => d \in MailEntry
    BY <2>2, PlayerMailType, UndelayedType
  <2> HIDE DEF m, d, kept
  <2>6. mails' \in Box
    BY <2>3, <2>4, <2>5, Mailed
  <2>7. gone' \subseteq Items
    BY <2>2, <2>4 DEF TypeInv, TypeOK
  <2> QED BY <2>4, <2>6, <2>7 DEF TypeInv, TypeOK, Box, BidsBelowBuyout, Running
<1>4. ASSUME NEW k \in MailIds, NEW item \in Items, HandleMailTakeItem(p, k, item)
      PROVE  TypeInv'
  <2> DEFINE m == mails[k]
             left == [m EXCEPT !.items = @ \ {item}, !.COD = 0]
             kept == SaveMail(p, [mails EXCEPT ![k] = left])
             d == PlayerMail(p, m.sender, {}, m.COD, 0, TRUE, FALSE)
  <2>1. m \in MailEntry
    BY <1>4, HasMailType DEF HandleMailTakeItem, Open, TypeInv
  <2>2. m.COD \in Nat /\ m.sender \in Players \cup {NoPlayer}
    BY <2>1 DEF MailEntry
  <2>3. kept \in Box
    <3>1. [mails EXCEPT ![k] = left] \in Box
      BY <2>1, MailWith, BoxWith
    <3> QED BY <3>1, SavedMails
  <2>4. [mails EXCEPT ![k].items = @ \ {item}, ![k].COD = 0] = [mails EXCEPT ![k] = left]
    BY DEF Box
  <2>5. /\ money[p] >= m.COD /\ Pay(p, m.COD)
        /\ IF m.COD > 0
           THEN SendMailTo(kept, IF m.sender = NoPlayer THEN {} ELSE {d})
           ELSE mails' = kept
        /\ bag' = [bag EXCEPT ![p] = @ \cup {item}]
        /\ gone' = gone \cup ItemsIn(mails, Deleted(p, mails))
        /\ UNCHANGED <<online, auctions>>
    BY <1>4, <2>4 DEF HandleMailTakeItem, Lost
  <2>6. m.sender # NoPlayer => d \in MailEntry
    BY <2>2, PlayerMailType
  <2> HIDE DEF m, left, kept, d
  <2>7. money' \in [Players -> 0..MaxMoney]
    BY <2>2, <2>5, PayType DEF TypeInv
  <2>8. mails' \in Box
    <3>1. (IF m.sender = NoPlayer THEN {} ELSE {d}) \in SUBSET MailEntry
      BY <2>6
    <3> QED BY <2>3, <2>5, <3>1, Mailed
  <2>9. bag' \in [Players -> SUBSET Items] /\ gone' \subseteq Items
    BY <2>5, SavedMails DEF TypeInv, TypeOK
  <2> QED BY <2>5, <2>7, <2>8, <2>9 DEF TypeInv, TypeOK, Box, BidsBelowBuyout, Running
<1>5. ASSUME NEW k \in MailIds, HandleMailTakeMoney(p, k)
      PROVE  TypeInv'
  <2> DEFINE left == [mails[k] EXCEPT !.money = 0]
  <2>1. mails[k] \in MailEntry /\ mails[k].money \in Nat
    BY <1>5, HasMailType DEF HandleMailTakeMoney, Open, TypeInv, MailEntry
  <2>2. /\ money' = [money EXCEPT ![p] = More(money[p], mails[k].money)]
        /\ mails' = SaveMail(p, [mails EXCEPT ![k].money = 0])
        /\ gone' = gone \cup ItemsIn(mails, Deleted(p, mails))
        /\ UNCHANGED <<online, bag, auctions>>
    BY <1>5 DEF HandleMailTakeMoney
  <2>3. [mails EXCEPT ![k].money = 0] = [mails EXCEPT ![k] = left]
    BY DEF Box
  <2>4. mails' \in Box
    <3>1. [mails EXCEPT ![k] = left] \in Box
      BY <2>1, MailWith, BoxWith
    <3> QED BY <2>2, <2>3, <3>1, SavedMails
  <2>5. money' \in [Players -> 0..MaxMoney]
    BY <2>1, <2>2, MoreType DEF TypeInv, TypeOK
  <2>6. gone' \subseteq Items
    BY <2>2, SavedMails DEF TypeInv, TypeOK
  <2> QED BY <2>2, <2>4, <2>5, <2>6 DEF TypeInv, TypeOK, Box, BidsBelowBuyout, Running
<1> QED BY <1>1, <1>2, <1>3, <1>4, <1>5

\* What happens to the mails and the players by themselves.
LEMMA WorldTypes ==
  ASSUME TypeInv,
         \/ \E p \in Players : SavePlayer(p) \/ LogIn(p) \/ LogOut(p)
         \/ \E k \in MailIds : MailDelivered(k) \/ MailExpires(k)
  PROVE  TypeInv'
<1> mails \in Box
  BY DEF TypeInv, TypeOK, Box
<1>1. ASSUME NEW p \in Players, SavePlayer(p) \/ LogIn(p) \/ LogOut(p)
      PROVE  TypeInv'
  <2>1. mails' \in Box
    <3>1. SaveMail(p, mails) \in Box
      BY SavedMails
    <3> QED BY <1>1, <3>1, RelistedMails DEF SavePlayer, LogIn, LogOut
  <2>2. gone' \subseteq Items /\ online' \subseteq Players
    BY <1>1, SavedMails DEF SavePlayer, LogIn, LogOut, Lost, TypeInv, TypeOK
  <2> QED BY <1>1, <2>1, <2>2
       DEF SavePlayer, LogIn, LogOut, Lost, TypeInv, TypeOK, Box, BidsBelowBuyout, Running
<1>2. ASSUME NEW k \in MailIds, MailDelivered(k)
      PROVE  TypeInv'
  <2>1. mails[k] \in MailEntry
    BY <1>2 DEF MailDelivered, Sent, Box
  <2>2. mails' = [mails EXCEPT ![k] = [mails[k] EXCEPT !.delivered = TRUE]]
    BY <1>2 DEF MailDelivered, Box
  <2>3. mails' \in Box
    BY <2>1, <2>2, MailWith, BoxWith
  <2> QED BY <1>2, <2>3 DEF MailDelivered, TypeInv, TypeOK, Box, BidsBelowBuyout, Running
<1>3. ASSUME NEW k \in MailIds, MailExpires(k)
      PROVE  TypeInv'
  <2> DEFINE m == mails[k]
             back == [m EXCEPT !.sender = m.receiver, !.receiver = m.sender, !.COD = 0,
                               !.returned = TRUE, !.state = "stored"]
  <2>1. m \in MailEntry /\ m.items \in SUBSET Items
    BY <1>3 DEF MailExpires, Sent, Box, MailEntry
  <2>2. Returnable(m) => back \in MailEntry
    BY <2>1, MailWith DEF Returnable
  <2>3. /\ IF Returnable(m)
           THEN mails' = [mails EXCEPT ![k] = back] /\ UNCHANGED gone
           ELSE mails' = [mails EXCEPT ![k] = NoMail] /\ gone' = gone \cup m.items
        /\ UNCHANGED <<online, money, bag, auctions>>
    BY <1>3 DEF MailExpires
  <2> HIDE DEF m, back
  <2>4. mails' \in Box
    BY <2>2, <2>3, BoxWith
  <2>5. gone' \subseteq Items
    BY <2>1, <2>3 DEF TypeInv, TypeOK
  <2> QED BY <2>3, <2>4, <2>5 DEF TypeInv, TypeOK, Box, BidsBelowBuyout, Running
<1> QED BY <1>1, <1>2, <1>3

\* Types, and bids below the buyouts, hold at first.
LEMMA TypeInit ==
  ASSUME Init
  PROVE  TypeInv
<1>1. bag \in [Players -> SUBSET Items]
  BY DEF Init
<1> QED BY <1>1 DEF Init, TypeInv, TypeOK, BidsBelowBuyout, Running

\* Every step keeps them.
LEMMA TypeStep ==
  ASSUME TypeInv, [Next]_vars
  PROVE  TypeInv'
<1>1. CASE UNCHANGED vars
  BY <1>1 DEF vars, TypeInv, TypeOK, BidsBelowBuyout, Running
<1>2. ASSUME NEW p \in Players, ActOf(p)
      PROVE  TypeInv'
  <2>1. ASSUME NEW a \in AuctionIds, NEW price \in 1..MaxOffer, HandleAuctionPlaceBid(p, a, price)
        PROVE  TypeInv'
    <3>1. a \in Running
      BY <2>1 DEF HandleAuctionPlaceBid, PlaceBid, Buyout
    <3> QED BY <2>1, <3>1, BidTypes
  <2> QED BY <1>2, <2>1, AuctionTypes, MailTypes DEF ActOf
<1> QED BY <1>1, <1>2, AuctionTypes, WorldTypes DEF Next

\* Every variable keeps its type, purses within the limit included.
THEOREM TypeCorrect == Spec => []TypeOK
<1>1. Init => TypeInv
  BY TypeInit
<1>2. TypeInv /\ [Next]_vars => TypeInv'
  BY TypeStep
<1>3. TypeInv => TypeOK
  BY DEF TypeInv
<1> QED BY <1>1, <1>2, <1>3, PTL DEF Spec

-----------------------------------------------------------------------------
(* Where items are.                                                        *)

\* The mails of an item, before and after a step.
LEMMA InMailHolders ==
  ASSUME NEW i
  PROVE  InMail(i) = Holders(mails, i) /\ InMail(i)' = Holders(mails', i)
BY DEF InMail, Holders, Sent

\* An item that is where it was is in one place.
LEMMA Unmoved ==
  ASSUME NEW i, OncePlaced(i), InBag(i)' = InBag(i), InAuction(i)' = InAuction(i),
         Holders(mails', i) = Holders(mails, i), i \in gone' <=> i \in gone
  PROVE  OncePlaced(i)'
<1>1. InMail(i)' = InMail(i)
  BY InMailHolders
<1> QED BY <1>1 DEF OncePlaced

\* An item of a bag, an auction or a mail is nowhere else.
LEMMA InBagOnly ==
  ASSUME NEW i, OncePlaced(i), NEW p \in InBag(i)
  PROVE  InBag(i) = {p} /\ InAuction(i) = {} /\ Holders(mails, i) = {} /\ i \notin gone
BY InMailHolders DEF OncePlaced, One

\* See InBagOnly.
LEMMA InAuctionOnly ==
  ASSUME NEW i, OncePlaced(i), NEW a \in InAuction(i)
  PROVE  InBag(i) = {} /\ InAuction(i) = {a} /\ Holders(mails, i) = {} /\ i \notin gone
BY InMailHolders DEF OncePlaced, One

\* See InBagOnly.
LEMMA InMailOnly ==
  ASSUME NEW i, OncePlaced(i), NEW k \in Holders(mails, i)
  PROVE  InBag(i) = {} /\ InAuction(i) = {} /\ Holders(mails, i) = {k} /\ i \notin gone
BY InMailHolders DEF OncePlaced, One

\* An item that has come into one bag, one mail or to its end is in one place.
LEMMA Moved ==
  ASSUME NEW i,
         \/ /\ One(InBag(i)') /\ InAuction(i)' = {} /\ Holders(mails', i) = {} /\ i \notin gone'
         \/ /\ InBag(i)' = {} /\ One(InAuction(i)') /\ Holders(mails', i) = {} /\ i \notin gone'
         \/ /\ InBag(i)' = {} /\ InAuction(i)' = {} /\ One(Holders(mails', i)) /\ i \notin gone'
         \/ /\ InBag(i)' = {} /\ InAuction(i)' = {} /\ Holders(mails', i) = {} /\ i \in gone'
  PROVE  OncePlaced(i)'
<1>1. InMail(i)' = Holders(mails', i)
  BY InMailHolders
<1>2. One(InBag(i)') <=> One(InBag(i))'
  BY DEF One
<1>3. One(InAuction(i)') <=> One(InAuction(i))'
  BY DEF One
<1>4. One(Holders(mails', i)) <=> One(InMail(i))'
  BY <1>1 DEF One
<1> QED BY <1>1, <1>2, <1>3, <1>4 DEF OncePlaced

\* When an auction ends, its item is in the one mail that holds it.
LEMMA AuctionEnds ==
  ASSUME IInv, NEW a \in Running, Ended(a), UNCHANGED <<bag, gone>>,
         NEW drafts \in SUBSET MailEntry, SendMailTo(mails, drafts),
         NEW d \in drafts, d.items = {auctions[a].item},
         \A c \in drafts : c # d => c.items = {}
  PROVE  EachItemOnce'
<1> DEFINE item == auctions[a].item
<1>1. /\ a \in AuctionIds /\ mails \in Box
      /\ auctions' = [auctions EXCEPT ![a] = NoAuction]
      /\ auctions \in [AuctionIds -> AuctionEntry \cup {NoAuction}]
  BY DEF IInv, TypeInv, TypeOK, Box, Ended, Running
<1>2. \A i : InBag(i)' = InBag(i)
  BY DEF InBag
<1>3. \A i : InAuction(i)' = InAuction(i) \ {a}
  BY <1>1 DEF InAuction, Running
<1>4. ASSUME NEW i \in Items, i # item
      PROVE  OncePlaced(i)'
  <2>1. \A c \in drafts : i \notin c.items
    BY <1>4
  <2>2. Holders(mails', i) = Holders(mails, i)
    BY <1>1, <2>1, Mailed
  <2>3. InAuction(i)' = InAuction(i)
    BY <1>3, <1>4 DEF InAuction
  <2> QED BY <1>2, <2>2, <2>3, Unmoved DEF IInv, EachItemOnce
<1>5. ASSUME NEW i \in Items, i = item
      PROVE  OncePlaced(i)'
  <2>1. a \in InAuction(i) /\ OncePlaced(i) /\ d.items = {i}
    BY <1>5 DEF InAuction, IInv, EachItemOnce
  <2>2. InBag(i) = {} /\ InAuction(i) = {a} /\ Holders(mails, i) = {} /\ i \notin gone
    BY <2>1, InAuctionOnly
  <2>3. i \in d.items /\ \A c, b \in drafts : i \in c.items /\ i \in b.items => b = c
    BY <2>1
  <2>4. One(Holders(mails', i))
    BY <1>1, <2>2, <2>3, Mailed
  <2>5. InBag(i)' = {} /\ InAuction(i)' = {}
    BY <1>2, <1>3, <2>2
  <2> QED BY <2>2, <2>4, <2>5, Moved
<1> QED BY <1>4, <1>5 DEF EachItemOnce

\* Mails that change and hold what they held leave every item where it is.
LEMMA SameMails ==
  ASSUME EachItemOnce, UNCHANGED <<bag, auctions, gone>>,
         \A i : Holders(mails', i) = Holders(mails, i)
  PROVE  EachItemOnce'
<1>1. \A i : InBag(i)' = InBag(i) /\ InAuction(i)' = InAuction(i)
  BY DEF InBag, InAuction, Running
<1> QED BY <1>1, Unmoved DEF EachItemOnce

\* Saving a player takes the items of his deleted mails out of the game and
\* leaves the others.
LEMMA SavedItems ==
  ASSUME IInv, NEW p \in Players, UNCHANGED <<bag, auctions>>,
         gone' = gone \cup ItemsIn(mails, Deleted(p, mails)),
         \A i : Holders(mails', i) = Holders(SaveMail(p, mails), i)
  PROVE  EachItemOnce'
<1> DEFINE lost == ItemsIn(mails, Deleted(p, mails))
<1> mails \in Box
  BY DEF IInv, TypeInv, TypeOK, Box
<1>1. \A i : InBag(i)' = InBag(i) /\ InAuction(i)' = InAuction(i)
  BY DEF InBag, InAuction, Running
<1>2. ASSUME NEW i \in Items, i \notin lost
      PROVE  OncePlaced(i)'
  <2>1. Holders(mails', i) = Holders(mails, i)
    BY <1>2, SavedMails
  <2> QED BY <1>1, <1>2, <2>1, Unmoved DEF IInv, EachItemOnce
<1>3. ASSUME NEW i \in Items, i \in lost
      PROVE  OncePlaced(i)'
  <2>1. PICK k \in Holders(mails, i) : TRUE
    BY <1>3 DEF ItemsIn, Deleted, Holders
  <2>2. InBag(i) = {} /\ InAuction(i) = {} /\ Holders(mails, i) = {k}
    BY InMailOnly DEF IInv, EachItemOnce
  <2>3. One(Holders(mails, i))
    BY <2>2 DEF One
  <2>4. Holders(mails', i) = {}
    BY <1>3, <2>3, SavedMails
  <2>5. InBag(i)' = {} /\ InAuction(i)' = {} /\ i \in gone'
    BY <1>1, <1>3, <2>2
  <2> QED BY <2>4, <2>5, Moved
<1> QED BY <1>2, <1>3 DEF EachItemOnce

\* Auctions that change and keep their items leave every item where it is.
LEMMA SameAuctions ==
  ASSUME EachItemOnce, UNCHANGED <<bag, gone>>,
         NEW a \in Running, NEW e \in AuctionEntry, e.item = auctions[a].item,
         auctions \in [AuctionIds -> AuctionEntry \cup {NoAuction}],
         auctions' = [auctions EXCEPT ![a] = e],
         \A i : Holders(mails', i) = Holders(mails, i)
  PROVE  EachItemOnce'
<1>1. \A b \in AuctionIds : auctions'[b] = IF b = a THEN e ELSE auctions[b]
  OBVIOUS
<1>2. \A i : InBag(i)' = InBag(i)
  BY DEF InBag
<1>3. \A i : InAuction(i)' = InAuction(i)
  BY <1>1, Constants DEF InAuction, Running
<1> QED BY <1>2, <1>3, Unmoved DEF EachItemOnce

\* Whoever is the highest bidder, the item stays in the auction, or goes to the
\* winner by mail.
LEMMA BidItems ==
  ASSUME IInv, NEW p \in Players, NEW a \in Running, NEW price \in 1..MaxOffer,
         HandleAuctionPlaceBid(p, a, price)
  PROVE  EachItemOnce'
<1> DEFINE e == auctions[a]
<1>1. /\ a \in AuctionIds /\ e \in AuctionEntry /\ mails \in Box /\ price \in Nat
      /\ auctions \in [AuctionIds -> AuctionEntry \cup {NoAuction}]
      /\ EachItemOnce
  BY EntryType, Constants DEF IInv, TypeInv, TypeOK, Box
<1>2. \A d \in OutbiddedMails(e) : d \in MailEntry /\ d.items = {}
  BY <1>1, AuctionMails
<1>3. CASE PlaceBid(p, a, price)
  <2> DEFINE f == [e EXCEPT !.bidder = p, !.bid = price]
  <2>1. f \in AuctionEntry /\ f.item = e.item
    BY <1>1 DEF AuctionEntry
  <2>2. auctions' = [auctions EXCEPT ![a] = f] /\ UNCHANGED <<bag, gone>>
    BY <1>1, <1>3 DEF PlaceBid
  <2>3. UNCHANGED mails \/ SendMailTo(mails, OutbiddedMails(e))
    BY <1>3 DEF PlaceBid
  <2> HIDE DEF e, f
  <2>4. \A i : Holders(mails', i) = Holders(mails, i)
    <3>1. CASE UNCHANGED mails
      BY <3>1
    <3>2. CASE SendMailTo(mails, OutbiddedMails(e))
      <4>1. OutbiddedMails(e) \in SUBSET MailEntry /\ \A i : \A d \in OutbiddedMails(e) : i \notin d.items
        BY <1>2
      <4> QED BY <1>1, <3>2, <4>1, Mailed
    <3> QED BY <2>3, <3>1, <3>2
  <2> QED BY <1>1, <2>1, <2>2, <2>4, SameAuctions DEF e
<1>4. CASE Buyout(p, a, price)
  <2> DEFINE won == [e EXCEPT !.bidder = p, !.bid = e.buyout]
             drafts == {SuccessfulMail(won), WonMail(won)} \cup
                       IF e.bidder = p THEN {} ELSE OutbiddedMails(e)
  <2>1. SendMailTo(mails, drafts) /\ Ended(a) /\ UNCHANGED <<bag, gone>>
    BY <1>4 DEF Buyout
  <2>2. won \in AuctionEntry /\ won.bidder # NoPlayer /\ won.item = e.item
    BY <1>1, Constants DEF AuctionEntry
  <2> HIDE DEF won
  <2>3. /\ SuccessfulMail(won) \in MailEntry /\ SuccessfulMail(won).items = {}
        /\ WonMail(won) \in MailEntry /\ WonMail(won).items = {e.item}
    BY <2>2, AuctionMails
  <2>4. /\ drafts \in SUBSET MailEntry /\ WonMail(won) \in drafts
        /\ \A c \in drafts : c # WonMail(won) => c.items = {}
    BY <1>2, <2>3
  <2> HIDE DEF drafts
  <2> QED BY <2>1, <2>3, <2>4, AuctionEnds
<1> QED BY <1>3, <1>4 DEF HandleAuctionPlaceBid

\* Into an auction, and out of it by mail.
LEMMA AuctionItems ==
  ASSUME IInv,
         \/ \E p \in Players :
              \/ \E i \in Items, s \in 1..MaxOffer, b \in 0..MaxOffer :
                   HandleAuctionSellItem(p, i, s, b)
              \/ \E a \in AuctionIds : HandleAuctionRemoveItem(p, a)
         \/ \E a \in AuctionIds : AuctionDue(a) \/ Update(a)
  PROVE  EachItemOnce'
<1>1. ASSUME NEW p \in Players, NEW item \in Items, NEW s \in 1..MaxOffer,
             NEW b \in 0..MaxOffer, HandleAuctionSellItem(p, item, s, b)
      PROVE  EachItemOnce'
  <2> DEFINE f == [owner |-> p, item |-> item, startbid |-> s, buyout |-> b,
                   bidder |-> NoPlayer, bid |-> 0, due |-> FALSE]
  <2>1. /\ item \in bag[p] /\ UNCHANGED <<mails, gone>>
        /\ bag' = [bag EXCEPT ![p] = @ \ {item}]
        /\ bag \in [Players -> SUBSET Items]
        /\ auctions \in [AuctionIds -> AuctionEntry \cup {NoAuction}]
    BY <1>1 DEF HandleAuctionSellItem, IInv, TypeInv, TypeOK
  <2>2. PICK a \in AuctionIds \ Running : auctions' = [auctions EXCEPT ![a] = f]
    BY <1>1 DEF HandleAuctionSellItem
  <2>3. f \in AuctionEntry /\ f.item = item
    BY Constants DEF AuctionEntry
  <2> HIDE DEF f
  <2>4. \A c \in AuctionIds : auctions'[c] = IF c = a THEN f ELSE auctions[c]
    BY <2>1, <2>2
  <2>5. \A i : InAuction(i)' = IF i = item THEN InAuction(i) \cup {a} ELSE InAuction(i)
    BY <2>2, <2>3, <2>4, Constants DEF InAuction, Running
  <2>6. \A i : InBag(i)' = IF i = item THEN InBag(i) \ {p} ELSE InBag(i)
    BY <2>1 DEF InBag
  <2>7. ASSUME NEW i \in Items, i # item
        PROVE  OncePlaced(i)'
    BY <2>1, <2>5, <2>6, <2>7, Unmoved DEF IInv, EachItemOnce
  <2>8. ASSUME NEW i \in Items, i = item
        PROVE  OncePlaced(i)'
    <3>1. p \in InBag(i) /\ OncePlaced(i)
      BY <2>1, <2>8 DEF InBag, IInv, EachItemOnce
    <3>2. InBag(i) = {p} /\ InAuction(i) = {} /\ Holders(mails, i) = {} /\ i \notin gone
      BY <3>1, InBagOnly
    <3>3. InBag(i)' = {} /\ InAuction(i)' = {a}
      BY <2>5, <2>6, <2>8, <3>2
    <3>4. One(InAuction(i)') /\ Holders(mails', i) = {} /\ i \notin gone'
      BY <2>1, <3>2, <3>3 DEF One
    <3> QED BY <3>3, <3>4, Moved
  <2> QED BY <2>7, <2>8 DEF EachItemOnce
<1>2. ASSUME NEW p \in Players, NEW a \in AuctionIds, HandleAuctionRemoveItem(p, a)
      PROVE  EachItemOnce'
  <2> DEFINE e == auctions[a]
             drafts == OutbiddedMails(e) \cup {ExpiredMail(e)}
  <2>1. /\ a \in Running /\ Ended(a) /\ SendMailTo(mails, drafts) /\ UNCHANGED <<bag, gone>>
    BY <1>2 DEF HandleAuctionRemoveItem
  <2>2. e \in AuctionEntry
    BY <2>1, EntryType DEF IInv, TypeInv
  <2>3. /\ drafts \in SUBSET MailEntry /\ ExpiredMail(e) \in drafts
        /\ ExpiredMail(e).items = {e.item}
        /\ \A c \in drafts : c # ExpiredMail(e) => c.items = {}
    BY <2>2, AuctionMails
  <2> HIDE DEF drafts
  <2> QED BY <2>1, <2>3, AuctionEnds
<1>3. ASSUME NEW a \in AuctionIds, AuctionDue(a)
      PROVE  EachItemOnce'
  <2> DEFINE f == [auctions[a] EXCEPT !.due = TRUE]
  <2>1. auctions[a] \in AuctionEntry /\ a \in Running
    BY <1>3, EntryType DEF AuctionDue, IInv, TypeInv
  <2>2. f \in AuctionEntry /\ f.item = auctions[a].item
    BY <2>1 DEF AuctionEntry
  <2>3. /\ auctions \in [AuctionIds -> AuctionEntry \cup {NoAuction}]
        /\ auctions' = [auctions EXCEPT ![a] = f] /\ UNCHANGED <<bag, mails, gone>>
    BY <1>3 DEF AuctionDue, IInv, TypeInv, TypeOK
  <2> HIDE DEF f
  <2> QED BY <2>1, <2>2, <2>3, SameAuctions DEF IInv
<1>4. ASSUME NEW a \in AuctionIds, Update(a)
      PROVE  EachItemOnce'
  <2> DEFINE e == auctions[a]
  <2>1. /\ a \in Running /\ Ended(a) /\ UNCHANGED <<bag, gone>>
        /\ IF e.bidder = NoPlayer
           THEN SendMailTo(mails, {ExpiredMail(e)})
           ELSE SendMailTo(mails, {SuccessfulMail(e), WonMail(e)})
    BY <1>4 DEF Update
  <2>2. e \in AuctionEntry
    BY <2>1, EntryType DEF IInv, TypeInv
  <2>3. CASE e.bidder = NoPlayer
    <3>1. {ExpiredMail(e)} \in SUBSET MailEntry /\ ExpiredMail(e).items = {e.item}
      BY <2>2, AuctionMails
    <3>2. SendMailTo(mails, {ExpiredMail(e)})
      BY <2>1, <2>3
    <3>3. \A c \in {ExpiredMail(e)} : c # ExpiredMail(e) => c.items = {}
      OBVIOUS
    <3> QED BY <2>1, <3>1, <3>2, <3>3, AuctionEnds
  <2>4. CASE e.bidder # NoPlayer
    <3> DEFINE drafts == {SuccessfulMail(e), WonMail(e)}
    <3>1. /\ drafts \in SUBSET MailEntry /\ WonMail(e) \in drafts
          /\ WonMail(e).items = {e.item}
          /\ \A c \in drafts : c # WonMail(e) => c.items = {}
      BY <2>2, <2>4, AuctionMails
    <3>2. SendMailTo(mails, drafts)
      BY <2>1, <2>4
    <3> HIDE DEF drafts
    <3> QED BY <2>1, <3>1, <3>2, AuctionEnds
  <2> QED BY <2>3, <2>4
<1> QED BY <1>1, <1>2, <1>3, <1>4

\* A mail that holds what it held, in the place of the one in k, changes no
\* item's place, nor what saving drops if it is not deleted.
LEMMA HoldersWith ==
  ASSUME NEW box \in Box, NEW k \in MailIds, box[k] # NoMail,
         NEW m \in MailEntry, m.items = box[k].items
  PROVE  \A i : Holders([box EXCEPT ![k] = m], i) = Holders(box, i)
<1>1. \A j \in MailIds : [box EXCEPT ![k] = m][j] = IF j = k THEN m ELSE box[j]
  BY DEF Box
<1> QED BY <1>1, Constants DEF Holders

\* Saving after a mail that is not deleted was changed drops the same mails.
LEMMA DeletedWith ==
  ASSUME NEW box \in Box, NEW k \in MailIds, box[k] # NoMail, box[k].state # "deleted",
         NEW m \in MailEntry, m.state # "deleted", NEW p
  PROVE  /\ Deleted(p, [box EXCEPT ![k] = m]) = Deleted(p, box) /\ k \notin Deleted(p, box)
         /\ ItemsIn([box EXCEPT ![k] = m], Deleted(p, [box EXCEPT ![k] = m]))
              = ItemsIn(box, Deleted(p, box))
<1> DEFINE new == [box EXCEPT ![k] = m]
<1>1. \A j \in MailIds : new[j] = IF j = k THEN m ELSE box[j]
  BY DEF Box
<1> HIDE DEF new
<1>2. Deleted(p, new) = Deleted(p, box) /\ k \notin Deleted(p, box)
  BY <1>1 DEF Deleted
<1>3. \A j \in Deleted(p, box) : new[j].items = box[j].items
  BY <1>1, <1>2 DEF Deleted
<1>4. ItemsIn(new, Deleted(p, new)) = ItemsIn(box, Deleted(p, box))
  BY <1>2, <1>3 DEF ItemsIn
<1> QED BY <1>2, <1>4 DEF new

\* Between bags and mails.
LEMMA MailItems ==
  ASSUME IInv, NEW p \in Players,
         \/ \E r \in Players, items \in SUBSET Items, m, c \in 0..MaxOffer :
              HandleSendMail(p, r, items, m, c)
         \/ \E k \in MailIds :
              \/ HandleMailMarkAsRead(p, k)
              \/ HandleMailDelete(p, k)
              \/ HandleMailReturnToSender(p, k)
              \/ \E i \in Items : HandleMailTakeItem(p, k, i)
              \/ HandleMailTakeMoney(p, k)
  PROVE  EachItemOnce'
<1> /\ mails \in Box /\ bag \in [Players -> SUBSET Items]
    /\ MaxOffer \in Nat /\ TypeOK /\ EachItemOnce
  BY Constants DEF IInv, TypeInv, TypeOK, Box
<1>1. ASSUME NEW r \in Players, NEW items \in SUBSET Items,
             NEW m \in 0..MaxOffer, NEW c \in 0..MaxOffer,
             HandleSendMail(p, r, items, m, c)
      PROVE  EachItemOnce'
  <2> DEFINE d == PlayerMail(p, r, items, m, c, Undelayed(p, r, items), FALSE)
  <2>1. d \in MailEntry /\ d.items = items
    <3>1. m \in Nat /\ c \in Nat /\ Undelayed(p, r, items) \in BOOLEAN
      BY UndelayedType
    <3>2. d \in MailEntry
      BY <3>1, PlayerMailType
    <3> QED BY <3>2 DEF PlayerMail
  <2>2. /\ items \subseteq bag[p]
        /\ bag' = [bag EXCEPT ![p] = @ \ items]
        /\ SendMailTo(mails, {d})
        /\ UNCHANGED <<auctions, gone>>
    BY <1>1 DEF HandleSendMail
  <2> HIDE DEF d
  <2>3. \A i : InAuction(i)' = InAuction(i)
    BY <2>2 DEF InAuction, Running
  <2>4. \A i : InBag(i)' = IF i \in items THEN InBag(i) \ {p} ELSE InBag(i)
    BY <2>2 DEF InBag
  <2>5. ASSUME NEW i \in Items, i \notin items
        PROVE  OncePlaced(i)'
    <3>1. Holders(mails', i) = Holders(mails, i)
      BY <2>1, <2>2, <2>5, Mailed
    <3> QED BY <2>2, <2>3, <2>4, <2>5, <3>1, Unmoved DEF EachItemOnce
  <2>6. ASSUME NEW i \in Items, i \in items
        PROVE  OncePlaced(i)'
    <3>1. p \in InBag(i) /\ OncePlaced(i)
      BY <2>2, <2>6 DEF InBag, EachItemOnce
    <3>2. InBag(i) = {p} /\ InAuction(i) = {} /\ Holders(mails, i) = {} /\ i \notin gone
      BY <3>1, InBagOnly
    <3>3. One(Holders(mails', i))
      BY <2>1, <2>2, <2>6, <3>2, Mailed
    <3>4. InBag(i)' = {} /\ InAuction(i)' = {}
      BY <2>3, <2>4, <2>6, <3>2
    <3> QED BY <2>2, <3>2, <3>3, <3>4, Moved
  <2> QED BY <2>5, <2>6 DEF EachItemOnce
<1>2. ASSUME NEW k \in MailIds, HandleMailMarkAsRead(p, k) \/ HandleMailDelete(p, k)
      PROVE  EachItemOnce'
  <2>1. mails[k] \in MailEntry /\ mails[k] # NoMail
    BY <1>2, HasMailType DEF HandleMailMarkAsRead, HandleMailDelete
  <2>2. PICK s \in {"listed", "deleted"} : mails' = [mails EXCEPT ![k].state = s]
    BY <1>2 DEF HandleMailMarkAsRead, HandleMailDelete
  <2>3. mails' = [mails EXCEPT ![k] = [mails[k] EXCEPT !.state = s]]
    BY <2>2 DEF Box
  <2>4. /\ [mails[k] EXCEPT !.state = s] \in MailEntry
        /\ [mails[k] EXCEPT !.state = s].items = mails[k].items
    BY <2>1 DEF MailEntry
  <2>5. \A i : Holders(mails', i) = Holders(mails, i)
    BY <2>1, <2>3, <2>4, HoldersWith
  <2> QED BY <1>2, <2>5, SameMails DEF HandleMailMarkAsRead, HandleMailDelete
<1>3. ASSUME NEW k \in MailIds, HandleMailReturnToSender(p, k)
      PROVE  EachItemOnce'
  <2> DEFINE m == mails[k]
             d == PlayerMail(p, m.sender, m.items, m.money, 0,
                             Undelayed(p, m.sender, m.items), TRUE)
             kept == [mails EXCEPT ![k] = NoMail]
  <2>1. m \in MailEntry /\ m # NoMail
    BY <1>3, HasMailType DEF HandleMailReturnToSender, Open
  <2>2. m.items \in SUBSET Items /\ m.money \in Nat /\ m.sender \in Players \cup {NoPlayer}
    BY <2>1 DEF MailEntry
  <2>3. /\ IF m.sender # NoPlayer
           THEN SendMailTo(kept, {d}) /\ UNCHANGED gone
           ELSE mails' = kept /\ gone' = gone \cup m.items
        /\ UNCHANGED <<bag, auctions>>
    BY <1>3 DEF HandleMailReturnToSender
  <2>4. m.sender # NoPlayer => d \in MailEntry
    BY <2>2, PlayerMailType, UndelayedType
  <2>5. d.items = m.items
    BY DEF PlayerMail
  <2>6. \A i : Holders(kept, i) = Holders(mails, i) \ {k}
    BY DEF Holders, Box
  <2>7. kept \in Box
    BY BoxWith
  <2>8. \A i : i \in m.items <=> k \in Holders(mails, i)
    BY <2>1 DEF Holders
  <2> HIDE DEF m, d, kept
  <2>9. \A i : InBag(i)' = InBag(i) /\ InAuction(i)' = InAuction(i)
    BY <2>3 DEF InBag, InAuction, Running
  <2>10. ASSUME NEW i \in Items, i \notin m.items
         PROVE  OncePlaced(i)'
    <3>1. Holders(kept, i) = Holders(mails, i)
      BY <2>6, <2>8, <2>10
    <3>2. Holders(mails', i) = Holders(mails, i)
      <4>1. CASE m.sender # NoPlayer
        BY <2>3, <2>4, <2>5, <2>7, <2>10, <3>1, <4>1, Mailed
      <4>2. CASE m.sender = NoPlayer
        BY <2>3, <3>1, <4>2
      <4> QED BY <4>1, <4>2
    <3> QED BY <2>3, <2>9, <2>10, <3>2, Unmoved DEF EachItemOnce
  <2>11. ASSUME NEW i \in Items, i \in m.items
         PROVE  OncePlaced(i)'
    <3>1. k \in Holders(mails, i) /\ OncePlaced(i)
      BY <2>8, <2>11 DEF EachItemOnce
    <3>2. InBag(i) = {} /\ InAuction(i) = {} /\ Holders(mails, i) = {k} /\ i \notin gone
      BY <3>1, InMailOnly
    <3>3. Holders(kept, i) = {}
      BY <2>6, <3>2
    <3>4. InBag(i)' = {} /\ InAuction(i)' = {}
      BY <2>9, <3>2
    <3>5. CASE m.sender # NoPlayer
      <4>1. One(Holders(mails', i))
        BY <2>3, <2>4, <2>5, <2>7, <2>11, <3>3, <3>5, Mailed
      <4> QED BY <2>3, <3>2, <3>4, <3>5, <4>1, Moved
    <3>6. CASE m.sender = NoPlayer
      BY <2>3, <2>11, <3>3, <3>4, <3>6, Moved
    <3> QED BY <3>5, <3>6
  <2> QED BY <2>10, <2>11 DEF EachItemOnce
<1>4. ASSUME NEW k \in MailIds, NEW item \in Items, HandleMailTakeItem(p, k, item)
      PROVE  EachItemOnce'
  <2> DEFINE m == mails[k]
             left == [m EXCEPT !.items = @ \ {item}, !.COD = 0]
             open == [mails EXCEPT ![k] = left]
             kept == SaveMail(p, open)
             lost == ItemsIn(mails, Deleted(p, mails))
             d == PlayerMail(p, m.sender, {}, m.COD, 0, TRUE, FALSE)
  <2>1. m \in MailEntry /\ m # NoMail /\ m.state # "deleted" /\ item \in m.items
    BY <1>4, HasMailType DEF HandleMailTakeItem, Open
  <2>2. /\ left \in MailEntry /\ left.items = m.items \ {item}
        /\ left.state # "deleted" /\ left # NoMail
    <3>1. left \in MailEntry
      BY <2>1, MailWith
    <3> QED BY <2>1, <3>1, Constants DEF MailEntry
  <2>3. open \in Box /\ [mails EXCEPT ![k].items = @ \ {item}, ![k].COD = 0] = open
    BY <2>2, BoxWith DEF Box
  <2>4. /\ IF m.COD > 0
           THEN SendMailTo(kept, IF m.sender = NoPlayer THEN {} ELSE {d})
           ELSE mails' = kept
        /\ bag' = [bag EXCEPT ![p] = @ \cup {item}]
        /\ gone' = gone \cup lost
        /\ UNCHANGED auctions
    BY <1>4, <2>3 DEF HandleMailTakeItem, Lost
  <2>5. m.sender # NoPlayer => d \in MailEntry /\ d.items = {}
    <3>1. m.COD \in Nat /\ m.sender \in Players \cup {NoPlayer}
      BY <2>1 DEF MailEntry
    <3>2. m.sender # NoPlayer => d \in MailEntry
      BY <3>1, PlayerMailType
    <3>3. d.items = {}
      BY DEF PlayerMail
    <3> QED BY <3>2, <3>3
  <2>6. /\ ItemsIn(open, Deleted(p, open)) = lost
        /\ k \notin Deleted(p, mails)
    <3> HIDE DEF left
    <3>1. \A q : /\ ItemsIn(open, Deleted(q, open)) = ItemsIn(mails, Deleted(q, mails))
                  /\ k \notin Deleted(q, mails)
      BY <2>1, <2>2, DeletedWith
    <3> QED BY <3>1
  <2>7. \A i : Holders(open, i) = IF i = item THEN Holders(mails, i) \ {k} ELSE Holders(mails, i)
    <3>1. \A j \in MailIds : open[j] = IF j = k THEN left ELSE mails[j]
      BY DEF Box
    <3> QED BY <2>1, <2>2, <3>1 DEF Holders
  <2>8. k \in Holders(mails, item) /\ OncePlaced(item)
    BY <2>1 DEF Holders, EachItemOnce
  <2>9. item \notin lost
    <3>1. \A j \in Deleted(p, mails) : j \in MailIds /\ mails[j] # NoMail
      BY DEF Deleted
    <3>2. Holders(mails, item) = {k}
      BY <2>8, InMailOnly
    <3>3. \A j \in Deleted(p, mails) : item \notin mails[j].items
      BY <2>6, <3>1, <3>2 DEF Holders
    <3> QED BY <3>3 DEF ItemsIn
  <2>10. kept \in Box
    BY <2>3, SavedMails
  <2>11. \A i : i \notin lost => Holders(kept, i) = Holders(open, i)
    BY <2>3, <2>6, SavedMails
  <2>12. \A i : i \in lost /\ One(Holders(open, i)) => Holders(kept, i) = {}
    BY <2>3, <2>6, SavedMails
  <2> HIDE DEF m, left, open, kept, d, lost
  <2>13. \A i : Holders(mails', i) = Holders(kept, i)
    <3>1. CASE m.COD > 0
      <4> DEFINE drafts == IF m.sender = NoPlayer THEN {} ELSE {d}
      <4>1. drafts \in SUBSET MailEntry /\ \A i : \A c \in drafts : i \notin c.items
        BY <2>5
      <4>2. SendMailTo(kept, drafts)
        BY <2>4, <3>1
      <4> HIDE DEF drafts
      <4> QED BY <2>10, <4>1, <4>2, Mailed
    <3>2. CASE ~(m.COD > 0)
      BY <2>4, <3>2
    <3> QED BY <3>1, <3>2
  <2>14. \A i : InAuction(i)' = InAuction(i)
    BY <2>4 DEF InAuction, Running
  <2>15. \A i : InBag(i)' = IF i = item THEN InBag(i) \cup {p} ELSE InBag(i)
    BY <2>4 DEF InBag
  <2>16. ASSUME NEW i \in Items, i = item
         PROVE  OncePlaced(i)'
    <3>1. InBag(i) = {} /\ InAuction(i) = {} /\ Holders(mails, i) = {k} /\ i \notin gone
      BY <2>8, <2>16, InMailOnly
    <3>2. InBag(i)' = {p} /\ InAuction(i)' = {}
      BY <2>14, <2>15, <2>16, <3>1
    <3>3. Holders(mails', i) = {} /\ i \notin gone'
      BY <2>4, <2>7, <2>9, <2>11, <2>13, <2>16, <3>1
    <3>4. One(InBag(i)')
      BY <3>2 DEF One
    <3> QED BY <3>2, <3>3, <3>4, Moved
  <2>17. ASSUME NEW i \in Items, i # item, i \notin lost
         PROVE  OncePlaced(i)'
    <3>1. Holders(mails', i) = Holders(mails, i)
      BY <2>7, <2>11, <2>13, <2>17
    <3> QED BY <2>4, <2>14, <2>15, <2>17, <3>1, Unmoved DEF EachItemOnce
  <2>18. ASSUME NEW i \in Items, i # item, i \in lost
         PROVE  OncePlaced(i)'
    <3>1. PICK j \in Holders(mails, i) : TRUE
      BY <2>18 DEF lost, ItemsIn, Deleted, Holders
    <3>2. InBag(i) = {} /\ InAuction(i) = {} /\ Holders(mails, i) = {j}
      BY InMailOnly DEF EachItemOnce
    <3>3. One(Holders(open, i))
      BY <2>7, <2>18, <3>2 DEF One
    <3>4. Holders(mails', i) = {} /\ i \in gone'
      BY <2>4, <2>12, <2>13, <2>18, <3>3
    <3>5. InBag(i)' = {} /\ InAuction(i)' = {}
      BY <2>14, <2>15, <2>18, <3>2
    <3> QED BY <3>4, <3>5, Moved
  <2> QED BY <2>16, <2>17, <2>18 DEF EachItemOnce
<1>5. ASSUME NEW k \in MailIds, HandleMailTakeMoney(p, k)
      PROVE  EachItemOnce'
  <2> DEFINE left == [mails[k] EXCEPT !.money = 0]
             open == [mails EXCEPT ![k] = left]
  <2>1. mails[k] \in MailEntry /\ mails[k] # NoMail /\ mails[k].state # "deleted"
    BY <1>5, HasMailType DEF HandleMailTakeMoney, Open
  <2>2. left \in MailEntry /\ left.items = mails[k].items /\ left.state # "deleted" /\ left # NoMail
    BY <2>1, Constants DEF MailEntry
  <2>3. /\ mails' = SaveMail(p, open)
        /\ gone' = gone \cup ItemsIn(mails, Deleted(p, mails))
        /\ UNCHANGED <<bag, auctions>>
    BY <1>5 DEF HandleMailTakeMoney, Box
  <2>4. Deleted(p, open) = Deleted(p, mails)
    <3> HIDE DEF left
    <3>1. \A q : Deleted(q, open) = Deleted(q, mails)
      BY <2>1, <2>2, DeletedWith
    <3> QED BY <3>1
  <2>5. \A j \in MailIds : open[j] = IF j = k THEN left ELSE mails[j]
    BY DEF Box
  <2> HIDE DEF left, open
  <2>6. \A i : Holders(mails', i) = Holders(SaveMail(p, mails), i)
    BY <2>1, <2>2, <2>3, <2>4, <2>5 DEF Holders, SaveMail
  <2> QED BY <2>3, <2>6, SavedItems
<1> QED BY <1>1, <1>2, <1>3, <1>4, <1>5

\* What happens to the mails and the players by themselves.
LEMMA WorldItems ==
  ASSUME IInv,
         \/ \E p \in Players : SavePlayer(p) \/ LogIn(p) \/ LogOut(p)
         \/ \E k \in MailIds : MailDelivered(k) \/ MailExpires(k)
  PROVE  EachItemOnce'
<1> mails \in Box /\ EachItemOnce
  BY DEF IInv, TypeInv, TypeOK, Box
<1>1. ASSUME NEW p \in Players, SavePlayer(p) \/ LogOut(p)
      PROVE  EachItemOnce'
  <2>1. SaveMail(p, mails) \in Box
    BY SavedMails
  <2>2. \A i : Holders(mails', i) = Holders(SaveMail(p, mails), i)
    <3>1. CASE SavePlayer(p)
      BY <3>1 DEF SavePlayer
    <3>2. CASE LogOut(p)
      BY <2>1, <3>2, RelistedMails DEF LogOut
    <3> QED BY <1>1, <3>1, <3>2
  <2> QED BY <1>1, <2>2, SavedItems DEF SavePlayer, LogOut, Lost
<1>2. ASSUME NEW p \in Players, LogIn(p)
      PROVE  EachItemOnce'
  <2>1. \A i : Holders(mails', i) = Holders(mails, i)
    BY <1>2, RelistedMails DEF LogIn
  <2> QED BY <1>2, <2>1, SameMails DEF LogIn
<1>3. ASSUME NEW k \in MailIds, MailDelivered(k)
      PROVE  EachItemOnce'
  <2>1. mails[k] \in MailEntry /\ mails[k] # NoMail
    BY <1>3 DEF MailDelivered, Sent, Box
  <2>2. mails' = [mails EXCEPT ![k] = [mails[k] EXCEPT !.delivered = TRUE]]
    BY <1>3 DEF MailDelivered, Box
  <2>3. /\ [mails[k] EXCEPT !.delivered = TRUE] \in MailEntry
        /\ [mails[k] EXCEPT !.delivered = TRUE].items = mails[k].items
    BY <2>1 DEF MailEntry
  <2>4. \A i : Holders(mails', i) = Holders(mails, i)
    BY <2>1, <2>2, <2>3, HoldersWith
  <2> QED BY <1>3, <2>4, SameMails DEF MailDelivered
<1>4. ASSUME NEW k \in MailIds, MailExpires(k)
      PROVE  EachItemOnce'
  <2> DEFINE m == mails[k]
             back == [m EXCEPT !.sender = m.receiver, !.receiver = m.sender, !.COD = 0,
                               !.returned = TRUE, !.state = "stored"]
  <2>1. m \in MailEntry /\ m # NoMail
    BY <1>4 DEF MailExpires, Sent, Box
  <2>2. /\ IF Returnable(m)
           THEN mails' = [mails EXCEPT ![k] = back] /\ UNCHANGED gone
           ELSE mails' = [mails EXCEPT ![k] = NoMail] /\ gone' = gone \cup m.items
        /\ UNCHANGED <<bag, auctions>>
    BY <1>4 DEF MailExpires
  <2>3. CASE Returnable(m)
    <3>1. back \in MailEntry /\ back.items = m.items
      BY <2>1, <2>3 DEF Returnable, MailEntry
    <3>2. \A i : Holders(mails', i) = Holders(mails, i)
      <4> HIDE DEF back
      <4> QED BY <2>1, <2>2, <2>3, <3>1, HoldersWith
    <3> QED BY <2>2, <2>3, <3>2, SameMails
  <2>4. CASE ~Returnable(m)
    <3>1. mails' = [mails EXCEPT ![k] = NoMail] /\ gone' = gone \cup m.items
      BY <2>2, <2>4
    <3>2. \A i : Holders(mails', i) = Holders(mails, i) \ {k}
      BY <3>1 DEF Holders, Box
    <3>3. \A i : i \in m.items <=> k \in Holders(mails, i)
      BY <2>1 DEF Holders
    <3> HIDE DEF m
    <3>4. \A i : InBag(i)' = InBag(i) /\ InAuction(i)' = InAuction(i)
      BY <2>2 DEF InBag, InAuction, Running
    <3>5. ASSUME NEW i \in Items, i \notin m.items
          PROVE  OncePlaced(i)'
      <4>1. Holders(mails', i) = Holders(mails, i)
        BY <3>2, <3>3, <3>5
      <4> QED BY <3>1, <3>4, <3>5, <4>1, Unmoved DEF EachItemOnce
    <3>6. ASSUME NEW i \in Items, i \in m.items
          PROVE  OncePlaced(i)'
      <4>1. k \in Holders(mails, i) /\ OncePlaced(i)
        BY <3>3, <3>6 DEF EachItemOnce
      <4>2. InBag(i) = {} /\ InAuction(i) = {} /\ Holders(mails, i) = {k}
        BY <4>1, InMailOnly
      <4> QED BY <3>1, <3>2, <3>4, <3>6, <4>2, Moved
    <3> QED BY <3>5, <3>6 DEF EachItemOnce
  <2> QED BY <2>3, <2>4
<1> QED BY <1>1, <1>2, <1>3, <1>4

\* At first every item is in its owner's bag.
LEMMA ItemInit ==
  ASSUME Init
  PROVE  EachItemOnce
<1>1. PICK owner \in [Items -> Players] : bag = [p \in Players |-> {i \in Items : owner[i] = p}]
  BY DEF Init
<1>2. \A i : InAuction(i) = {} /\ InMail(i) = {} /\ i \notin gone
  BY DEF Init, InAuction, InMail, Running, Sent
<1>3. \A i \in Items : InBag(i) = {owner[i]}
  BY <1>1 DEF InBag
<1> QED BY <1>2, <1>3 DEF EachItemOnce, OncePlaced, One

\* Every step leaves every item in one place.
LEMMA ItemStep ==
  ASSUME IInv, [Next]_vars
  PROVE  EachItemOnce'
<1>1. CASE UNCHANGED vars
  <2>1. UNCHANGED <<bag, auctions, gone>> /\ \A i : Holders(mails', i) = Holders(mails, i)
    BY <1>1 DEF vars
  <2> QED BY <2>1, SameMails DEF IInv
<1>2. ASSUME NEW p \in Players, ActOf(p)
      PROVE  EachItemOnce'
  <2>1. ASSUME NEW a \in AuctionIds, NEW price \in 1..MaxOffer, HandleAuctionPlaceBid(p, a, price)
        PROVE  EachItemOnce'
    <3>1. a \in Running
      BY <2>1 DEF HandleAuctionPlaceBid, PlaceBid, Buyout
    <3> QED BY <2>1, <3>1, BidItems
  <2> QED BY <1>2, <2>1, AuctionItems, MailItems DEF ActOf
<1> QED BY <1>1, <1>2, AuctionItems, WorldItems DEF Next

\* Every item is in one bag, one auction or one mail, or destroyed, whatever
\* players do and whoever of them is away.
THEOREM ItemsKept == Spec => []EachItemOnce
<1>1. Init => IInv
  BY TypeInit, ItemInit DEF IInv
<1>2. IInv /\ [Next]_vars => IInv'
  BY TypeStep, ItemStep DEF IInv
<1>3. IInv => EachItemOnce
  BY DEF IInv
<1> QED BY <1>1, <1>2, <1>3, PTL DEF Spec

-----------------------------------------------------------------------------
(* Sums of functions over finite sets.                                     *)

Pick(s) == CHOOSE x \in s : TRUE

\* What SumFunctionOnSet computes for every part of S.
Partial(it, f, S) ==
  it = [s \in SUBSET S |-> IF s = {} THEN 0 ELSE f[Pick(s)] + it[s \ {Pick(s)}]]
Partials(f, S) == CHOOSE it : Partial(it, f, S)

\* A sum is the last of the partial ones.
LEMMA SumIsPartial ==
  ASSUME NEW f, NEW S
  PROVE  SumFunctionOnSet(f, S) = Partials(f, S)[S]
BY DEF SumFunctionOnSet, FoldFunctionOnSet, MapThenFoldSet, Partials, Partial, Pick

\* Among some parts of a finite set one holds no other.
LEMMA Smallest ==
  ASSUME NEW S, IsFiniteSet(S), NEW B, B \subseteq SUBSET S, B # {}
  PROVE  \E T \in B : \A U \in B : U \subseteq T => U = T
<1>1. IsWellFoundedOn(StrictSubsetOrdering(S), SUBSET S)
  BY FS_StrictSubsetOrderingWellFounded, FS_FiniteSubsetsOfFinite
<1>2. PICK T \in B : \A U \in B : ~ (<<U, T>> \in StrictSubsetOrdering(S))
  BY <1>1, WFMin, Zenon
<1>3. ASSUME NEW U \in B, U \subseteq T PROVE U = T
  <2>1. U # T => <<U, T>> \in StrictSubsetOrdering(S)
    BY <1>3 DEF StrictSubsetOrdering
  <2> QED BY <1>2, <2>1
<1> QED BY <1>3

\* The element picked is one of the set.
LEMMA Picked ==
  ASSUME NEW s, s # {}
  PROVE  Pick(s) \in s
BY DEF Pick

\* The partial sums of what two functions agree on are the same.
LEMMA PartialSame ==
  ASSUME NEW f, NEW g, NEW S, NEW T, NEW a, NEW b, Partial(a, f, S), Partial(b, g, T),
         NEW D, IsFiniteSet(D), D \subseteq S, D \subseteq T,
         \A x \in D : f[x] = g[x]
  PROVE  a[D] = b[D]
<1> DEFINE B == {s \in SUBSET D : a[s] # b[s]}
<1>1. SUFFICES ASSUME B # {} PROVE FALSE
  OBVIOUS
<1>2. PICK s \in B : \A U \in B : U \subseteq s => U = s
  <2>1. B \subseteq SUBSET D
    OBVIOUS
  <2> HIDE DEF B
  <2> QED BY <1>1, <2>1, Smallest
<1>3. s \subseteq D /\ a[s] # b[s]
  BY <1>2
<1>4. /\ a[s] = IF s = {} THEN 0 ELSE f[Pick(s)] + a[s \ {Pick(s)}]
      /\ b[s] = IF s = {} THEN 0 ELSE g[Pick(s)] + b[s \ {Pick(s)}]
  BY <1>3 DEF Partial
<1>5. s # {}
  BY <1>3, <1>4
<1>6. Pick(s) \in s
  BY <1>5, Picked
<1> DEFINE u == s \ {Pick(s)}
<1>7. a[u] = b[u]
  BY <1>2, <1>3, <1>6
<1>8. f[Pick(s)] = g[Pick(s)]
  BY <1>3, <1>6
<1> QED BY <1>3, <1>4, <1>5, <1>7, <1>8

\* There are partial sums.
LEMMA PartialExists ==
  ASSUME NEW f, NEW S, IsFiniteSet(S)
  PROVE  Partial(Partials(f, S), f, S)
<1> DEFINE B == {s \in SUBSET S : ~ \E it : Partial(it, f, s)}
<1>1. SUFFICES ASSUME B # {} PROVE FALSE
  <2>1. S \notin B => \E it : Partial(it, f, S)
    OBVIOUS
  <2> QED BY <2>1 DEF Partials
<1>2. PICK T \in B : \A U \in B : U \subseteq T => U = T
  <2>1. B \subseteq SUBSET S
    OBVIOUS
  <2> HIDE DEF B
  <2> QED BY <1>1, <2>1, Smallest
<1>3. T \subseteq S /\ ~ \E it : Partial(it, f, T)
  BY <1>2
<1>4. \A s \in SUBSET T : s # T => Partial(Partials(f, s), f, s)
  <2> SUFFICES ASSUME NEW s \in SUBSET T, s # T PROVE Partial(Partials(f, s), f, s)
    OBVIOUS
  <2>1. s \in SUBSET S /\ s \notin B
    BY <1>2, <1>3
  <2>2. \E it : Partial(it, f, s)
    BY <2>1
  <2> QED BY <2>2 DEF Partials
<1> DEFINE low == [s \in SUBSET T |-> IF s = T THEN 0 ELSE Partials(f, s)[s]]
           top == IF T = {} THEN 0 ELSE f[Pick(T)] + low[T \ {Pick(T)}]
           it == [s \in SUBSET T |-> IF s = T THEN top ELSE low[s]]
<1>5. \A s \in SUBSET T : it[s] = IF s = T THEN top ELSE Partials(f, s)[s]
  OBVIOUS
<1>6. ASSUME NEW s \in SUBSET T
      PROVE  it[s] = IF s = {} THEN 0 ELSE f[Pick(s)] + it[s \ {Pick(s)}]
  <2>1. CASE s = T
    <3>1. CASE T = {}
      BY <2>1, <3>1
    <3>2. CASE T # {}
      <4>1. Pick(T) \in T
        BY <3>2, Picked
      <4>2. T \ {Pick(T)} \in SUBSET T /\ T \ {Pick(T)} # T
        BY <4>1
      <4>3. it[T \ {Pick(T)}] = low[T \ {Pick(T)}]
        BY <4>2
      <4> HIDE DEF low
      <4>4. it[T] = f[Pick(T)] + low[T \ {Pick(T)}]
        BY <3>2
      <4> HIDE DEF it
      <4> QED BY <2>1, <3>2, <4>3, <4>4
    <3> QED BY <3>1, <3>2
  <2>2. CASE s # T
    <3>1. it[s] = Partials(f, s)[s] /\ Partial(Partials(f, s), f, s)
      BY <1>4, <2>2
    <3>2. CASE s = {}
      BY <3>1, <3>2 DEF Partial
    <3>3. CASE s # {}
      <4> DEFINE u == s \ {Pick(s)}
      <4>1. Pick(s) \in s
        BY <3>3, Picked
      <4>2. u \in SUBSET T /\ u # T /\ u \in SUBSET s
        BY <4>1
      <4>3. it[u] = Partials(f, u)[u] /\ Partial(Partials(f, u), f, u)
        BY <1>4, <4>2
      <4>4. IsFiniteSet(u)
        BY <1>3, <4>2, FS_Subset
      <4>5. Partials(f, u)[u] = Partials(f, s)[u]
        BY <3>1, <4>2, <4>3, <4>4, PartialSame
      <4>6. Partials(f, s)[s] = f[Pick(s)] + Partials(f, s)[u]
        BY <3>1, <3>3 DEF Partial
      <4> HIDE DEF it
      <4> QED BY <3>1, <3>3, <4>3, <4>5, <4>6
    <3> QED BY <3>2, <3>3
  <2> QED BY <2>1, <2>2
<1>7. Partial(it, f, T)
  <2>1. it = [s \in SUBSET T |-> it[s]]
    OBVIOUS
  <2> HIDE DEF it
  <2> QED BY <1>6, <2>1 DEF Partial
<1> QED BY <1>3, <1>7

\* The sum of nothing, and of a set of which an element is picked.
LEMMA SumPick ==
  ASSUME NEW f, NEW S, IsFiniteSet(S)
  PROVE  SumFunctionOnSet(f, S) =
           IF S = {} THEN 0 ELSE f[Pick(S)] + SumFunctionOnSet(f, S \ {Pick(S)})
<1>1. Partial(Partials(f, S), f, S)
  BY PartialExists
<1>2. CASE S = {}
  <2>1. Partials(f, S)[S] = 0
    BY <1>1, <1>2 DEF Partial
  <2> QED BY <1>2, <2>1, SumIsPartial
<1>3. CASE S # {}
  <2> DEFINE u == S \ {Pick(S)}
  <2>1. u \in SUBSET S /\ IsFiniteSet(u)
    BY FS_Subset
  <2>2. Partials(f, S)[S] = f[Pick(S)] + Partials(f, S)[u]
    BY <1>1, <1>3 DEF Partial
  <2>3. Partials(f, S)[u] = Partials(f, u)[u]
    BY <1>1, <2>1, PartialExists, PartialSame
  <2> HIDE DEF u
  <2>4. SumFunctionOnSet(f, u) = Partials(f, u)[u] /\ SumFunctionOnSet(f, S) = Partials(f, S)[S]
    BY SumIsPartial
  <2> QED BY <1>3, <2>2, <2>3, <2>4 DEF u
<1> QED BY <1>2, <1>3

\* The sums of two functions that agree.
LEMMA SumSame ==
  ASSUME NEW f, NEW g, NEW S, IsFiniteSet(S), \A x \in S : f[x] = g[x]
  PROVE  SumFunctionOnSet(f, S) = SumFunctionOnSet(g, S)
<1>1. Partials(f, S)[S] = Partials(g, S)[S]
  BY PartialExists, PartialSame
<1> QED BY <1>1, SumIsPartial

\* A sum of integers is one, and a sum of natural numbers is one.
LEMMA SumType ==
  ASSUME NEW f, NEW S, IsFiniteSet(S), NEW N \in {Int, Nat}, \A x \in S : f[x] \in N
  PROVE  SumFunctionOnSet(f, S) \in N
<1> DEFINE B == {s \in SUBSET S : SumFunctionOnSet(f, s) \notin N}
<1>1. SUFFICES ASSUME B # {} PROVE FALSE
  OBVIOUS
<1>2. PICK s \in B : \A U \in B : U \subseteq s => U = s
  <2>1. B \subseteq SUBSET S
    OBVIOUS
  <2> HIDE DEF B
  <2> QED BY <1>1, <2>1, Smallest
<1>3. s \in SUBSET S /\ SumFunctionOnSet(f, s) \notin N /\ IsFiniteSet(s)
  BY <1>2, FS_Subset
<1>4. s # {}
  <2>1. s = {} => SumFunctionOnSet(f, s) = 0
    BY <1>3, SumPick
  <2>2. 0 \in N
    OBVIOUS
  <2> QED BY <1>3, <2>1, <2>2
<1>5. Pick(s) \in s
  BY <1>4, Picked
<1> DEFINE u == s \ {Pick(s)}
<1>6. SumFunctionOnSet(f, u) \in N
  BY <1>2, <1>3, <1>5
<1>7. SumFunctionOnSet(f, s) = f[Pick(s)] + SumFunctionOnSet(f, u)
  BY <1>3, <1>4, SumPick
<1>8. f[Pick(s)] \in N
  BY <1>3, <1>5
<1> HIDE DEF u
<1>9. f[Pick(s)] + SumFunctionOnSet(f, u) \in N
  BY <1>6, <1>8
<1> QED BY <1>3, <1>7, <1>9

\* See SumType.
LEMMA SumInt ==
  ASSUME NEW f, NEW S, IsFiniteSet(S), \A x \in S : f[x] \in Int
  PROVE  SumFunctionOnSet(f, S) \in Int
BY SumType

\* See SumType.
LEMMA SumNat ==
  ASSUME NEW f, NEW S, IsFiniteSet(S), \A x \in S : f[x] \in Nat
  PROVE  SumFunctionOnSet(f, S) \in Nat
BY SumType

\* Any element may be summed first.
LEMMA SumRemove ==
  ASSUME NEW f, NEW S, IsFiniteSet(S), \A x \in S : f[x] \in Int, NEW x \in S
  PROVE  SumFunctionOnSet(f, S) = f[x] + SumFunctionOnSet(f, S \ {x})
<1> DEFINE Wrong(s, y) == SumFunctionOnSet(f, s) # f[y] + SumFunctionOnSet(f, s \ {y})
           B == {s \in SUBSET S : \E y \in s : Wrong(s, y)}
<1>1. SUFFICES ASSUME B # {} PROVE FALSE
  OBVIOUS
<1>2. PICK s \in B : \A U \in B : U \subseteq s => U = s
  <2>1. B \subseteq SUBSET S
    OBVIOUS
  <2> HIDE DEF B
  <2> QED BY <1>1, <2>1, Smallest
<1>3. s \in SUBSET S /\ IsFiniteSet(s)
  BY <1>2, FS_Subset
<1>4. PICK y \in s : Wrong(s, y)
  BY <1>2
<1> DEFINE p == Pick(s)
           sy == s \ {y}
           sp == s \ {p}
           rest == s \ {p, y}
<1>5. p \in s
  BY <1>4, Picked
<1>6. SumFunctionOnSet(f, s) = f[p] + SumFunctionOnSet(f, sp)
  BY <1>3, <1>4, SumPick
<1>7. p # y
  BY <1>4, <1>6
<1>8. sy \notin B /\ sp \notin B
  BY <1>2, <1>4, <1>5
<1>9. SumFunctionOnSet(f, sy) = f[p] + SumFunctionOnSet(f, sy \ {p})
  <2>1. sy \in SUBSET S /\ p \in sy
    BY <1>3, <1>5, <1>7
  <2> QED BY <1>8, <2>1
<1>10. SumFunctionOnSet(f, sp) = f[y] + SumFunctionOnSet(f, sp \ {y})
  <2>1. sp \in SUBSET S /\ y \in sp
    BY <1>3, <1>4, <1>7
  <2> QED BY <1>8, <2>1
<1>11. sy \ {p} = rest /\ sp \ {y} = rest
  OBVIOUS
<1>12. SumFunctionOnSet(f, rest) \in Int
  <2>1. rest \in SUBSET S /\ IsFiniteSet(rest)
    BY <1>3, FS_Subset
  <2> QED BY <2>1, SumInt
<1>13. f[p] \in Int /\ f[y] \in Int
  BY <1>3, <1>5
<1>14. SumFunctionOnSet(f, s) # f[y] + SumFunctionOnSet(f, sy)
  BY <1>4
<1> HIDE DEF p, sy, sp, rest
<1>15. /\ SumFunctionOnSet(f, sy) = f[p] + SumFunctionOnSet(f, rest)
       /\ SumFunctionOnSet(f, sp) = f[y] + SumFunctionOnSet(f, rest)
  BY ONLY <1>9, <1>10, <1>11
<1> QED BY ONLY <1>6, <1>12, <1>13, <1>14, <1>15

\* The sum of two functions.
LEMMA SumPlus ==
  ASSUME NEW f, NEW g, NEW h, NEW S, IsFiniteSet(S),
         \A x \in S : f[x] \in Int /\ g[x] \in Int /\ h[x] = f[x] + g[x]
  PROVE  SumFunctionOnSet(h, S) = SumFunctionOnSet(f, S) + SumFunctionOnSet(g, S)
<1> DEFINE Right(s) ==
             SumFunctionOnSet(h, s) = SumFunctionOnSet(f, s) + SumFunctionOnSet(g, s)
           B == {s \in SUBSET S : ~Right(s)}
<1>1. SUFFICES ASSUME B # {} PROVE FALSE
  OBVIOUS
<1>2. PICK s \in B : \A U \in B : U \subseteq s => U = s
  <2>1. B \subseteq SUBSET S
    OBVIOUS
  <2> HIDE DEF B
  <2> QED BY <1>1, <2>1, Smallest
<1>3. s \in SUBSET S /\ IsFiniteSet(s) /\ ~Right(s)
  BY <1>2, FS_Subset
<1>4. s # {}
  <2>1. s = {} => /\ SumFunctionOnSet(h, s) = 0 /\ SumFunctionOnSet(f, s) = 0
                  /\ SumFunctionOnSet(g, s) = 0
    BY <1>3, SumPick
  <2> QED BY <1>3, <2>1
<1> DEFINE p == Pick(s)
           u == s \ {p}
<1>5. p \in s
  BY <1>4, Picked
<1>6. u \in SUBSET S /\ u # s /\ u \subseteq s
  BY <1>3, <1>5
<1>7. Right(u)
  BY <1>2, <1>6
<1>8. /\ SumFunctionOnSet(h, s) = h[p] + SumFunctionOnSet(h, u)
      /\ SumFunctionOnSet(f, s) = f[p] + SumFunctionOnSet(f, u)
      /\ SumFunctionOnSet(g, s) = g[p] + SumFunctionOnSet(g, u)
  BY <1>3, <1>4, SumPick
<1>9. f[p] \in Int /\ g[p] \in Int /\ h[p] = f[p] + g[p]
  BY <1>3, <1>5
<1>10. SumFunctionOnSet(f, u) \in Int /\ SumFunctionOnSet(g, u) \in Int
  BY <1>6, FS_Subset, SumInt
<1>11. /\ SumFunctionOnSet(h, u) = SumFunctionOnSet(f, u) + SumFunctionOnSet(g, u)
       /\ SumFunctionOnSet(h, s) # SumFunctionOnSet(f, s) + SumFunctionOnSet(g, s)
  BY <1>3, <1>7
<1> HIDE DEF p, u
<1> QED BY ONLY <1>8, <1>9, <1>10, <1>11

\* The sum of zeros.
LEMMA SumZeros ==
  ASSUME NEW f, NEW S, IsFiniteSet(S), \A x \in S : f[x] = 0
  PROVE  SumFunctionOnSet(f, S) = 0
<1>1. \A x \in S : f[x] \in Int /\ f[x] = f[x] + f[x]
  OBVIOUS
<1>2. SumFunctionOnSet(f, S) = SumFunctionOnSet(f, S) + SumFunctionOnSet(f, S)
  BY <1>1, SumPlus
<1>3. SumFunctionOnSet(f, S) \in Int
  <2>1. \A x \in S : f[x] \in Int
    BY <1>1
  <2> QED BY <2>1, SumInt
<1>4. \A n \in Int : n = n + n => n = 0
  OBVIOUS
<1> QED BY ONLY <1>2, <1>3, <1>4

\* Functions that differ in one element.
LEMMA SumPoint ==
  ASSUME NEW f, NEW g, NEW S, IsFiniteSet(S), NEW x \in S,
         \A y \in S : f[y] \in Int /\ g[y] \in Int,
         \A y \in S \ {x} : f[y] = g[y]
  PROVE  SumFunctionOnSet(g, S) = SumFunctionOnSet(f, S) - f[x] + g[x]
<1> DEFINE u == S \ {x}
<1>1. IsFiniteSet(u) /\ u \subseteq S
  BY FS_Subset
<1>2. SumFunctionOnSet(f, u) = SumFunctionOnSet(g, u)
  BY <1>1, SumSame
<1>3. SumFunctionOnSet(f, u) \in Int
  BY <1>1, SumInt
<1>4. /\ SumFunctionOnSet(f, S) = f[x] + SumFunctionOnSet(f, u)
      /\ SumFunctionOnSet(g, S) = g[x] + SumFunctionOnSet(g, u)
  BY SumRemove
<1>5. f[x] \in Int /\ g[x] \in Int
  OBVIOUS
<1> HIDE DEF u
<1> QED BY ONLY <1>2, <1>3, <1>4, <1>5

\* Elements outside S that count nothing.
LEMMA SumPart ==
  ASSUME NEW f, NEW g, NEW S, NEW T, IsFiniteSet(T), S \subseteq T,
         \A x \in S : f[x] \in Int /\ f[x] = g[x], \A x \in T \ S : g[x] = 0
  PROVE  SumFunctionOnSet(f, S) = SumFunctionOnSet(g, T)
<1> DEFINE B == {s \in SUBSET T : S \subseteq s /\ SumFunctionOnSet(g, s) # SumFunctionOnSet(f, S)}
<1>1. SUFFICES ASSUME B # {} PROVE FALSE
  OBVIOUS
<1>2. PICK s \in B : \A U \in B : U \subseteq s => U = s
  <2>1. B \subseteq SUBSET T
    OBVIOUS
  <2> HIDE DEF B
  <2> QED BY <1>1, <2>1, Smallest
<1>3. /\ s \in SUBSET T /\ IsFiniteSet(s) /\ S \subseteq s
      /\ SumFunctionOnSet(g, s) # SumFunctionOnSet(f, S)
  BY <1>2, FS_Subset
<1>4. s # S
  BY <1>3, SumSame
<1>5. PICK x \in s : x \notin S
  BY <1>3, <1>4
<1> DEFINE u == s \ {x}
<1>6. u \in SUBSET T /\ S \subseteq u /\ u # s /\ u \subseteq s
  BY <1>3, <1>5
<1>7. SumFunctionOnSet(g, u) = SumFunctionOnSet(f, S)
  BY <1>2, <1>6
<1>8. \A y \in s : g[y] \in Int
  BY <1>3
<1>9. SumFunctionOnSet(g, s) = g[x] + SumFunctionOnSet(g, u)
  BY <1>3, <1>5, <1>8, SumRemove
<1>10. g[x] = 0
  BY <1>3, <1>5
<1>11. SumFunctionOnSet(g, u) \in Int
  BY <1>6, <1>8, <1>3, FS_Subset, SumInt
<1> HIDE DEF u
<1> QED BY ONLY <1>3, <1>7, <1>9, <1>10, <1>11

\* A function that is nowhere less.
LEMMA SumMore ==
  ASSUME NEW f, NEW g, NEW S, IsFiniteSet(S),
         \A x \in S : f[x] \in Int /\ g[x] \in Int /\ f[x] <= g[x]
  PROVE  SumFunctionOnSet(f, S) <= SumFunctionOnSet(g, S)
<1> DEFINE d == [x \in S |-> g[x] - f[x]]
<1>1. \A x \in S : d[x] \in Nat /\ g[x] = f[x] + d[x]
  OBVIOUS
<1> HIDE DEF d
<1>2. SumFunctionOnSet(d, S) \in Nat
  BY <1>1, SumNat
<1>3. SumFunctionOnSet(g, S) = SumFunctionOnSet(f, S) + SumFunctionOnSet(d, S)
  BY <1>1, SumPlus
<1>4. SumFunctionOnSet(f, S) \in Int
  BY SumInt
<1> QED BY ONLY <1>2, <1>3, <1>4

-----------------------------------------------------------------------------
(* The money in mails and auctions.                                        *)

States == {"stored", "listed", "deleted"}
Live == {"stored", "listed"}
House == [AuctionIds -> AuctionEntry \cup {NoAuction}]

\* The money in a mail, counted if its receiver is in R and its state in S,
\* and in all mails of a box.
Worth(m, R, S) == IF m # NoMail /\ m.receiver \in R /\ m.state \in S THEN m.money ELSE 0
InBox(box, R, S) == SumFunction([k \in MailIds |-> Worth(box[k], R, S)])

\* The bid for an auction, and d for the auction itself, counted if the bidder
\* is in B, and that of all auctions.
AtStake(e, B, d) == IF e # NoAuction /\ e.bidder \in B THEN e.bid + d ELSE 0
InHouse(as, B, d) == SumFunction([a \in AuctionIds |-> AtStake(as[a], B, d)])

\* What is counted is a natural number.
LEMMA WorthType ==
  ASSUME NEW m \in MailEntry \cup {NoMail}, NEW R, NEW S
  PROVE  Worth(m, R, S) \in Nat
BY DEF Worth, MailEntry

\* See WorthType.
LEMMA AtStakeType ==
  ASSUME NEW e \in AuctionEntry \cup {NoAuction}, NEW B, NEW d \in Nat
  PROVE  AtStake(e, B, d) \in Nat
BY DEF AtStake, AuctionEntry

\* The sum of what is counted in a box.
LEMMA InBoxSum ==
  ASSUME NEW box \in Box, NEW R, NEW S
  PROVE  LET f == [k \in MailIds |-> Worth(box[k], R, S)]
         IN  /\ InBox(box, R, S) = SumFunctionOnSet(f, MailIds)
             /\ \A k \in MailIds : f[k] = Worth(box[k], R, S) /\ f[k] \in Nat
             /\ InBox(box, R, S) \in Nat
<1> DEFINE f == [k \in MailIds |-> Worth(box[k], R, S)]
<1>1. \A k \in MailIds : f[k] = Worth(box[k], R, S) /\ box[k] \in MailEntry \cup {NoMail}
  BY DEF Box
<1>2. InBox(box, R, S) = SumFunctionOnSet(f, MailIds)
  BY DEF InBox, SumFunction
<1> HIDE DEF f
<1>3. \A k \in MailIds : f[k] \in Nat
  BY <1>1, WorthType
<1>4. SumFunctionOnSet(f, MailIds) \in Nat
  BY <1>3, Constants, SumNat
<1> QED BY <1>1, <1>2, <1>3, <1>4 DEF f

\* The sum of what is counted of auctions.
LEMMA InHouseSum ==
  ASSUME NEW as \in House, NEW B, NEW d \in Nat
  PROVE  LET f == [a \in AuctionIds |-> AtStake(as[a], B, d)]
         IN  /\ InHouse(as, B, d) = SumFunctionOnSet(f, AuctionIds)
             /\ \A a \in AuctionIds : f[a] = AtStake(as[a], B, d) /\ f[a] \in Nat
             /\ InHouse(as, B, d) \in Nat
<1> DEFINE f == [a \in AuctionIds |-> AtStake(as[a], B, d)]
<1>1. \A a \in AuctionIds : f[a] = AtStake(as[a], B, d) /\ as[a] \in AuctionEntry \cup {NoAuction}
  BY DEF House
<1>2. InHouse(as, B, d) = SumFunctionOnSet(f, AuctionIds)
  BY DEF InHouse, SumFunction
<1> HIDE DEF f
<1>3. \A a \in AuctionIds : f[a] \in Nat
  BY <1>1, AtStakeType
<1>4. SumFunctionOnSet(f, AuctionIds) \in Nat
  BY <1>3, Constants, SumNat
<1> QED BY <1>1, <1>2, <1>3, <1>4 DEF f

\* A box with another mail in one place.
LEMMA InBoxWith ==
  ASSUME NEW box \in Box, NEW k \in MailIds, NEW m \in MailEntry \cup {NoMail}, NEW R, NEW S
  PROVE  InBox([box EXCEPT ![k] = m], R, S)
           = InBox(box, R, S) - Worth(box[k], R, S) + Worth(m, R, S)
<1> DEFINE new == [box EXCEPT ![k] = m]
           f == [j \in MailIds |-> Worth(box[j], R, S)]
           g == [j \in MailIds |-> Worth(new[j], R, S)]
<1>1. new \in Box /\ \A j \in MailIds : new[j] = IF j = k THEN m ELSE box[j]
  BY BoxWith DEF Box
<1> HIDE DEF new
<1>2. /\ InBox(box, R, S) = SumFunctionOnSet(f, MailIds)
      /\ \A j \in MailIds : f[j] = Worth(box[j], R, S) /\ f[j] \in Nat
  BY InBoxSum
<1>3. /\ InBox(new, R, S) = SumFunctionOnSet(g, MailIds)
      /\ \A j \in MailIds : g[j] = Worth(new[j], R, S) /\ g[j] \in Nat
  BY <1>1, InBoxSum
<1> HIDE DEF f, g
<1>4. ASSUME NEW j \in MailIds PROVE f[j] \in Int /\ g[j] \in Int
  <2>1. f[j] \in Nat /\ g[j] \in Nat
    BY <1>2, <1>3
  <2> QED BY <2>1
<1>5. \A j \in MailIds \ {k} : f[j] = g[j]
  BY <1>1, <1>2, <1>3
<1>6. SumFunctionOnSet(g, MailIds) = SumFunctionOnSet(f, MailIds) - f[k] + g[k]
  BY <1>4, <1>5, Constants, SumPoint
<1> QED BY <1>1, <1>2, <1>3, <1>6 DEF new

\* A house with another auction in one place.
LEMMA InHouseWith ==
  ASSUME NEW as \in House, NEW a \in AuctionIds, NEW e \in AuctionEntry \cup {NoAuction},
         NEW B, NEW d \in Nat
  PROVE  InHouse([as EXCEPT ![a] = e], B, d)
           = InHouse(as, B, d) - AtStake(as[a], B, d) + AtStake(e, B, d)
<1> DEFINE new == [as EXCEPT ![a] = e]
           f == [j \in AuctionIds |-> AtStake(as[j], B, d)]
           g == [j \in AuctionIds |-> AtStake(new[j], B, d)]
<1>1. new \in House /\ \A j \in AuctionIds : new[j] = IF j = a THEN e ELSE as[j]
  BY DEF House
<1> HIDE DEF new
<1>2. /\ InHouse(as, B, d) = SumFunctionOnSet(f, AuctionIds)
      /\ \A j \in AuctionIds : f[j] = AtStake(as[j], B, d) /\ f[j] \in Nat
  BY InHouseSum
<1>3. /\ InHouse(new, B, d) = SumFunctionOnSet(g, AuctionIds)
      /\ \A j \in AuctionIds : g[j] = AtStake(new[j], B, d) /\ g[j] \in Nat
  BY <1>1, InHouseSum
<1> HIDE DEF f, g
<1>4. ASSUME NEW j \in AuctionIds PROVE f[j] \in Int /\ g[j] \in Int
  <2>1. f[j] \in Nat /\ g[j] \in Nat
    BY <1>2, <1>3
  <2> QED BY <2>1
<1>5. \A j \in AuctionIds \ {a} : f[j] = g[j]
  BY <1>1, <1>2, <1>3
<1>6. SumFunctionOnSet(g, AuctionIds) = SumFunctionOnSet(f, AuctionIds) - f[a] + g[a]
  BY <1>4, <1>5, Constants, SumPoint
<1> QED BY <1>1, <1>2, <1>3, <1>6 DEF new

\* Purses after one has changed.
LEMMA PurseWith ==
  ASSUME NEW purses \in [Players -> Nat], NEW p \in Players, NEW n \in Nat
  PROVE  /\ SumFunction(purses) \in Nat
         /\ SumFunction([purses EXCEPT ![p] = n]) = SumFunction(purses) - purses[p] + n
<1> DEFINE new == [purses EXCEPT ![p] = n]
<1>1. new \in [Players -> Nat] /\ \A q \in Players : new[q] = IF q = p THEN n ELSE purses[q]
  OBVIOUS
<1> HIDE DEF new
<1>2. /\ SumFunction(new) = SumFunctionOnSet(new, Players)
      /\ SumFunction(purses) = SumFunctionOnSet(purses, Players)
  BY <1>1 DEF SumFunction
<1>3. SumFunctionOnSet(new, Players) = SumFunctionOnSet(purses, Players) - purses[p] + new[p]
  <2>1. \A q \in Players : new[q] \in Int /\ purses[q] \in Int
    BY <1>1
  <2>2. \A q \in Players \ {p} : purses[q] = new[q]
    BY <1>1
  <2> QED BY <2>1, <2>2, Constants, SumPoint
<1>4. SumFunctionOnSet(purses, Players) \in Nat
  BY Constants, SumNat
<1> QED BY <1>1, <1>2, <1>3, <1>4 DEF new

\* The money of some mails of a box.
LEMMA MoneyInBox ==
  ASSUME NEW box \in Box, NEW ks \in SUBSET MailIds, NEW R, NEW S,
         \A k \in MailIds : Worth(box[k], R, S) = IF k \in ks THEN box[k].money ELSE 0
  PROVE  MoneyIn(box, ks) = InBox(box, R, S)
<1> DEFINE f == [k \in ks |-> box[k].money]
           g == [k \in MailIds |-> Worth(box[k], R, S)]
<1>1. MoneyIn(box, ks) = SumFunctionOnSet(f, ks) /\ \A k \in ks : f[k] = box[k].money
  BY DEF MoneyIn, SumFunction
<1>2. /\ InBox(box, R, S) = SumFunctionOnSet(g, MailIds)
      /\ \A k \in MailIds : g[k] = Worth(box[k], R, S) /\ g[k] \in Nat
  BY InBoxSum
<1> HIDE DEF f, g
<1>3. \A k \in ks : f[k] \in Int /\ f[k] = g[k]
  BY <1>1, <1>2
<1>4. \A k \in MailIds \ ks : g[k] = 0
  BY <1>2
<1>5. SumFunctionOnSet(f, ks) = SumFunctionOnSet(g, MailIds)
  BY <1>3, <1>4, Constants, SumPart
<1> QED BY <1>1, <1>2, <1>5

\* The mails of a player that are deleted, and all mails.
LEMMA MoneyCounted ==
  ASSUME NEW box \in Box
  PROVE  /\ MoneyIn(box, {k \in MailIds : box[k] # NoMail}) = InBox(box, Players, States)
         /\ \A p : MoneyIn(box, Deleted(p, box)) = InBox(box, {p}, {"deleted"})
         /\ \A p : MoneyIn(box, {k \in MailIds : /\ box[k] # NoMail /\ box[k].receiver = p
                                                /\ box[k].state # "deleted"})
                     = InBox(box, {p}, Live)
<1>1. \A k \in MailIds : box[k] # NoMail => box[k].receiver \in Players /\ box[k].state \in States
  BY DEF Box, MailEntry, States
<1>2. MoneyIn(box, {k \in MailIds : box[k] # NoMail}) = InBox(box, Players, States)
  <2> DEFINE ks == {k \in MailIds : box[k] # NoMail}
  <2>1. \A k \in MailIds : Worth(box[k], Players, States) = IF k \in ks THEN box[k].money ELSE 0
    BY <1>1 DEF Worth
  <2>2. ks \in SUBSET MailIds
    OBVIOUS
  <2> HIDE DEF ks
  <2>3. MoneyIn(box, ks) = InBox(box, Players, States)
    BY <2>1, <2>2, MoneyInBox
  <2> QED BY <2>3 DEF ks
<1>3. ASSUME NEW p
      PROVE  MoneyIn(box, Deleted(p, box)) = InBox(box, {p}, {"deleted"})
  <2>1. \A k \in MailIds :
          Worth(box[k], {p}, {"deleted"}) = IF k \in Deleted(p, box) THEN box[k].money ELSE 0
    BY DEF Worth, Deleted
  <2> DEFINE ks == Deleted(p, box)
             R == {p}
             S == {"deleted"}
  <2>2. ks \in SUBSET MailIds
    BY DEF Deleted
  <2> HIDE DEF ks, R, S
  <2>3. \A k \in MailIds : Worth(box[k], R, S) = IF k \in ks THEN box[k].money ELSE 0
    BY <2>1 DEF ks, R, S
  <2>4. MoneyIn(box, ks) = InBox(box, R, S)
    BY <2>2, <2>3, MoneyInBox
  <2> QED BY <2>4 DEF ks, R, S
<1>4. ASSUME NEW p
      PROVE  MoneyIn(box, {k \in MailIds : /\ box[k] # NoMail /\ box[k].receiver = p
                                           /\ box[k].state # "deleted"}) = InBox(box, {p}, Live)
  <2> DEFINE ks == {k \in MailIds : /\ box[k] # NoMail /\ box[k].receiver = p
                                    /\ box[k].state # "deleted"}
  <2>1. \A k \in MailIds : Worth(box[k], {p}, Live) = IF k \in ks THEN box[k].money ELSE 0
    BY <1>1 DEF Worth, Live, States
  <2>2. ks \in SUBSET MailIds
    OBVIOUS
  <2> HIDE DEF ks
  <2>3. MoneyIn(box, ks) = InBox(box, {p}, Live)
    BY <2>1, <2>2, MoneyInBox
  <2> QED BY <2>3 DEF ks
<1> QED BY <1>2, <1>3, <1>4

\* Saving takes the deleted mails of a player out of the box.
LEMMA SavedSum ==
  ASSUME NEW box \in Box, NEW p, NEW R, NEW S
  PROVE  /\ SaveMail(p, box) \in Box
         /\ InBox(SaveMail(p, box), R, S)
              = InBox(box, R, S) - InBox(box, R \cap {p}, S \cap {"deleted"})
<1> DEFINE new == SaveMail(p, box)
           f == [k \in MailIds |-> Worth(new[k], R, S)]
           g == [k \in MailIds |-> Worth(box[k], R \cap {p}, S \cap {"deleted"})]
           h == [k \in MailIds |-> Worth(box[k], R, S)]
<1>1. /\ new \in Box
      /\ \A k \in MailIds : new[k] = IF k \in Deleted(p, box) THEN NoMail ELSE box[k]
  BY SavedMails DEF SaveMail
<1> HIDE DEF new
<1>2. /\ InBox(new, R, S) = SumFunctionOnSet(f, MailIds)
      /\ \A k \in MailIds : f[k] = Worth(new[k], R, S) /\ f[k] \in Nat
      /\ InBox(new, R, S) \in Nat
  BY <1>1, InBoxSum
<1>3. /\ InBox(box, R \cap {p}, S \cap {"deleted"}) = SumFunctionOnSet(g, MailIds)
      /\ \A k \in MailIds :
           g[k] = Worth(box[k], R \cap {p}, S \cap {"deleted"}) /\ g[k] \in Nat
      /\ InBox(box, R \cap {p}, S \cap {"deleted"}) \in Nat
  BY InBoxSum
<1>4. /\ InBox(box, R, S) = SumFunctionOnSet(h, MailIds)
      /\ \A k \in MailIds : h[k] = Worth(box[k], R, S) /\ h[k] \in Nat
  BY InBoxSum
<1> HIDE DEF f, g, h
<1>5. ASSUME NEW k \in MailIds
      PROVE  f[k] \in Int /\ g[k] \in Int /\ h[k] = f[k] + g[k]
  <2>1. CASE k \in Deleted(p, box)
    <3>1. f[k] = 0
      BY <1>1, <1>2, <2>1 DEF Worth
    <3>2. g[k] = h[k]
      BY <1>3, <1>4, <2>1 DEF Worth, Deleted
    <3> QED BY <1>4, <3>1, <3>2
  <2>2. CASE k \notin Deleted(p, box)
    <3>1. f[k] = h[k]
      BY <1>1, <1>2, <1>4, <2>2
    <3>2. g[k] = 0
      BY <1>3, <2>2 DEF Worth, Deleted
    <3> QED BY <1>4, <3>1, <3>2
  <2> QED BY <2>1, <2>2
<1>6. SumFunctionOnSet(h, MailIds) = SumFunctionOnSet(f, MailIds) + SumFunctionOnSet(g, MailIds)
  BY <1>5, Constants, SumPlus
<1> QED BY <1>1, <1>2, <1>3, <1>4, <1>6 DEF new

\* Saving takes what the deleted mails hold from all mails, and nothing from
\* those that are not deleted.
LEMMA SavedMoney ==
  ASSUME NEW box \in Box, NEW p \in Players
  PROVE  /\ InBox(SaveMail(p, box), Players, States)
              = InBox(box, Players, States) - MoneyIn(box, Deleted(p, box))
         /\ MoneyIn(box, Deleted(p, box)) \in Nat
         /\ \A q : InBox(SaveMail(p, box), {q}, Live) = InBox(box, {q}, Live)
<1>1. Players \cap {p} = {p} /\ States \cap {"deleted"} = {"deleted"}
  BY DEF States
<1>2. MoneyIn(box, Deleted(p, box)) = InBox(box, {p}, {"deleted"})
  BY MoneyCounted
<1>3. InBox(box, {p}, {"deleted"}) \in Nat
  BY InBoxSum
<1>4. ASSUME NEW q
      PROVE  InBox(SaveMail(p, box), {q}, Live) = InBox(box, {q}, Live)
  <2> DEFINE Q == {q}
             R == Q \cap {p}
             T == Live
             f == [k \in MailIds |-> Worth(box[k], R, {})]
  <2>1. T \cap {"deleted"} = {}
    BY DEF Live
  <2>2. InBox(SaveMail(p, box), Q, T) = InBox(box, Q, T) - InBox(box, R, {})
    <3> HIDE DEF Q, T
    <3>1. InBox(SaveMail(p, box), Q, T)
            = InBox(box, Q, T) - InBox(box, Q \cap {p}, T \cap {"deleted"})
      BY SavedSum
    <3> QED BY <2>1, <3>1
  <2>3. InBox(box, R, {}) = SumFunctionOnSet(f, MailIds)
    BY InBoxSum
  <2>4. \A k \in MailIds : f[k] = 0
    BY DEF Worth
  <2> HIDE DEF f
  <2>5. InBox(box, R, {}) = 0
    BY <2>3, <2>4, Constants, SumZeros
  <2>6. InBox(box, Q, T) \in Nat
    BY InBoxSum
  <2> QED BY <2>2, <2>5, <2>6
<1>5. InBox(SaveMail(p, box), Players, States)
        = InBox(box, Players, States) - MoneyIn(box, Deleted(p, box))
  BY <1>1, <1>2, SavedSum
<1> QED BY <1>2, <1>3, <1>4, <1>5

\* What two boxes hold, place by place.
LEMMA InBoxCompare ==
  ASSUME NEW box \in Box, NEW new \in Box, NEW R, NEW S, NEW T
  PROVE  /\ (\A k \in MailIds : Worth(new[k], R, S) = Worth(box[k], R, T))
              => InBox(new, R, S) = InBox(box, R, T)
         /\ (\A k \in MailIds : Worth(new[k], R, S) >= Worth(box[k], R, T))
              => InBox(new, R, S) >= InBox(box, R, T)
<1> DEFINE f == [k \in MailIds |-> Worth(box[k], R, T)]
           g == [k \in MailIds |-> Worth(new[k], R, S)]
<1>1. /\ InBox(box, R, T) = SumFunctionOnSet(f, MailIds)
      /\ \A k \in MailIds : f[k] = Worth(box[k], R, T) /\ f[k] \in Nat
      /\ InBox(box, R, T) \in Nat
  BY InBoxSum
<1>2. /\ InBox(new, R, S) = SumFunctionOnSet(g, MailIds)
      /\ \A k \in MailIds : g[k] = Worth(new[k], R, S) /\ g[k] \in Nat
      /\ InBox(new, R, S) \in Nat
  BY InBoxSum
<1> HIDE DEF f, g
<1>3. ASSUME \A k \in MailIds : Worth(new[k], R, S) = Worth(box[k], R, T)
      PROVE  InBox(new, R, S) = InBox(box, R, T)
  <2>1. \A k \in MailIds : f[k] = g[k]
    BY <1>1, <1>2, <1>3
  <2> QED BY <1>1, <1>2, <2>1, Constants, SumSame
<1>4. ASSUME \A k \in MailIds : Worth(new[k], R, S) >= Worth(box[k], R, T)
      PROVE  InBox(new, R, S) >= InBox(box, R, T)
  <2>1. ASSUME NEW k \in MailIds PROVE f[k] \in Int /\ g[k] \in Int /\ f[k] <= g[k]
    <3>1. f[k] \in Nat /\ g[k] \in Nat /\ g[k] >= f[k]
      BY <1>1, <1>2, <1>4
    <3> QED BY ONLY <3>1
  <2>2. SumFunctionOnSet(f, MailIds) <= SumFunctionOnSet(g, MailIds)
    BY <2>1, Constants, SumMore
  <2> QED BY <1>1, <1>2, <2>2
<1> QED BY <1>3, <1>4

\* Relisting changes no mail's money.
LEMMA RelistedMoney ==
  ASSUME NEW box \in Box, NEW p, NEW s \in Live
  PROVE  /\ Relisted(p, box, s) \in Box
         /\ InBox(Relisted(p, box, s), Players, States) = InBox(box, Players, States)
         /\ \A q : InBox(Relisted(p, box, s), {q}, Live) >= InBox(box, {q}, Live)
<1> DEFINE new == Relisted(p, box, s)
<1>1. new \in Box
  BY RelistedMails DEF Live
<1>2. ASSUME NEW k \in MailIds, box[k] # NoMail
      PROVE  /\ new[k] # NoMail /\ new[k].receiver = box[k].receiver
             /\ new[k].money = box[k].money /\ box[k].money \in Nat
             /\ new[k].state \in States /\ box[k].state \in States
             /\ box[k].state \in Live => new[k].state \in Live
  <2>1. box[k] \in MailEntry
    BY <1>2 DEF Box
  <2>2. /\ [box[k] EXCEPT !.state = s] \in MailEntry
        /\ [box[k] EXCEPT !.state = s].receiver = box[k].receiver
        /\ [box[k] EXCEPT !.state = s].money = box[k].money
        /\ [box[k] EXCEPT !.state = s].state = s
    BY <2>1 DEF MailEntry, Live
  <2>3. new[k] = [box[k] EXCEPT !.state = s] \/ new[k] = box[k]
    BY DEF Relisted
  <2> HIDE DEF new
  <2>4. new[k] \in MailEntry
    BY <2>1, <2>2, <2>3
  <2> QED BY <1>2, <2>1, <2>2, <2>3, <2>4, Constants DEF MailEntry, States, Live
<1>3. \A k \in MailIds : box[k] = NoMail => new[k] = NoMail
  BY DEF Relisted
<1> HIDE DEF new
<1>4. InBox(new, Players, States) = InBox(box, Players, States)
  <2>1. \A k \in MailIds : Worth(new[k], Players, States) = Worth(box[k], Players, States)
    BY <1>2, <1>3 DEF Worth
  <2> QED BY <1>1, <2>1, InBoxCompare
<1>5. ASSUME NEW q
      PROVE  InBox(new, {q}, Live) >= InBox(box, {q}, Live)
  <2> DEFINE R == {q}
  <2>1. ASSUME NEW k \in MailIds
        PROVE  Worth(new[k], R, Live) >= Worth(box[k], R, Live)
    <3>1. CASE box[k] = NoMail
      BY <1>3, <3>1 DEF Worth
    <3>2. CASE box[k] # NoMail
      <4>1. /\ new[k] # NoMail /\ new[k].receiver = box[k].receiver
            /\ new[k].money = box[k].money /\ box[k].money \in Nat
            /\ box[k].state \in Live => new[k].state \in Live
        BY <1>2, <3>2
      <4> HIDE DEF R
      <4> QED BY <3>2, <4>1 DEF Worth
    <3> QED BY <3>1, <3>2
  <2> HIDE DEF R
  <2>2. InBox(new, R, Live) >= InBox(box, R, Live)
    BY <1>1, <2>1, InBoxCompare
  <2> QED BY <2>2 DEF R
<1> QED BY <1>1, <1>4, <1>5 DEF new

\* The places of some drafts.
Placed(new, drafts) ==
  /\ new \in [MailIds -> drafts \cup {NoMail}]
  /\ \A d \in drafts : \E k \in MailIds : \A j \in MailIds : new[j] = d <=> j = k

\* What SendMailTo adds.
LEMMA MailedSum ==
  ASSUME NEW kept \in Box, NEW drafts \in SUBSET MailEntry, SendMailTo(kept, drafts)
  PROVE  \E new \in Box :
           /\ Placed(new, drafts)
           /\ \A R, S : InBox(mails', R, S) = InBox(kept, R, S) + InBox(new, R, S)
<1>1. PICK new \in [MailIds -> drafts \cup {NoMail}] :
        /\ \A d \in drafts : \E k \in MailIds : \A j \in MailIds : new[j] = d <=> j = k
        /\ \A k \in MailIds : new[k] # NoMail => kept[k] = NoMail
        /\ mails' = [k \in MailIds |-> IF new[k] = NoMail THEN kept[k] ELSE new[k]]
  BY DEF SendMailTo
<1>2. new \in Box /\ Placed(new, drafts)
  BY <1>1 DEF Box, Placed
<1>3. mails' \in Box
  BY <1>1 DEF Box
<1>4. ASSUME NEW R, NEW S
      PROVE  InBox(mails', R, S) = InBox(kept, R, S) + InBox(new, R, S)
  <2> DEFINE f == [k \in MailIds |-> Worth(kept[k], R, S)]
             g == [k \in MailIds |-> Worth(new[k], R, S)]
             h == [k \in MailIds |-> Worth(mails'[k], R, S)]
  <2>1. /\ InBox(kept, R, S) = SumFunctionOnSet(f, MailIds)
        /\ \A k \in MailIds : f[k] = Worth(kept[k], R, S) /\ f[k] \in Nat
    BY InBoxSum
  <2>2. /\ InBox(new, R, S) = SumFunctionOnSet(g, MailIds)
        /\ \A k \in MailIds : g[k] = Worth(new[k], R, S) /\ g[k] \in Nat
    BY <1>2, InBoxSum
  <2>3. /\ InBox(mails', R, S) = SumFunctionOnSet(h, MailIds)
        /\ \A k \in MailIds : h[k] = Worth(mails'[k], R, S) /\ h[k] \in Nat
    BY ONLY <1>3, InBoxSum
  <2> HIDE DEF f, g, h
  <2>4. ASSUME NEW k \in MailIds
        PROVE  f[k] \in Int /\ g[k] \in Int /\ h[k] = f[k] + g[k]
    <3>1. f[k] \in Nat /\ g[k] \in Nat
      BY <2>1, <2>2
    <3>2. CASE new[k] = NoMail
      <4>1. g[k] = 0
        BY <2>2, <3>2 DEF Worth
      <4>2. h[k] = f[k]
        BY <1>1, <2>1, <2>3, <3>2
      <4> QED BY <3>1, <4>1, <4>2
    <3>3. CASE new[k] # NoMail
      <4>1. f[k] = 0
        BY <1>1, <2>1, <3>3 DEF Worth
      <4>2. h[k] = g[k]
        BY <1>1, <2>2, <2>3, <3>3
      <4> QED BY <3>1, <4>1, <4>2
    <3> QED BY <3>2, <3>3
  <2>5. SumFunctionOnSet(h, MailIds)
          = SumFunctionOnSet(f, MailIds) + SumFunctionOnSet(g, MailIds)
    BY <2>4, Constants, SumPlus
  <2> QED BY <2>1, <2>2, <2>3, <2>5
<1> QED BY <1>2, <1>4

\* A draft fills one place.
LEMMA PlacedOne ==
  ASSUME NEW drafts \in SUBSET MailEntry, NEW new \in Box, Placed(new, drafts),
         NEW d \in drafts
  PROVE  \E rest \in Box :
           /\ Placed(rest, drafts \ {d})
           /\ \A R, S : InBox(new, R, S) = InBox(rest, R, S) + Worth(d, R, S)
<1>1. PICK k \in MailIds : \A j \in MailIds : new[j] = d <=> j = k
  BY DEF Placed
<1> DEFINE rest == [new EXCEPT ![k] = NoMail]
<1>2. rest \in Box /\ \A j \in MailIds : rest[j] = IF j = k THEN NoMail ELSE new[j]
  BY BoxWith DEF Box
<1>3. d \in MailEntry /\ d # NoMail /\ new[k] = d
  BY <1>1, Constants
<1>4. ASSUME NEW R, NEW S
      PROVE  InBox(new, R, S) = InBox(rest, R, S) + Worth(d, R, S)
  <2>1. InBox(rest, R, S) = InBox(new, R, S) - Worth(new[k], R, S) + Worth(NoMail, R, S)
    BY InBoxWith
  <2>2. Worth(NoMail, R, S) = 0
    BY DEF Worth
  <2>3. Worth(new[k], R, S) \in Nat /\ InBox(new, R, S) \in Nat
    BY <1>3, WorthType, InBoxSum
  <2> QED BY ONLY <1>3, <2>1, <2>2, <2>3
<1> HIDE DEF rest
<1>5. Placed(rest, drafts \ {d})
  <2>1. rest \in [MailIds -> (drafts \ {d}) \cup {NoMail}]
    <3>1. \A j \in MailIds : rest[j] \in (drafts \ {d}) \cup {NoMail}
      BY <1>1, <1>2 DEF Placed
    <3> QED BY <1>2, <3>1 DEF Box
  <2>2. ASSUME NEW c \in drafts \ {d}
        PROVE  \E i \in MailIds : \A j \in MailIds : rest[j] = c <=> j = i
    <3>1. PICK i \in MailIds : \A j \in MailIds : new[j] = c <=> j = i
      BY DEF Placed
    <3>2. i # k /\ c # NoMail
      BY <1>3, <3>1, Constants
    <3>3. \A j \in MailIds : rest[j] = c <=> j = i
      BY <1>2, <3>1, <3>2
    <3> QED BY <3>3
  <2> QED BY <2>1, <2>2 DEF Placed
<1> QED BY <1>2, <1>4, <1>5

\* No draft fills no place.
LEMMA PlacedNone ==
  ASSUME NEW new \in Box, Placed(new, {})
  PROVE  \A R, S : InBox(new, R, S) = 0
<1> SUFFICES ASSUME NEW R, NEW S PROVE InBox(new, R, S) = 0
  OBVIOUS
<1> DEFINE f == [k \in MailIds |-> Worth(new[k], R, S)]
<1>1. /\ InBox(new, R, S) = SumFunctionOnSet(f, MailIds)
      /\ \A k \in MailIds : f[k] = Worth(new[k], R, S)
  BY InBoxSum
<1> HIDE DEF f
<1>2. \A k \in MailIds : new[k] = NoMail
  BY DEF Placed
<1>3. \A k \in MailIds : f[k] = 0
  BY <1>1, <1>2 DEF Worth
<1> QED BY <1>1, <1>3, Constants, SumZeros

\* What is in all mails, what a player has in his, what is in all auctions,
\* and what a player has bid.
AllMail(box) == InBox(box, Players, States)
MailFor(q, box) == InBox(box, {q}, Live)
AllBids(as) == InHouse(as, Players \cup {NoPlayer}, Deposit)
BidsOf(q, as) == InHouse(as, {q}, 0)

\* The part of one mail and of one auction in them.
Cash(m) == IF m = NoMail THEN 0 ELSE m.money
CashFor(q, m) ==
  IF m # NoMail /\ m.receiver = q /\ m.state \in Live THEN m.money ELSE 0
Pot(e) == IF e = NoAuction THEN 0 ELSE e.bid + Deposit
PotFor(q, e) == IF e # NoAuction /\ e.bidder = q THEN e.bid ELSE 0

\* A part is what is counted of one mail.
LEMMA CashCounted ==
  ASSUME NEW m \in MailEntry \cup {NoMail}
  PROVE  /\ Worth(m, Players, States) = Cash(m) /\ Cash(m) \in Nat
         /\ \A q : Worth(m, {q}, Live) = CashFor(q, m) /\ CashFor(q, m) \in Nat
<1>1. m # NoMail => m.receiver \in Players /\ m.state \in States /\ m.money \in Nat
  BY DEF MailEntry, States
<1> QED BY <1>1 DEF Worth, Cash, CashFor

\* A part is what is counted of one auction.
LEMMA PotCounted ==
  ASSUME NEW e \in AuctionEntry \cup {NoAuction}
  PROVE  /\ AtStake(e, Players \cup {NoPlayer}, Deposit) = Pot(e) /\ Pot(e) \in Nat
         /\ \A q : AtStake(e, {q}, 0) = PotFor(q, e) /\ PotFor(q, e) \in Nat
<1>1. e # NoAuction => e.bidder \in Players \cup {NoPlayer} /\ e.bid \in Nat
  BY DEF AuctionEntry
<1> QED BY <1>1, Constants DEF AtStake, Pot, PotFor

\* The sums are natural numbers.
LEMMA SumTypes ==
  /\ \A box \in Box : AllMail(box) \in Nat /\ \A q : MailFor(q, box) \in Nat
  /\ \A as \in House : AllBids(as) \in Nat /\ \A q : BidsOf(q, as) \in Nat
<1>1. \A box \in Box : AllMail(box) \in Nat /\ \A q : MailFor(q, box) \in Nat
  BY InBoxSum DEF AllMail, MailFor
<1>2. \A as \in House : AllBids(as) \in Nat /\ \A q : BidsOf(q, as) \in Nat
  BY InHouseSum, Constants DEF AllBids, BidsOf
<1> QED BY <1>1, <1>2

\* The sums with another mail in one place.
LEMMA MailPut ==
  ASSUME NEW box \in Box, NEW k \in MailIds, NEW m \in MailEntry \cup {NoMail}
  PROVE  /\ [box EXCEPT ![k] = m] \in Box
         /\ AllMail([box EXCEPT ![k] = m]) = AllMail(box) - Cash(box[k]) + Cash(m)
         /\ \A q : MailFor(q, [box EXCEPT ![k] = m])
                     = MailFor(q, box) - CashFor(q, box[k]) + CashFor(q, m)
<1> DEFINE new == [box EXCEPT ![k] = m]
<1>1. \A R, S : InBox(new, R, S) = InBox(box, R, S) - Worth(box[k], R, S) + Worth(m, R, S)
  BY InBoxWith
<1>2. new \in Box /\ box[k] \in MailEntry \cup {NoMail}
  BY BoxWith DEF Box
<1>3. /\ Worth(box[k], Players, States) = Cash(box[k]) /\ Worth(m, Players, States) = Cash(m)
      /\ \A q : Worth(box[k], {q}, Live) = CashFor(q, box[k]) /\ Worth(m, {q}, Live) = CashFor(q, m)
  BY <1>2, CashCounted
<1> HIDE DEF new
<1>4. AllMail(new) = AllMail(box) - Cash(box[k]) + Cash(m)
  BY <1>1, <1>3 DEF AllMail
<1>5. \A q : MailFor(q, new) = MailFor(q, box) - CashFor(q, box[k]) + CashFor(q, m)
  BY <1>1, <1>3 DEF MailFor
<1> QED BY <1>2, <1>4, <1>5 DEF new

\* The sums with another auction in one place.
LEMMA BidPut ==
  ASSUME NEW as \in House, NEW a \in AuctionIds, NEW e \in AuctionEntry \cup {NoAuction}
  PROVE  /\ [as EXCEPT ![a] = e] \in House
         /\ AllBids([as EXCEPT ![a] = e]) = AllBids(as) - Pot(as[a]) + Pot(e)
         /\ \A q : BidsOf(q, [as EXCEPT ![a] = e])
                     = BidsOf(q, as) - PotFor(q, as[a]) + PotFor(q, e)
<1> DEFINE new == [as EXCEPT ![a] = e]
           all == Players \cup {NoPlayer}
<1>1. \A B : \A d \in Nat :
        InHouse(new, B, d) = InHouse(as, B, d) - AtStake(as[a], B, d) + AtStake(e, B, d)
  BY InHouseWith
<1>2. Deposit \in Nat /\ 0 \in Nat
  BY Constants
<1>3. new \in House /\ as[a] \in AuctionEntry \cup {NoAuction}
  BY DEF House
<1>4. /\ AtStake(as[a], all, Deposit) = Pot(as[a]) /\ AtStake(e, all, Deposit) = Pot(e)
      /\ \A q : AtStake(as[a], {q}, 0) = PotFor(q, as[a]) /\ AtStake(e, {q}, 0) = PotFor(q, e)
  BY <1>3, PotCounted
<1> HIDE DEF new
<1>5. AllBids(new) = AllBids(as) - Pot(as[a]) + Pot(e)
  BY <1>1, <1>2, <1>4 DEF AllBids
<1>6. \A q : BidsOf(q, new) = BidsOf(q, as) - PotFor(q, as[a]) + PotFor(q, e)
  BY <1>1, <1>2, <1>4 DEF BidsOf
<1> QED BY <1>3, <1>5, <1>6 DEF new

\* The sums after SaveMail.
LEMMA MailSaved ==
  ASSUME NEW box \in Box, NEW p \in Players
  PROVE  /\ SaveMail(p, box) \in Box
         /\ AllMail(SaveMail(p, box)) = AllMail(box) - MoneyIn(box, Deleted(p, box))
         /\ MoneyIn(box, Deleted(p, box)) \in Nat
         /\ \A q : MailFor(q, SaveMail(p, box)) = MailFor(q, box)
BY SavedMoney, SavedMails DEF AllMail, MailFor

\* The sums after relisting.
LEMMA MailRelisted ==
  ASSUME NEW box \in Box, NEW p, NEW s \in Live
  PROVE  /\ Relisted(p, box, s) \in Box
         /\ AllMail(Relisted(p, box, s)) = AllMail(box)
         /\ \A q : MailFor(q, Relisted(p, box, s)) >= MailFor(q, box)
BY RelistedMoney DEF AllMail, MailFor

\* One draft more in the sums.
LEMMA PlacedMore ==
  ASSUME NEW drafts \in SUBSET MailEntry, NEW new \in Box, Placed(new, drafts),
         NEW d \in drafts
  PROVE  \E rest \in Box :
           /\ Placed(rest, drafts \ {d})
           /\ AllMail(new) = AllMail(rest) + Cash(d)
           /\ \A q : MailFor(q, new) = MailFor(q, rest) + CashFor(q, d)
<1>1. PICK rest \in Box :
        /\ Placed(rest, drafts \ {d})
        /\ \A R, S : InBox(new, R, S) = InBox(rest, R, S) + Worth(d, R, S)
  BY PlacedOne
<1>2. /\ Worth(d, Players, States) = Cash(d)
      /\ \A q : Worth(d, {q}, Live) = CashFor(q, d)
  BY CashCounted
<1> QED BY <1>1, <1>2 DEF AllMail, MailFor

\* No draft in the sums.
LEMMA PlacedLast ==
  ASSUME NEW new \in Box, NEW drafts, drafts = {}, Placed(new, drafts)
  PROVE  AllMail(new) = 0 /\ \A q : MailFor(q, new) = 0
BY PlacedNone DEF AllMail, MailFor

\* The sums after SendMailTo.
LEMMA MailSent ==
  ASSUME NEW kept \in Box, NEW drafts \in SUBSET MailEntry, SendMailTo(kept, drafts)
  PROVE  \E new \in Box :
           /\ Placed(new, drafts)
           /\ AllMail(mails') = AllMail(kept) + AllMail(new)
           /\ \A q : MailFor(q, mails') = MailFor(q, kept) + MailFor(q, new)
<1>1. PICK new \in Box :
        /\ Placed(new, drafts)
        /\ \A R, S : InBox(mails', R, S) = InBox(kept, R, S) + InBox(new, R, S)
  BY MailedSum
<1> QED BY <1>1 DEF AllMail, MailFor

\* The sums after sending nothing, one mail, two and three.
LEMMA SentNone ==
  ASSUME NEW kept \in Box, SendMailTo(kept, {})
  PROVE  /\ AllMail(mails') = AllMail(kept)
         /\ \A q : MailFor(q, mails') = MailFor(q, kept)
<1> DEFINE drafts == {}
<1>1. drafts \in SUBSET MailEntry /\ SendMailTo(kept, drafts)
  OBVIOUS
<1>2. PICK new \in Box :
        /\ Placed(new, drafts)
        /\ AllMail(mails') = AllMail(kept) + AllMail(new)
        /\ \A q : MailFor(q, mails') = MailFor(q, kept) + MailFor(q, new)
  <2> HIDE DEF drafts
  <2> QED BY <1>1, MailSent
<1>3. AllMail(new) = 0 /\ \A q : MailFor(q, new) = 0
  BY <1>2, PlacedLast
<1> QED BY <1>2, <1>3, SumTypes

\* See SentNone.
LEMMA SentOne ==
  ASSUME NEW kept \in Box, NEW drafts, NEW d \in MailEntry, drafts = {d},
         SendMailTo(kept, drafts)
  PROVE  /\ AllMail(mails') = AllMail(kept) + Cash(d)
         /\ \A q : MailFor(q, mails') = MailFor(q, kept) + CashFor(q, d)
<1>1. PICK new \in Box :
        /\ Placed(new, drafts)
        /\ AllMail(mails') = AllMail(kept) + AllMail(new)
        /\ \A q : MailFor(q, mails') = MailFor(q, kept) + MailFor(q, new)
  BY MailSent
<1>2. PICK rest \in Box :
        /\ Placed(rest, drafts \ {d})
        /\ AllMail(new) = AllMail(rest) + Cash(d)
        /\ \A q : MailFor(q, new) = MailFor(q, rest) + CashFor(q, d)
  BY <1>1, PlacedMore
<1>3. AllMail(rest) = 0 /\ \A q : MailFor(q, rest) = 0
  <2> DEFINE left == drafts \ {d}
  <2>1. left = {} /\ Placed(rest, left)
    BY <1>2
  <2> HIDE DEF left
  <2> QED BY <2>1, PlacedLast
<1>4. /\ AllMail(kept) \in Nat /\ Cash(d) \in Nat
      /\ \A q : MailFor(q, kept) \in Nat /\ CashFor(q, d) \in Nat
  BY SumTypes, CashCounted
<1> QED BY ONLY <1>1, <1>2, <1>3, <1>4

\* See SentNone.
LEMMA SentTwo ==
  ASSUME NEW kept \in Box, NEW drafts, NEW c \in MailEntry, NEW d \in MailEntry,
         c # d, drafts = {c, d}, SendMailTo(kept, drafts)
  PROVE  /\ AllMail(mails') = AllMail(kept) + Cash(c) + Cash(d)
         /\ \A q : MailFor(q, mails') = MailFor(q, kept) + CashFor(q, c) + CashFor(q, d)
<1>1. PICK new \in Box :
        /\ Placed(new, drafts)
        /\ AllMail(mails') = AllMail(kept) + AllMail(new)
        /\ \A q : MailFor(q, mails') = MailFor(q, kept) + MailFor(q, new)
  BY MailSent
<1>2. PICK rest \in Box :
        /\ Placed(rest, drafts \ {c})
        /\ AllMail(new) = AllMail(rest) + Cash(c)
        /\ \A q : MailFor(q, new) = MailFor(q, rest) + CashFor(q, c)
  BY <1>1, PlacedMore
<1> DEFINE left == drafts \ {c}
<1>3. left = {d} /\ Placed(rest, left) /\ left \in SUBSET MailEntry
  BY <1>2
<1> HIDE DEF left
<1>4. PICK none \in Box :
        /\ Placed(none, left \ {d})
        /\ AllMail(rest) = AllMail(none) + Cash(d)
        /\ \A q : MailFor(q, rest) = MailFor(q, none) + CashFor(q, d)
  BY <1>3, PlacedMore
<1>5. AllMail(none) = 0 /\ \A q : MailFor(q, none) = 0
  <2> DEFINE last == left \ {d}
  <2>1. last = {} /\ Placed(none, last)
    BY <1>3, <1>4
  <2> HIDE DEF last
  <2> QED BY <2>1, PlacedLast
<1>6. /\ AllMail(kept) \in Nat /\ Cash(c) \in Nat /\ Cash(d) \in Nat
      /\ \A q : /\ MailFor(q, kept) \in Nat
               /\ CashFor(q, c) \in Nat /\ CashFor(q, d) \in Nat
  BY SumTypes, CashCounted
<1> QED BY ONLY <1>1, <1>2, <1>4, <1>5, <1>6

\* See SentNone.
LEMMA SentThree ==
  ASSUME NEW kept \in Box, NEW drafts,
         NEW b \in MailEntry, NEW c \in MailEntry, NEW d \in MailEntry,
         b # c, b # d, c # d, drafts = {b, c, d}, SendMailTo(kept, drafts)
  PROVE  /\ AllMail(mails') = AllMail(kept) + Cash(b) + Cash(c) + Cash(d)
         /\ \A q : MailFor(q, mails')
                     = MailFor(q, kept) + CashFor(q, b) + CashFor(q, c) + CashFor(q, d)
<1>1. PICK new \in Box :
        /\ Placed(new, drafts)
        /\ AllMail(mails') = AllMail(kept) + AllMail(new)
        /\ \A q : MailFor(q, mails') = MailFor(q, kept) + MailFor(q, new)
  BY MailSent
<1>2. PICK rest \in Box :
        /\ Placed(rest, drafts \ {b})
        /\ AllMail(new) = AllMail(rest) + Cash(b)
        /\ \A q : MailFor(q, new) = MailFor(q, rest) + CashFor(q, b)
  BY <1>1, PlacedMore
<1> DEFINE left == drafts \ {b}
<1>3. left = {c, d} /\ Placed(rest, left) /\ left \in SUBSET MailEntry
  BY <1>2
<1> HIDE DEF left
<1>4. PICK less \in Box :
        /\ Placed(less, left \ {c})
        /\ AllMail(rest) = AllMail(less) + Cash(c)
        /\ \A q : MailFor(q, rest) = MailFor(q, less) + CashFor(q, c)
  BY <1>3, PlacedMore
<1> DEFINE last == left \ {c}
<1>5. last = {d} /\ Placed(less, last) /\ last \in SUBSET MailEntry
  BY <1>3, <1>4
<1> HIDE DEF last
<1>6. PICK none \in Box :
        /\ Placed(none, last \ {d})
        /\ AllMail(less) = AllMail(none) + Cash(d)
        /\ \A q : MailFor(q, less) = MailFor(q, none) + CashFor(q, d)
  BY <1>5, PlacedMore
<1>7. AllMail(none) = 0 /\ \A q : MailFor(q, none) = 0
  <2> DEFINE end == last \ {d}
  <2>1. end = {} /\ Placed(none, end)
    BY <1>5, <1>6
  <2> HIDE DEF end
  <2> QED BY <2>1, PlacedLast
<1>8. /\ AllMail(kept) \in Nat /\ Cash(b) \in Nat /\ Cash(c) \in Nat /\ Cash(d) \in Nat
      /\ \A q : /\ MailFor(q, kept) \in Nat /\ CashFor(q, b) \in Nat
               /\ CashFor(q, c) \in Nat /\ CashFor(q, d) \in Nat
  BY SumTypes, CashCounted
<1> QED BY ONLY <1>1, <1>2, <1>4, <1>6, <1>7, <1>8

-----------------------------------------------------------------------------
(* What is kept, and what a step may change.                               *)

\* An auction without a bidder has no bid, nobody bids for his own, and a bid is
\* at least what the owner starts with.  Nobody sends a mail to himself, and the
\* auction house asks nothing for one.
FairEntry(e) ==
  /\ e.bidder # e.owner
  /\ IF e.bidder = NoPlayer THEN e.bid = 0 ELSE e.bid >= e.startbid
FairMail(m) == m.sender # m.receiver /\ (m.sender = NoPlayer => m.COD = 0)

FairHouse(as) == \A a \in AuctionIds : as[a] # NoAuction => FairEntry(as[a])
FairBox(box) == \A k \in MailIds : box[k] # NoMail => FairMail(box[k])

Grand(purses, box, as, s) == SumFunction(purses) + AllMail(box) + AllBids(as) + s
Fortune(q, purses, box, as) == purses[q] + BidsOf(q, as) + MailFor(q, box)

LedgerInv ==
  /\ sunk \in Nat
  /\ FairHouse(auctions)
  /\ FairBox(mails)
  /\ Grand(money, mails, auctions, sunk) = Total
MoneyInv == TypeInv /\ LedgerInv

\* What a step keeps: the sum of all money, and of what the players of S have.
Balanced ==
  /\ sunk' \in Nat
  /\ FairHouse(auctions')
  /\ FairBox(mails')
  /\ Grand(money', mails', auctions', sunk') = Grand(money, mails, auctions, sunk)
Poorer(q) == Fortune(q, money', mails', auctions') < Fortune(q, money, mails, auctions)

\* The parts of the sums.
LEMMA Parts ==
  ASSUME TypeOK
  PROVE  /\ mails \in Box /\ auctions \in House /\ money \in [Players -> Nat]
         /\ SumFunction(money) \in Nat /\ AllMail(mails) \in Nat /\ AllBids(auctions) \in Nat
         /\ \A q \in Players : /\ money[q] \in 0..MaxMoney /\ money[q] \in Nat
                               /\ MailFor(q, mails) \in Nat /\ BidsOf(q, auctions) \in Nat
<1>1. mails \in Box /\ auctions \in House /\ money \in [Players -> 0..MaxMoney]
  BY DEF TypeOK, Box, House
<1>2. money \in [Players -> Nat]
  BY <1>1, Constants
<1>3. SumFunction(money) \in Nat
  <2>1. SumFunction(money) = SumFunctionOnSet(money, Players)
    BY <1>2 DEF SumFunction
  <2>2. \A q \in Players : money[q] \in Nat
    BY <1>2
  <2> QED BY <2>1, <2>2, Constants, SumNat
<1> QED BY <1>1, <1>2, <1>3, SumTypes, Constants

\* The purses after paying.
LEMMA PayMoney ==
  ASSUME TypeOK, NEW p \in Players, NEW amount \in Nat, amount <= money[p], Pay(p, amount)
  PROVE  /\ SumFunction(money') = SumFunction(money) - amount
         /\ money'[p] = money[p] - amount
         /\ \A q \in Players \ {p} : money'[q] = money[q]
<1>1. money \in [Players -> Nat] /\ money[p] \in Nat /\ SumFunction(money) \in Nat
  BY Parts
<1> DEFINE n == money[p] - amount
<1>2. n \in Nat /\ n = money[p] - amount /\ money' = [money EXCEPT ![p] = n]
  BY <1>1 DEF Pay
<1> HIDE DEF n
<1>3. SumFunction(money') = SumFunction(money) - money[p] + n
  BY <1>1, <1>2, PurseWith
<1>4. SumFunction(money') = SumFunction(money) - amount
  BY ONLY <1>1, <1>2, <1>3
<1>5. money'[p] = n /\ \A q \in Players \ {p} : money'[q] = money[q]
  BY <1>1, <1>2
<1> QED BY <1>2, <1>4, <1>5

\* A draft counts for its receiver.
LEMMA Draft ==
  ASSUME NEW d \in MailEntry, d.state = StateFor(d.receiver)
  PROVE  /\ d # NoMail /\ d.state # "deleted" /\ Cash(d) = d.money
         /\ \A q : CashFor(q, d) = IF q = d.receiver THEN d.money ELSE 0
<1>1. d # NoMail
  BY Constants
<1>2. d.state \in Live /\ d.state # "deleted"
  BY DEF StateFor, Live
<1> QED BY <1>1, <1>2 DEF Cash, CashFor

\* What the mails hold after sending: what they held, and the drafts.
LEMMA SentMails ==
  ASSUME NEW kept \in Box, NEW drafts \in SUBSET MailEntry, SendMailTo(kept, drafts)
  PROVE  /\ mails' \in Box
         /\ \A k \in MailIds : mails'[k] = kept[k] \/ mails'[k] \in drafts
         /\ \A d \in drafts : \E k \in MailIds : mails'[k] = d
         /\ FairBox(kept) /\ (\A d \in drafts : FairMail(d)) => FairBox(mails')
<1>1. PICK new \in [MailIds -> drafts \cup {NoMail}] :
        /\ \A d \in drafts : \E k \in MailIds : \A j \in MailIds : new[j] = d <=> j = k
        /\ \A k \in MailIds : new[k] # NoMail => kept[k] = NoMail
        /\ mails' = [k \in MailIds |-> IF new[k] = NoMail THEN kept[k] ELSE new[k]]
  BY DEF SendMailTo
<1>2. \A k \in MailIds : /\ mails'[k] = IF new[k] = NoMail THEN kept[k] ELSE new[k]
                         /\ new[k] # NoMail => new[k] \in drafts
  BY <1>1
<1>3. mails' \in Box
  BY <1>1, Mailed
<1>4. \A d \in drafts : \E k \in MailIds : mails'[k] = d
  <2> TAKE d \in drafts
  <2>1. PICK k \in MailIds : new[k] = d
    BY <1>1
  <2>2. d # NoMail
    BY Constants
  <2> QED BY <1>2, <2>1, <2>2
<1> QED BY <1>2, <1>3, <1>4 DEF FairBox

\* A step that leaves the house.
LEMMA SameHouse ==
  ASSUME UNCHANGED auctions
  PROVE  /\ AllBids(auctions') = AllBids(auctions)
         /\ \A q : BidsOf(q, auctions') = BidsOf(q, auctions)
         /\ FairHouse(auctions) => FairHouse(auctions')
OBVIOUS

\* A step that leaves the mails.
LEMMA SameBox ==
  ASSUME UNCHANGED mails
  PROVE  /\ AllMail(mails') = AllMail(mails)
         /\ \A q : MailFor(q, mails') = MailFor(q, mails)
         /\ FairBox(mails) => FairBox(mails')
OBVIOUS

-----------------------------------------------------------------------------
(* Auctions.                                                               *)

\* The refund of the bidder so far is the bid.
LEMMA Refund ==
  ASSUME NEW e \in AuctionEntry, FairEntry(e)
  PROVE  \/ e.bidder = NoPlayer /\ OutbiddedMails(e) = {} /\ e.bid = 0
            /\ \A q \in Players : PotFor(q, e) = 0
         \/ \E d \in MailEntry :
              /\ OutbiddedMails(e) = {d} /\ FairMail(d) /\ d.items = {} /\ d.delivered
              /\ Cash(d) = e.bid
              /\ \A q \in Players : CashFor(q, d) = PotFor(q, e)
<1>1. CASE e.bidder = NoPlayer
  BY <1>1, Constants DEF OutbiddedMails, FairEntry, PotFor
<1>2. CASE e.bidder # NoPlayer
  <2> DEFINE d == AuctionMail(e.bidder, {}, e.bid, TRUE)
  <2>1. OutbiddedMails(e) = {d}
    BY <1>2 DEF OutbiddedMails
  <2>2. d \in MailEntry /\ d.items = {}
    BY <2>1, AuctionMails
  <2>3. /\ d.receiver = e.bidder /\ d.sender = NoPlayer /\ d.money = e.bid /\ d.COD = 0
        /\ d.state = StateFor(e.bidder) /\ d.delivered
    BY DEF AuctionMail
  <2>4. e # NoAuction
    BY Constants
  <2> HIDE DEF d
  <2>5. Cash(d) = e.bid /\ \A q : CashFor(q, d) = IF q = e.bidder THEN e.bid ELSE 0
    BY <2>2, <2>3, Draft
  <2>6. FairMail(d)
    BY <1>2, <2>3 DEF FairMail
  <2> QED BY <2>1, <2>2, <2>3, <2>4, <2>5, <2>6 DEF PotFor
<1> QED BY <1>1, <1>2

\* An entry of the house.
LEMMA FairEntryOf ==
  ASSUME MoneyInv, NEW a \in Running
  PROVE  /\ a \in AuctionIds /\ auctions[a] \in AuctionEntry /\ FairEntry(auctions[a])
         /\ auctions[a] # NoAuction
         /\ \A q : PotFor(q, auctions[a]) \in Nat
         /\ Pot(auctions[a]) = auctions[a].bid + Deposit
         /\ auctions[a].bid \in Nat /\ auctions[a].buyout \in Nat /\ auctions[a].startbid \in Nat
<1>1. a \in AuctionIds /\ auctions[a] \in AuctionEntry
  BY EntryType DEF MoneyInv, TypeInv
<1>2. FairEntry(auctions[a]) /\ auctions[a] # NoAuction
  BY <1>1, Constants DEF MoneyInv, LedgerInv, FairHouse
<1>3. \A q : PotFor(q, auctions[a]) \in Nat
  BY <1>1, PotCounted
<1> QED BY <1>1, <1>2, <1>3 DEF Pot, AuctionEntry

\* The house after an auction has ended.
LEMMA EndedMoney ==
  ASSUME MoneyInv, NEW a \in Running, Ended(a)
  PROVE  /\ AllBids(auctions') = AllBids(auctions) - auctions[a].bid - Deposit
         /\ \A q : BidsOf(q, auctions') = BidsOf(q, auctions) - PotFor(q, auctions[a])
         /\ FairHouse(auctions')
<1>1. auctions \in House /\ AllBids(auctions) \in Nat /\ \A q : BidsOf(q, auctions) \in Nat
  BY Parts, SumTypes DEF MoneyInv, TypeInv
<1>2. /\ a \in AuctionIds /\ Pot(auctions[a]) = auctions[a].bid + Deposit
      /\ auctions[a].bid \in Nat /\ \A q : PotFor(q, auctions[a]) \in Nat
  BY FairEntryOf
<1> DEFINE e == NoAuction
<1>3. auctions' = [auctions EXCEPT ![a] = e] /\ e \in AuctionEntry \cup {NoAuction}
  BY DEF Ended
<1>4. Pot(e) = 0 /\ \A q : PotFor(q, e) = 0
  BY DEF Pot, PotFor
<1> HIDE DEF e
<1>5. /\ AllBids(auctions') = AllBids(auctions) - Pot(auctions[a]) + Pot(e)
      /\ \A q : BidsOf(q, auctions') = BidsOf(q, auctions) - PotFor(q, auctions[a]) + PotFor(q, e)
  BY <1>1, <1>2, <1>3, BidPut
<1>6. FairHouse(auctions')
  <2>1. \A b \in AuctionIds : auctions'[b] = auctions[b] \/ auctions'[b] = NoAuction
    BY <1>1 DEF Ended, House
  <2> QED BY <2>1 DEF MoneyInv, LedgerInv, FairHouse
<1>7. Deposit \in Nat
  BY Constants
<1>8. AllBids(auctions') = AllBids(auctions) - auctions[a].bid - Deposit
  BY ONLY <1>1, <1>2, <1>4, <1>5, <1>7
<1>9. \A q : BidsOf(q, auctions') = BidsOf(q, auctions) - PotFor(q, auctions[a])
  BY ONLY <1>1, <1>2, <1>4, <1>5
<1> QED BY <1>6, <1>8, <1>9

\* The money of a new auction is its deposit.
LEMMA SellMoney ==
  ASSUME MoneyInv, NEW p \in Players, NEW item \in Items, NEW startbid \in Nat,
         NEW buyout \in Nat, HandleAuctionSellItem(p, item, startbid, buyout)
  PROVE  Balanced /\ \A q \in Players \ {p} : ~Poorer(q)
<1> DEFINE e == [owner |-> p, item |-> item, startbid |-> startbid, buyout |-> buyout,
                 bidder |-> NoPlayer, bid |-> 0, due |-> FALSE]
<1>1. PICK a \in AuctionIds \ Running : auctions' = [auctions EXCEPT ![a] = e]
  BY DEF HandleAuctionSellItem
<1>2. Pay(p, Deposit) /\ Deposit <= money[p] /\ Deposit \in Nat /\ UNCHANGED mails /\ sunk' = sunk
  BY Parts, Constants DEF HandleAuctionSellItem, MoneyInv, TypeInv
<1>3. e \in AuctionEntry /\ e # NoAuction /\ FairEntry(e)
  <2>1. e \in AuctionEntry
    BY DEF AuctionEntry
  <2> QED BY <2>1, Constants DEF FairEntry
<1>4. Pot(e) = Deposit /\ \A q \in Players : PotFor(q, e) = 0
  BY <1>3, Constants DEF Pot, PotFor
<1> HIDE DEF e
<1>5. auctions[a] = NoAuction
  BY <1>1 DEF Running
<1>6. Pot(auctions[a]) = 0 /\ \A q : PotFor(q, auctions[a]) = 0
  BY <1>5 DEF Pot, PotFor
<1>7. /\ auctions \in House
      /\ SumFunction(money) \in Nat /\ AllMail(mails) \in Nat /\ AllBids(auctions) \in Nat
      /\ \A q \in Players : /\ money[q] \in Nat /\ MailFor(q, mails) \in Nat
                            /\ BidsOf(q, auctions) \in Nat
      /\ sunk \in Nat
  BY Parts DEF MoneyInv, TypeInv, LedgerInv
<1>8. /\ AllBids(auctions') = AllBids(auctions) - Pot(auctions[a]) + Pot(e)
      /\ \A q : BidsOf(q, auctions') = BidsOf(q, auctions) - PotFor(q, auctions[a]) + PotFor(q, e)
  BY <1>1, <1>3, <1>7, BidPut
<1>9. /\ SumFunction(money') = SumFunction(money) - Deposit
      /\ \A q \in Players \ {p} : money'[q] = money[q]
  BY <1>2, PayMoney DEF MoneyInv, TypeInv
<1>10. FairHouse(auctions')
  <2>1. \A b \in AuctionIds : auctions'[b] = IF b = a THEN e ELSE auctions[b]
    BY <1>1, <1>7 DEF House
  <2> QED BY <1>3, <2>1 DEF FairHouse, MoneyInv, LedgerInv
<1>11. /\ AllMail(mails') = AllMail(mails) /\ FairBox(mails')
       /\ \A q : MailFor(q, mails') = MailFor(q, mails)
  BY <1>2, SameBox DEF MoneyInv, LedgerInv
<1>12. Balanced
  <2>1. SumFunction(money') + AllMail(mails') + AllBids(auctions') + sunk'
          = SumFunction(money) + AllMail(mails) + AllBids(auctions) + sunk
    BY ONLY <1>2, <1>4, <1>6, <1>7, <1>8, <1>9, <1>11
  <2> QED BY <1>2, <1>7, <1>10, <1>11, <2>1 DEF Balanced, Grand
<1>13. ASSUME NEW q \in Players \ {p} PROVE ~Poorer(q)
  <2>1. money'[q] + BidsOf(q, auctions') + MailFor(q, mails')
          = money[q] + BidsOf(q, auctions) + MailFor(q, mails)
    BY ONLY <1>4, <1>6, <1>7, <1>8, <1>9, <1>11
  <2>2. money[q] + BidsOf(q, auctions) + MailFor(q, mails) \in Nat
    BY ONLY <1>7
  <2> QED BY ONLY <2>1, <2>2 DEF Poorer, Fortune
<1> QED BY <1>12, <1>13

\* A higher bid is paid, and the one before it paid back.
LEMMA BidMoney ==
  ASSUME MoneyInv, NEW p \in Players, NEW a \in Running, NEW price \in 1..MaxOffer,
         PlaceBid(p, a, price)
  PROVE  Balanced /\ \A q \in Players \ {p} : ~Poorer(q)
<1> DEFINE e == auctions[a]
           f == [e EXCEPT !.bidder = p, !.bid = price]
           paid == IF e.bidder = p THEN price - e.bid ELSE price
<1>1. /\ a \in AuctionIds /\ e \in AuctionEntry /\ FairEntry(e) /\ e # NoAuction
      /\ Pot(e) = e.bid + Deposit /\ e.bid \in Nat /\ price \in Nat /\ Deposit \in Nat
      /\ \A q : PotFor(q, e) \in Nat
  BY FairEntryOf, Constants
<1>2. /\ auctions \in House
      /\ SumFunction(money) \in Nat /\ AllMail(mails) \in Nat /\ AllBids(auctions) \in Nat
      /\ \A q \in Players : /\ money[q] \in Nat /\ MailFor(q, mails) \in Nat
                            /\ BidsOf(q, auctions) \in Nat
      /\ sunk \in Nat /\ mails \in Box
  BY Parts DEF MoneyInv, TypeInv, LedgerInv
<1>3. /\ price > e.bid /\ price >= e.startbid /\ price <= money[p] /\ p # e.owner
      /\ sunk' = sunk
      /\ Pay(p, paid)
      /\ IF e.bidder = p THEN UNCHANGED mails ELSE SendMailTo(mails, OutbiddedMails(e))
  BY DEF PlaceBid, BidAccepted, BidAllowed
<1>4. auctions' = [auctions EXCEPT ![a] = f]
  BY <1>1, <1>2 DEF PlaceBid, House
<1>5. /\ f \in AuctionEntry /\ FairEntry(f) /\ Pot(f) = price + Deposit
      /\ \A q \in Players \ {p} : PotFor(q, f) = 0
  <2>1. /\ f \in AuctionEntry /\ f.bidder = p /\ f.bid = price /\ f.owner = e.owner
        /\ f.startbid = e.startbid
    BY <1>1 DEF AuctionEntry
  <2>2. p # NoPlayer /\ f # NoAuction
    BY <2>1, Constants
  <2> HIDE DEF f
  <2> QED BY <1>3, <2>1, <2>2 DEF FairEntry, Pot, PotFor
<1>6. \A q \in Players \ {p} : e.bidder = p => PotFor(q, e) = 0
  BY DEF PotFor
<1>7. paid \in Nat /\ paid <= money[p] /\ paid = IF e.bidder = p THEN price - e.bid ELSE price
  BY <1>1, <1>2, <1>3
<1> HIDE DEF e, f, paid
<1>8. /\ SumFunction(money') = SumFunction(money) - paid
      /\ \A q \in Players \ {p} : money'[q] = money[q]
  BY <1>3, <1>7, PayMoney DEF MoneyInv, TypeInv
<1>9. /\ AllBids(auctions') = AllBids(auctions) - Pot(e) + Pot(f)
      /\ \A q : BidsOf(q, auctions') = BidsOf(q, auctions) - PotFor(q, e) + PotFor(q, f)
  BY <1>1, <1>2, <1>4, <1>5, BidPut DEF e
<1>10. FairHouse(auctions')
  <2>1. \A b \in AuctionIds : auctions'[b] = IF b = a THEN f ELSE auctions[b]
    BY <1>2, <1>4 DEF House
  <2> QED BY <1>5, <2>1 DEF FairHouse, MoneyInv, LedgerInv
<1>11. /\ FairBox(mails')
       /\ AllMail(mails') = AllMail(mails) + IF e.bidder = p THEN 0 ELSE e.bid
       /\ \A q \in Players : MailFor(q, mails')
                               = MailFor(q, mails) + IF e.bidder = p THEN 0 ELSE PotFor(q, e)
  <2>1. FairBox(mails)
    BY DEF MoneyInv, LedgerInv
  <2>2. CASE e.bidder = p
    BY <1>2, <1>3, <2>1, <2>2, SameBox
  <2>3. CASE /\ e.bidder # p /\ OutbiddedMails(e) = {} /\ e.bid = 0
             /\ \A q \in Players : PotFor(q, e) = 0
    <3>1. SendMailTo(mails, {})
      BY <1>3, <2>3
    <3>2. AllMail(mails') = AllMail(mails) /\ \A q : MailFor(q, mails') = MailFor(q, mails)
      BY <1>2, <3>1, SentNone
    <3>3. FairBox(mails')
      <4> DEFINE none == {}
      <4>1. none \in SUBSET MailEntry /\ SendMailTo(mails, none) /\ \A d \in none : FairMail(d)
        BY <3>1
      <4> HIDE DEF none
      <4> QED BY <1>2, <2>1, <4>1, SentMails
    <3> QED BY <1>2, <2>3, <3>2, <3>3
  <2>4. ASSUME e.bidder # p, NEW d \in MailEntry, OutbiddedMails(e) = {d}, FairMail(d),
               Cash(d) = e.bid, \A q \in Players : CashFor(q, d) = PotFor(q, e)
        PROVE  /\ FairBox(mails')
               /\ AllMail(mails') = AllMail(mails) + e.bid
               /\ \A q \in Players : MailFor(q, mails') = MailFor(q, mails) + PotFor(q, e)
    <3> DEFINE drafts == OutbiddedMails(e)
    <3>1. SendMailTo(mails, drafts) /\ drafts = {d} /\ drafts \in SUBSET MailEntry
      BY <1>3, <2>4
    <3> HIDE DEF drafts
    <3>2. /\ AllMail(mails') = AllMail(mails) + Cash(d)
          /\ \A q : MailFor(q, mails') = MailFor(q, mails) + CashFor(q, d)
      BY <1>2, <3>1, SentOne
    <3>3. FairBox(mails')
      BY <1>2, <2>1, <2>4, <3>1, SentMails
    <3> QED BY <2>4, <3>2, <3>3
  <2> QED BY <1>1, <2>2, <2>3, <2>4, Refund
<1>12. Balanced
  <2>1. SumFunction(money') + AllMail(mails') + AllBids(auctions') + sunk'
          = SumFunction(money) + AllMail(mails) + AllBids(auctions) + sunk
    BY ONLY <1>1, <1>2, <1>3, <1>5, <1>7, <1>8, <1>9, <1>11
  <2> QED BY <1>2, <1>3, <1>10, <1>11, <2>1 DEF Balanced, Grand
<1>13. ASSUME NEW q \in Players \ {p} PROVE ~Poorer(q)
  <2>1. money'[q] + BidsOf(q, auctions') + MailFor(q, mails')
          = money[q] + BidsOf(q, auctions) + MailFor(q, mails)
    BY ONLY <1>1, <1>2, <1>5, <1>6, <1>8, <1>9, <1>11
  <2>2. money[q] + BidsOf(q, auctions) + MailFor(q, mails) \in Nat
    BY ONLY <1>2
  <2> QED BY ONLY <2>1, <2>2 DEF Poorer, Fortune
<1> QED BY <1>12, <1>13

\* What the owner gets for a bid.
Price(bid) == bid + Deposit - GetAuctionCut(bid)

\* A price is what is left of the bid and the deposit, and no lower for a higher
\* bid.
LEMMA Prices ==
  /\ \A bid \in Nat : /\ GetAuctionCut(bid) \in Nat /\ Price(bid) \in Nat
                      /\ Price(bid) + GetAuctionCut(bid) = bid + Deposit
  /\ \A low, high \in Nat : low <= high => Price(low) <= Price(high)
<1>1. ASSUME NEW bid \in Nat
      PROVE  /\ GetAuctionCut(bid) \in Nat /\ Price(bid) \in Nat
             /\ Price(bid) + GetAuctionCut(bid) = bid + Deposit
  <2>1. GetAuctionCut(bid) \in 0..bid /\ Deposit \in Nat
    BY CutOfBid, Constants
  <2> HIDE DEF GetAuctionCut
  <2> QED BY <2>1 DEF Price
<1>2. ASSUME NEW low \in Nat, NEW high \in Nat, low <= high
      PROVE  Price(low) <= Price(high)
  <2> DEFINE l == CutPercent * low
             h == CutPercent * high
  <2>1. CutPercent \in Nat /\ CutPercent <= 100 /\ Deposit \in Nat
    BY Constants
  <2>2. l \in Nat /\ h \in Nat /\ h <= l + 100 * (high - low)
    <3> DEFINE n == high - low
               m == CutPercent * n
    <3>1. l \in Nat /\ h \in Nat /\ n \in Nat
      BY <1>2, <2>1
    <3>2. h = l + m
      BY <2>1
    <3>3. m \in Nat /\ m <= 100 * n
      <4> HIDE DEF n
      <4> QED BY <2>1, <3>1
    <3> HIDE DEF l, h, m
    <3>4. h <= l + 100 * n
      BY ONLY <3>1, <3>2, <3>3
    <3> QED BY <3>1, <3>4
  <2>3. GetAuctionCut(low) = l \div 100 /\ GetAuctionCut(high) = h \div 100
    BY DEF GetAuctionCut
  <2> HIDE DEF l, h
  <2>4. h \div 100 <= (l \div 100) + (high - low) /\ h \div 100 \in Int /\ l \div 100 \in Int
    BY <2>2
  <2> HIDE DEF GetAuctionCut
  <2> QED BY <2>1, <2>3, <2>4 DEF Price
<1> QED BY <1>1, <1>2

\* The mails of an auction that is won.
LEMMA SaleDrafts ==
  ASSUME NEW e \in AuctionEntry, e.bidder # NoPlayer,
         NEW s, s = SuccessfulMail(e), NEW w, w = WonMail(e)
  PROVE  /\ s \in MailEntry /\ w \in MailEntry /\ s # w
         /\ FairMail(s) /\ FairMail(w)
         /\ ~s.delivered /\ s.items = {} /\ w.items = {e.item}
         /\ w # NoMail /\ w.receiver = e.bidder /\ w.state # "deleted"
         /\ Cash(s) = Price(e.bid) /\ Cash(w) = 0
         /\ \A q : /\ CashFor(q, s) = IF q = e.owner THEN Price(e.bid) ELSE 0
                   /\ CashFor(q, w) = 0
<1>1. /\ s \in MailEntry /\ s.items = {} /\ w \in MailEntry /\ w.items = {e.item}
  BY AuctionMails
<1>2. /\ s.receiver = e.owner /\ s.sender = NoPlayer /\ s.money = Price(e.bid) /\ s.COD = 0
      /\ s.state = StateFor(e.owner) /\ ~s.delivered
  BY DEF SuccessfulMail, AuctionMail, Price
<1>3. /\ w.receiver = e.bidder /\ w.sender = NoPlayer /\ w.money = 0 /\ w.COD = 0
      /\ w.state = StateFor(e.bidder)
  BY DEF WonMail, AuctionMail
<1>4. e.owner # NoPlayer
  BY Constants DEF AuctionEntry
<1>5. FairMail(s) /\ FairMail(w)
  BY <1>2, <1>3, <1>4 DEF FairMail
<1>6. Cash(s) = Price(e.bid) /\ \A q : CashFor(q, s) = IF q = e.owner THEN Price(e.bid) ELSE 0
  BY <1>1, <1>2, Draft
<1>7. /\ w # NoMail /\ w.state # "deleted" /\ Cash(w) = 0
      /\ \A q : CashFor(q, w) = IF q = e.bidder THEN 0 ELSE 0
  BY <1>1, <1>3, Draft
<1>8. s # w
  BY <1>1
<1> QED BY <1>1, <1>2, <1>3, <1>5, <1>6, <1>7, <1>8

\* What SendMailTo adds for an auction that is won, with the refund of another
\* auction entry or without.
LEMMA SaleSent ==
  ASSUME mails \in Box, FairBox(mails), NEW e \in AuctionEntry, FairEntry(e),
         NEW won \in AuctionEntry, won.bidder # NoPlayer,
         NEW back \in SUBSET OutbiddedMails(e), back = {} \/ back = OutbiddedMails(e),
         SendMailTo(mails, {SuccessfulMail(won), WonMail(won)} \cup back)
  PROVE  /\ FairBox(mails')
         /\ AllMail(mails')
              = AllMail(mails) + Price(won.bid) + IF back = {} THEN 0 ELSE e.bid
         /\ \A q \in Players :
              MailFor(q, mails')
                = MailFor(q, mails) + (IF q = won.owner THEN Price(won.bid) ELSE 0)
                  + IF back = {} THEN 0 ELSE PotFor(q, e)
         /\ \E k \in MailIds : mails'[k] = WonMail(won)
         /\ \A k \in MailIds : \/ mails'[k] = mails[k]
                               \/ mails'[k] = WonMail(won)
                               \/ mails'[k].items = {}
<1> DEFINE s == SuccessfulMail(won)
           w == WonMail(won)
           price == Price(won.bid)
           drafts == {s, w} \cup back
<1>1. /\ s \in MailEntry /\ w \in MailEntry /\ s # w /\ FairMail(s) /\ FairMail(w)
      /\ ~s.delivered /\ s.items = {} /\ w.items = {won.item}
      /\ Cash(s) = price /\ Cash(w) = 0
      /\ \A q : /\ CashFor(q, s) = IF q = won.owner THEN price ELSE 0
                /\ CashFor(q, w) = 0
  <2> HIDE DEF s, w
  <2>1. s = SuccessfulMail(won) /\ w = WonMail(won)
    BY DEF s, w
  <2> QED BY <2>1, SaleDrafts
<1>2. price \in Nat /\ e.bid \in Nat /\ AllMail(mails) \in Nat
      /\ \A q : MailFor(q, mails) \in Nat /\ PotFor(q, e) \in Nat
  BY Prices, SumTypes, PotCounted DEF AuctionEntry
<1>3. SendMailTo(mails, drafts)
  OBVIOUS
<1>4. back = {} \/ \E d \in MailEntry :
                     /\ back = {d} /\ FairMail(d) /\ d.items = {} /\ d.delivered
                     /\ Cash(d) = e.bid
                     /\ \A q \in Players : CashFor(q, d) = PotFor(q, e)
  BY Refund
<1> HIDE DEF s, w, price
<1>5. CASE back = {}
  <2>1. drafts = {s, w} /\ drafts \in SUBSET MailEntry
    BY <1>1, <1>5
  <2> HIDE DEF drafts
  <2>2. /\ AllMail(mails') = AllMail(mails) + Cash(s) + Cash(w)
        /\ \A q : MailFor(q, mails') = MailFor(q, mails) + CashFor(q, s) + CashFor(q, w)
    BY <1>1, <1>3, <2>1, SentTwo
  <2>3. /\ FairBox(mails')
        /\ \A k \in MailIds : mails'[k] = mails[k] \/ mails'[k] \in drafts
        /\ \A d \in drafts : \E k \in MailIds : mails'[k] = d
    BY <1>1, <1>3, <2>1, SentMails
  <2>4. AllMail(mails') = AllMail(mails) + price
    BY ONLY <1>1, <1>2, <2>2
  <2>5. \A q : MailFor(q, mails') = MailFor(q, mails) + (IF q = won.owner THEN price ELSE 0)
    BY ONLY <1>1, <1>2, <2>2
  <2>6. /\ \E k \in MailIds : mails'[k] = w
        /\ \A k \in MailIds : mails'[k] = mails[k] \/ mails'[k] = w \/ mails'[k].items = {}
    BY <1>1, <2>1, <2>3
  <2>7. /\ AllMail(mails) + price = AllMail(mails) + price + 0
        /\ \A q : MailFor(q, mails) + (IF q = won.owner THEN price ELSE 0)
                    = MailFor(q, mails) + (IF q = won.owner THEN price ELSE 0) + 0
    BY ONLY <1>2
  <2> QED BY <1>5, <2>3, <2>4, <2>5, <2>6, <2>7 DEF w, price
<1>6. ASSUME back # {}, NEW d \in MailEntry, back = {d}, FairMail(d), d.items = {}, d.delivered,
             Cash(d) = e.bid, \A q \in Players : CashFor(q, d) = PotFor(q, e)
      PROVE  /\ FairBox(mails')
             /\ AllMail(mails') = AllMail(mails) + price + e.bid
             /\ \A q \in Players :
                  MailFor(q, mails')
                    = MailFor(q, mails) + (IF q = won.owner THEN price ELSE 0) + PotFor(q, e)
             /\ \E k \in MailIds : mails'[k] = w
             /\ \A k \in MailIds : mails'[k] = mails[k] \/ mails'[k] = w \/ mails'[k].items = {}
  <2>1. /\ drafts = {s, w, d} /\ drafts \in SUBSET MailEntry /\ s # w /\ s # d /\ w # d
    BY <1>1, <1>6
  <2> HIDE DEF drafts
  <2>2. /\ AllMail(mails') = AllMail(mails) + Cash(s) + Cash(w) + Cash(d)
        /\ \A q : MailFor(q, mails')
                    = MailFor(q, mails) + CashFor(q, s) + CashFor(q, w) + CashFor(q, d)
    BY <1>1, <1>3, <2>1, SentThree
  <2>3. /\ FairBox(mails')
        /\ \A k \in MailIds : mails'[k] = mails[k] \/ mails'[k] \in drafts
        /\ \A c \in drafts : \E k \in MailIds : mails'[k] = c
    BY <1>1, <1>3, <1>6, <2>1, SentMails
  <2>4. AllMail(mails') = AllMail(mails) + price + e.bid
    BY ONLY <1>1, <1>2, <1>6, <2>2
  <2>5. \A q \in Players :
          MailFor(q, mails') = MailFor(q, mails) + (IF q = won.owner THEN price ELSE 0) + PotFor(q, e)
    BY ONLY <1>1, <1>2, <1>6, <2>2
  <2>6. /\ \E k \in MailIds : mails'[k] = w
        /\ \A k \in MailIds : mails'[k] = mails[k] \/ mails'[k] = w \/ mails'[k].items = {}
    BY <1>1, <1>6, <2>1, <2>3
  <2> QED BY <2>3, <2>4, <2>5, <2>6
<1>7. CASE back # {}
  <2>1. PICK d \in MailEntry : /\ back = {d} /\ FairMail(d) /\ d.items = {} /\ d.delivered
                               /\ Cash(d) = e.bid
                               /\ \A q \in Players : CashFor(q, d) = PotFor(q, e)
    BY <1>4, <1>7
  <2>2. /\ FairBox(mails')
        /\ AllMail(mails') = AllMail(mails) + price + e.bid
        /\ \A q \in Players :
             MailFor(q, mails')
               = MailFor(q, mails) + (IF q = won.owner THEN price ELSE 0) + PotFor(q, e)
        /\ \E k \in MailIds : mails'[k] = w
        /\ \A k \in MailIds : mails'[k] = mails[k] \/ mails'[k] = w \/ mails'[k].items = {}
    BY <1>6, <1>7, <2>1
  <2> QED BY <1>7, <2>2 DEF w, price
<1> QED BY <1>5, <1>7

\* What the owner of an auction gets more when it is sold.
Sold(e) ==
  Fortune(e.owner, money', mails', auctions')
    >= Fortune(e.owner, money, mails, auctions) + Price(Asked(e))

\* All sums are natural numbers.
LEMMA Numbers ==
  ASSUME MoneyInv
  PROVE  /\ TypeOK /\ auctions \in House /\ mails \in Box
         /\ FairBox(mails) /\ FairHouse(auctions)
         /\ sunk \in Nat /\ Deposit \in Nat
         /\ SumFunction(money) \in Nat /\ AllMail(mails) \in Nat /\ AllBids(auctions) \in Nat
         /\ \A q \in Players : /\ money[q] \in Nat /\ MailFor(q, mails) \in Nat
                               /\ BidsOf(q, auctions) \in Nat
BY Parts, Constants DEF MoneyInv, TypeInv, LedgerInv

\* A buyout pays the owner his price and the bidder so far his bid.
LEMMA BuyoutMoney ==
  ASSUME MoneyInv, NEW p \in Players, NEW a \in Running, NEW price \in 1..MaxOffer,
         Buyout(p, a, price)
  PROVE  Balanced /\ (\A q \in Players \ {p} : ~Poorer(q)) /\ Sold(auctions[a])
<1> DEFINE e == auctions[a]
           won == [e EXCEPT !.bidder = p, !.bid = e.buyout]
           back == IF e.bidder = p THEN {} ELSE OutbiddedMails(e)
           paid == IF e.bidder = p THEN e.buyout - e.bid ELSE e.buyout
           cut == GetAuctionCut(e.buyout)
           r == IF back = {} THEN 0 ELSE e.bid
<1>1. /\ a \in AuctionIds /\ e \in AuctionEntry /\ FairEntry(e) /\ e # NoAuction
      /\ e.bid \in Nat /\ e.buyout \in Nat /\ e.startbid \in Nat /\ e.owner \in Players
      /\ \A q : PotFor(q, e) \in Nat
  BY FairEntryOf DEF AuctionEntry
<1>2. /\ TypeOK /\ auctions \in House /\ mails \in Box /\ FairBox(mails) /\ FairHouse(auctions)
      /\ sunk \in Nat /\ Deposit \in Nat
      /\ SumFunction(money) \in Nat /\ AllMail(mails) \in Nat /\ AllBids(auctions) \in Nat
      /\ \A q \in Players : /\ money[q] \in Nat /\ MailFor(q, mails) \in Nat
                            /\ BidsOf(q, auctions) \in Nat
  BY Numbers
<1>3. /\ price \in Nat /\ price <= money[p] /\ p # e.owner
      /\ e.buyout # 0 /\ e.buyout <= price
  BY <1>1, Constants DEF Buyout, BidAccepted, BidAllowed, BidBelowBuyout
<1>4. /\ Pay(p, paid) /\ Ended(a) /\ sunk' = sunk + cut
      /\ SendMailTo(mails, {SuccessfulMail(won), WonMail(won)} \cup back)
  BY DEF Buyout
<1>5. e.bid < e.buyout
  BY <1>3 DEF MoneyInv, TypeInv, BidsBelowBuyout
<1>6. /\ won \in AuctionEntry /\ won.bidder # NoPlayer /\ won.bid = e.buyout
      /\ won.owner = e.owner
  BY <1>1, Constants DEF AuctionEntry
<1>7. /\ paid \in Nat /\ paid <= money[p] /\ paid = e.buyout - IF e.bidder = p THEN e.bid ELSE 0
  BY <1>1, <1>2, <1>3, <1>5
<1>8. /\ back \in SUBSET OutbiddedMails(e)
      /\ back = {} \/ back = OutbiddedMails(e)
      /\ back = {} => e.bidder = p \/ (e.bidder = NoPlayer /\ e.bid = 0)
      /\ e.bidder = p => back = {}
  BY Refund, <1>1
<1>9. /\ cut \in Nat /\ Price(e.buyout) \in Nat /\ Price(e.buyout) + cut = e.buyout + Deposit
      /\ Price(Asked(e)) <= Price(e.buyout) /\ Price(Asked(e)) \in Nat
  <2>1. Asked(e) \in Nat /\ Asked(e) <= e.buyout
    BY <1>1, <1>3 DEF Asked
  <2> QED BY <1>1, <2>1, Prices
<1>10. /\ r \in Nat /\ r + (IF e.bidder = p THEN e.bid ELSE 0) = e.bid
       /\ e.bidder # p /\ r = 0 => e.bid = 0
  BY <1>1, <1>8
<1>11. \A q \in Players \ {p} : (IF back = {} THEN 0 ELSE PotFor(q, e)) = PotFor(q, e)
  <2>1. \A q \in Players \ {p} : back = {} => PotFor(q, e) = 0
    BY <1>8, Constants DEF PotFor
  <2> QED BY <2>1
<1>12. r = IF back = {} THEN 0 ELSE e.bid
  OBVIOUS
<1> HIDE DEF e, won, back, paid, cut, r
<1>13. /\ FairBox(mails')
       /\ AllMail(mails') = AllMail(mails) + Price(won.bid) + IF back = {} THEN 0 ELSE e.bid
       /\ \A q \in Players :
            MailFor(q, mails')
              = MailFor(q, mails) + (IF q = won.owner THEN Price(won.bid) ELSE 0)
                + IF back = {} THEN 0 ELSE PotFor(q, e)
  <2>1. /\ mails \in Box /\ FairBox(mails) /\ e \in AuctionEntry /\ FairEntry(e)
        /\ won \in AuctionEntry /\ won.bidder # NoPlayer
        /\ back \in SUBSET OutbiddedMails(e) /\ (back = {} \/ back = OutbiddedMails(e))
        /\ SendMailTo(mails, {SuccessfulMail(won), WonMail(won)} \cup back)
    BY ONLY <1>1, <1>2, <1>4, <1>6, <1>8
  <2> QED BY ONLY <2>1, SaleSent
<1>14. AllMail(mails') = AllMail(mails) + Price(e.buyout) + r
  BY ONLY <1>6, <1>12, <1>13
<1>15. \A q \in Players \ {p} :
         MailFor(q, mails')
           = MailFor(q, mails) + (IF q = e.owner THEN Price(e.buyout) ELSE 0) + PotFor(q, e)
  BY ONLY <1>6, <1>11, <1>13
<1>16. /\ SumFunction(money') = SumFunction(money) - paid
       /\ \A q \in Players \ {p} : money'[q] = money[q]
  BY <1>2, <1>4, <1>7, PayMoney
<1>17. /\ AllBids(auctions') = AllBids(auctions) - e.bid - Deposit
       /\ \A q : BidsOf(q, auctions') = BidsOf(q, auctions) - PotFor(q, e)
       /\ FairHouse(auctions')
  BY <1>4, EndedMoney DEF e
<1>18. Balanced
  <2>1. SumFunction(money') + AllMail(mails') + AllBids(auctions') + sunk'
          = SumFunction(money) + AllMail(mails) + AllBids(auctions) + sunk
    <3> DEFINE i == IF e.bidder = p THEN e.bid ELSE 0
    <3>1. i \in Nat /\ paid = e.buyout - i /\ r + i = e.bid
      BY <1>1, <1>7, <1>10
    <3> HIDE DEF i
    <3>2. /\ SumFunction(money') = SumFunction(money) - (e.buyout - i)
          /\ AllMail(mails') = AllMail(mails) + Price(e.buyout) + r
          /\ AllBids(auctions') = AllBids(auctions) - e.bid - Deposit
          /\ sunk' = sunk + cut
      BY ONLY <1>4, <1>14, <1>16, <1>17, <3>1
    <3>3. e.bid \in Nat /\ e.buyout \in Nat /\ r \in Nat
      BY <1>1, <1>10
    <3> QED BY ONLY <1>2, <1>9, <3>1, <3>2, <3>3
  <2>2. sunk' \in Nat
    BY ONLY <1>2, <1>4, <1>9
  <2> QED BY <1>13, <1>17, <2>1, <2>2 DEF Balanced, Grand
<1>19. \A q \in Players \ {p} :
         money'[q] + BidsOf(q, auctions') + MailFor(q, mails')
           = money[q] + BidsOf(q, auctions) + MailFor(q, mails)
             + IF q = e.owner THEN Price(e.buyout) ELSE 0
  BY ONLY <1>1, <1>2, <1>9, <1>15, <1>16, <1>17
<1>20. ASSUME NEW q \in Players \ {p} PROVE ~Poorer(q)
  <2>1. money[q] + BidsOf(q, auctions) + MailFor(q, mails) \in Nat
    BY ONLY <1>2
  <2>2. money'[q] + BidsOf(q, auctions') + MailFor(q, mails')
           >= money[q] + BidsOf(q, auctions) + MailFor(q, mails)
    BY ONLY <1>9, <1>19, <2>1
  <2>3. money'[q] + BidsOf(q, auctions') + MailFor(q, mails') \in Int
    BY ONLY <1>9, <1>19, <2>1
  <2> QED BY ONLY <2>1, <2>2, <2>3 DEF Poorer, Fortune
<1>21. Sold(e)
  <2> DEFINE q == e.owner
  <2>1. q \in Players \ {p}
    BY <1>1, <1>3
  <2>2. money[q] + BidsOf(q, auctions) + MailFor(q, mails) \in Nat
    BY ONLY <1>2, <2>1
  <2>3. money'[q] + BidsOf(q, auctions') + MailFor(q, mails')
          = money[q] + BidsOf(q, auctions) + MailFor(q, mails) + Price(e.buyout)
    BY ONLY <1>19, <2>1
  <2>4. money'[q] + BidsOf(q, auctions') + MailFor(q, mails')
          >= money[q] + BidsOf(q, auctions) + MailFor(q, mails) + Price(Asked(e))
    BY ONLY <1>9, <2>2, <2>3
  <2> QED BY <2>4 DEF Sold, Fortune
<1> QED BY <1>18, <1>20, <1>21 DEF e

\* The mail that brings an item back.
LEMMA ExpiredDraft ==
  ASSUME NEW e \in AuctionEntry, NEW x, x = ExpiredMail(e)
  PROVE  /\ x \in MailEntry /\ FairMail(x) /\ x.items = {e.item} /\ x.receiver = e.owner
         /\ Cash(x) = 0 /\ \A q : CashFor(q, x) = 0
<1>1. x \in MailEntry /\ x.items = {e.item}
  BY AuctionMails
<1>2. /\ x.receiver = e.owner /\ x.sender = NoPlayer /\ x.money = 0 /\ x.COD = 0
      /\ x.state = StateFor(e.owner)
  BY DEF ExpiredMail, AuctionMail
<1>3. FairMail(x)
  BY <1>2, Constants DEF FairMail, AuctionEntry
<1>4. Cash(x) = 0 /\ \A q : CashFor(q, x) = IF q = e.owner THEN 0 ELSE 0
  BY <1>1, <1>2, Draft
<1> QED BY <1>1, <1>2, <1>3, <1>4

\* Taking an auction back costs the owner the cut, and his deposit is lost.
LEMMA RemoveMoney ==
  ASSUME MoneyInv, NEW p \in Players, NEW a \in AuctionIds, HandleAuctionRemoveItem(p, a)
  PROVE  Balanced /\ \A q \in Players \ {p} : ~Poorer(q)
<1> DEFINE e == auctions[a]
           cut == IF e.bidder = NoPlayer THEN 0 ELSE GetAuctionCut(e.bid)
           x == ExpiredMail(e)
           drafts == OutbiddedMails(e) \cup {x}
<1>1. /\ a \in Running /\ Pay(p, cut) /\ cut <= money[p] /\ Ended(a)
      /\ sunk' = sunk + cut + Deposit /\ SendMailTo(mails, drafts)
  BY Numbers, FairEntryOf, Prices DEF HandleAuctionRemoveItem
<1>2. /\ e \in AuctionEntry /\ FairEntry(e) /\ e.bid \in Nat
      /\ \A q : PotFor(q, e) \in Nat
  BY <1>1, FairEntryOf
<1>3. /\ TypeOK /\ auctions \in House /\ mails \in Box /\ FairBox(mails) /\ FairHouse(auctions)
      /\ sunk \in Nat /\ Deposit \in Nat
      /\ SumFunction(money) \in Nat /\ AllMail(mails) \in Nat /\ AllBids(auctions) \in Nat
      /\ \A q \in Players : /\ money[q] \in Nat /\ MailFor(q, mails) \in Nat
                            /\ BidsOf(q, auctions) \in Nat
  BY Numbers
<1>4. cut \in Nat
  BY <1>2, Prices
<1>5. /\ x \in MailEntry /\ FairMail(x) /\ x.items = {e.item} /\ Cash(x) = 0
      /\ \A q : CashFor(q, x) = 0
  <2> HIDE DEF e
  <2> QED BY <1>2, ExpiredDraft
<1> HIDE DEF e, cut, x
<1>6. /\ SumFunction(money') = SumFunction(money) - cut
      /\ \A q \in Players \ {p} : money'[q] = money[q]
  BY <1>1, <1>3, <1>4, PayMoney
<1>7. /\ AllBids(auctions') = AllBids(auctions) - e.bid - Deposit
      /\ \A q : BidsOf(q, auctions') = BidsOf(q, auctions) - PotFor(q, e)
      /\ FairHouse(auctions')
  BY <1>1, EndedMoney DEF e
<1>8. /\ FairBox(mails')
      /\ AllMail(mails') = AllMail(mails) + e.bid
      /\ \A q \in Players : MailFor(q, mails') = MailFor(q, mails) + PotFor(q, e)
  <2>1. CASE OutbiddedMails(e) = {} /\ e.bid = 0 /\ \A q \in Players : PotFor(q, e) = 0
    <3>1. drafts = {x} /\ drafts \in SUBSET MailEntry
      BY <1>5, <2>1
    <3> HIDE DEF drafts
    <3>2. /\ AllMail(mails') = AllMail(mails) + Cash(x)
          /\ \A q : MailFor(q, mails') = MailFor(q, mails) + CashFor(q, x)
      BY <1>1, <1>3, <1>5, <3>1, SentOne
    <3>3. FairBox(mails')
      BY <1>1, <1>3, <1>5, <3>1, SentMails
    <3> QED BY <1>5, <2>1, <3>2, <3>3
  <2>2. ASSUME NEW d \in MailEntry, OutbiddedMails(e) = {d}, FairMail(d), d.items = {},
               Cash(d) = e.bid, \A q \in Players : CashFor(q, d) = PotFor(q, e)
        PROVE  /\ FairBox(mails')
               /\ AllMail(mails') = AllMail(mails) + e.bid
               /\ \A q \in Players : MailFor(q, mails') = MailFor(q, mails) + PotFor(q, e)
    <3>1. drafts = {d, x} /\ d # x /\ drafts \in SUBSET MailEntry
      BY <1>5, <2>2
    <3> HIDE DEF drafts
    <3>2. /\ AllMail(mails') = AllMail(mails) + Cash(d) + Cash(x)
          /\ \A q : MailFor(q, mails') = MailFor(q, mails) + CashFor(q, d) + CashFor(q, x)
      BY <1>1, <1>3, <1>5, <3>1, SentTwo
    <3>3. FairBox(mails')
      BY <1>1, <1>3, <1>5, <2>2, <3>1, SentMails
    <3>4. AllMail(mails') = AllMail(mails) + e.bid
      BY ONLY <1>2, <1>3, <1>5, <2>2, <3>2
    <3>5. \A q \in Players : MailFor(q, mails') = MailFor(q, mails) + PotFor(q, e)
      BY ONLY <1>2, <1>3, <1>5, <2>2, <3>2
    <3> QED BY <3>3, <3>4, <3>5
  <2> QED BY <1>2, <2>1, <2>2, Refund
<1>9. Balanced
  <2>1. SumFunction(money') + AllMail(mails') + AllBids(auctions') + sunk'
          = SumFunction(money) + AllMail(mails) + AllBids(auctions) + sunk
    BY ONLY <1>1, <1>2, <1>3, <1>4, <1>6, <1>7, <1>8
  <2>2. sunk' \in Nat
    BY ONLY <1>1, <1>3, <1>4
  <2> QED BY <1>7, <1>8, <2>1, <2>2 DEF Balanced, Grand
<1>10. ASSUME NEW q \in Players \ {p} PROVE ~Poorer(q)
  <2>1. money'[q] + BidsOf(q, auctions') + MailFor(q, mails')
          = money[q] + BidsOf(q, auctions) + MailFor(q, mails)
    BY ONLY <1>2, <1>3, <1>6, <1>7, <1>8
  <2>2. money[q] + BidsOf(q, auctions) + MailFor(q, mails) \in Nat
    BY ONLY <1>3
  <2> QED BY ONLY <2>1, <2>2 DEF Poorer, Fortune
<1> QED BY <1>9, <1>10

\* That an auction becomes due moves no money.
LEMMA DueMoney ==
  ASSUME MoneyInv, NEW a \in AuctionIds, AuctionDue(a)
  PROVE  Balanced /\ \A q \in Players : ~Poorer(q)
<1> DEFINE e == auctions[a]
           f == [e EXCEPT !.due = TRUE]
<1>1. a \in Running /\ UNCHANGED <<money, mails, sunk>>
  BY DEF AuctionDue
<1>2. /\ auctions \in House /\ mails \in Box /\ FairBox(mails) /\ FairHouse(auctions)
      /\ sunk \in Nat
      /\ SumFunction(money) \in Nat /\ AllMail(mails) \in Nat /\ AllBids(auctions) \in Nat
      /\ \A q \in Players : /\ money[q] \in Nat /\ MailFor(q, mails) \in Nat
                            /\ BidsOf(q, auctions) \in Nat
  BY Numbers
<1>3. /\ e \in AuctionEntry /\ FairEntry(e) /\ e # NoAuction
  BY <1>1, FairEntryOf
<1>4. /\ f \in AuctionEntry /\ f # NoAuction /\ f.bidder = e.bidder /\ f.bid = e.bid
      /\ f.owner = e.owner /\ f.startbid = e.startbid
  <2>1. f \in AuctionEntry
    BY <1>3 DEF AuctionEntry
  <2> QED BY <1>3, <2>1, Constants DEF AuctionEntry
<1>5. auctions' = [auctions EXCEPT ![a] = f]
  BY <1>2 DEF AuctionDue, House
<1> HIDE DEF e, f
<1>6. /\ FairEntry(f) /\ Pot(f) = Pot(e) /\ Pot(e) \in Nat
      /\ \A q : PotFor(q, f) = PotFor(q, e) /\ PotFor(q, e) \in Nat
  BY <1>3, <1>4, PotCounted DEF FairEntry, Pot, PotFor
<1>7. /\ AllBids(auctions') = AllBids(auctions) - Pot(e) + Pot(f)
      /\ \A q : BidsOf(q, auctions') = BidsOf(q, auctions) - PotFor(q, e) + PotFor(q, f)
  BY <1>2, <1>4, <1>5, BidPut DEF e
<1>8. FairHouse(auctions')
  <2>1. \A b \in AuctionIds : auctions'[b] = IF b = a THEN f ELSE auctions[b]
    BY <1>2, <1>5 DEF House
  <2> QED BY <1>2, <1>6, <2>1 DEF FairHouse
<1>9. /\ FairBox(mails') /\ AllMail(mails') = AllMail(mails)
      /\ \A q : MailFor(q, mails') = MailFor(q, mails)
  BY <1>1, <1>2, SameBox
<1>10. /\ AllBids(auctions') = AllBids(auctions)
       /\ \A q \in Players : BidsOf(q, auctions') = BidsOf(q, auctions)
  BY ONLY <1>2, <1>6, <1>7
<1>11. Balanced
  BY <1>1, <1>2, <1>8, <1>9, <1>10 DEF Balanced, Grand
<1>12. ASSUME NEW q \in Players PROVE ~Poorer(q)
  <2>1. money[q] + BidsOf(q, auctions) + MailFor(q, mails) \in Nat
    BY ONLY <1>2
  <2>2. money'[q] + BidsOf(q, auctions') + MailFor(q, mails')
          = money[q] + BidsOf(q, auctions) + MailFor(q, mails)
    BY <1>1, <1>9, <1>10
  <2> QED BY ONLY <2>1, <2>2 DEF Poorer, Fortune
<1> QED BY <1>11, <1>12

\* An auction that ends is paid to its owner, or its deposit is lost; only the
\* bidder, who has the item, has less.
LEMMA UpdateMoney ==
  ASSUME MoneyInv, NEW a \in AuctionIds, Update(a)
  PROVE  /\ Balanced
         /\ \A q \in Players : q # auctions[a].bidder => ~Poorer(q)
         /\ auctions[a].bidder # NoPlayer => Sold(auctions[a])
<1> DEFINE e == auctions[a]
           cut == GetAuctionCut(e.bid)
<1>1. a \in Running /\ Ended(a) /\ UNCHANGED money
  BY DEF Update
<1>2. /\ TypeOK /\ auctions \in House /\ mails \in Box /\ FairBox(mails) /\ FairHouse(auctions)
      /\ sunk \in Nat /\ Deposit \in Nat
      /\ SumFunction(money) \in Nat /\ AllMail(mails) \in Nat /\ AllBids(auctions) \in Nat
      /\ \A q \in Players : /\ money[q] \in Nat /\ MailFor(q, mails) \in Nat
                            /\ BidsOf(q, auctions) \in Nat
  BY Numbers
<1>3. /\ e \in AuctionEntry /\ FairEntry(e) /\ e.bid \in Nat /\ e.startbid \in Nat
      /\ e.buyout \in Nat /\ e.owner \in Players /\ e # NoAuction
      /\ \A q : PotFor(q, e) \in Nat
  BY <1>1, FairEntryOf DEF AuctionEntry
<1>4. \A q : q # e.bidder => PotFor(q, e) = 0
  BY DEF PotFor
<1>5. /\ cut \in Nat /\ Price(e.bid) \in Nat /\ Price(e.bid) + cut = e.bid + Deposit
  BY <1>3, Prices
<1>6. /\ AllBids(auctions') = AllBids(auctions) - e.bid - Deposit
      /\ \A q : BidsOf(q, auctions') = BidsOf(q, auctions) - PotFor(q, e)
      /\ FairHouse(auctions')
  BY <1>1, EndedMoney
<1>7. CASE e.bidder = NoPlayer
  <2> DEFINE x == ExpiredMail(e)
             drafts == {x}
  <2>1. SendMailTo(mails, drafts) /\ sunk' = sunk + Deposit
    BY <1>7 DEF Update
  <2>2. e.bid = 0
    BY <1>3, <1>7 DEF FairEntry
  <2> HIDE DEF e
  <2>3. x \in MailEntry /\ FairMail(x) /\ Cash(x) = 0 /\ \A q : CashFor(q, x) = 0
    <3> HIDE DEF x
    <3>1. x = ExpiredMail(e)
      BY DEF x
    <3> QED BY <1>3, <3>1, ExpiredDraft
  <2>4. drafts \in SUBSET MailEntry /\ drafts = {x} /\ \A d \in drafts : FairMail(d)
    BY <2>3
  <2> HIDE DEF x, drafts
  <2>5. /\ AllMail(mails') = AllMail(mails) + Cash(x)
        /\ \A q : MailFor(q, mails') = MailFor(q, mails) + CashFor(q, x)
    BY <1>2, <2>1, <2>3, <2>4, SentOne
  <2>6. FairBox(mails')
    BY <1>2, <2>1, <2>4, SentMails
  <2>7. Balanced
    <3>1. SumFunction(money') = SumFunction(money)
      BY <1>1
    <3>2. SumFunction(money') + AllMail(mails') + AllBids(auctions') + sunk'
            = SumFunction(money) + AllMail(mails) + AllBids(auctions) + sunk
      BY ONLY <1>2, <1>3, <1>6, <2>1, <2>2, <2>3, <2>5, <3>1
    <3>3. sunk' \in Nat
      BY ONLY <1>2, <2>1
    <3> QED BY <1>6, <2>6, <3>2, <3>3 DEF Balanced, Grand
  <2>8. ASSUME NEW q \in Players, q # e.bidder PROVE ~Poorer(q)
    <3>1. money'[q] = money[q] /\ PotFor(q, e) = 0
      BY <1>1, <1>4, <2>8 DEF e
    <3>2. money'[q] + BidsOf(q, auctions') + MailFor(q, mails')
            = money[q] + BidsOf(q, auctions) + MailFor(q, mails)
      BY ONLY <1>2, <1>6, <2>3, <2>5, <3>1
    <3>3. money[q] + BidsOf(q, auctions) + MailFor(q, mails) \in Nat
      BY ONLY <1>2
    <3> QED BY ONLY <3>2, <3>3 DEF Poorer, Fortune
  <2> QED BY <1>7, <2>7, <2>8 DEF e
<1>8. CASE e.bidder # NoPlayer
  <2> DEFINE back == {}
  <2>1. /\ SendMailTo(mails, {SuccessfulMail(e), WonMail(e)} \cup back) /\ sunk' = sunk + cut
        /\ back \in SUBSET OutbiddedMails(e) /\ back = {}
    BY <1>8 DEF Update
  <2> HIDE DEF e, back, cut
  <2>2. /\ FairBox(mails')
        /\ AllMail(mails') = AllMail(mails) + Price(e.bid) + IF back = {} THEN 0 ELSE e.bid
        /\ \A q \in Players :
             MailFor(q, mails')
               = MailFor(q, mails) + (IF q = e.owner THEN Price(e.bid) ELSE 0)
                 + IF back = {} THEN 0 ELSE PotFor(q, e)
    BY <1>2, <1>3, <1>8, <2>1, SaleSent
  <2>3. /\ AllMail(mails') = AllMail(mails) + Price(e.bid)
        /\ \A q \in Players :
             MailFor(q, mails') = MailFor(q, mails) + IF q = e.owner THEN Price(e.bid) ELSE 0
    BY ONLY <1>2, <1>5, <2>1, <2>2
  <2>4. Balanced
    <3>1. SumFunction(money') = SumFunction(money)
      BY <1>1
    <3>2. SumFunction(money') + AllMail(mails') + AllBids(auctions') + sunk'
            = SumFunction(money) + AllMail(mails) + AllBids(auctions) + sunk
      BY ONLY <1>2, <1>3, <1>5, <1>6, <2>1, <2>3, <3>1
    <3>3. sunk' \in Nat
      BY ONLY <1>2, <1>5, <2>1
    <3> QED BY <1>6, <2>2, <3>2, <3>3 DEF Balanced, Grand
  <2>5. ASSUME NEW q \in Players, q # e.bidder
        PROVE  money'[q] + BidsOf(q, auctions') + MailFor(q, mails')
                 = money[q] + BidsOf(q, auctions) + MailFor(q, mails)
                   + IF q = e.owner THEN Price(e.bid) ELSE 0
    <3>1. money'[q] = money[q] /\ PotFor(q, e) = 0
      BY <1>1, <1>4, <2>5 DEF e
    <3> QED BY ONLY <1>2, <1>5, <1>6, <2>3, <3>1
  <2>6. ASSUME NEW q \in Players, q # e.bidder PROVE ~Poorer(q)
    <3>1. money[q] + BidsOf(q, auctions) + MailFor(q, mails) \in Nat
      BY ONLY <1>2
    <3>2. /\ money'[q] + BidsOf(q, auctions') + MailFor(q, mails')
               >= money[q] + BidsOf(q, auctions) + MailFor(q, mails)
          /\ money'[q] + BidsOf(q, auctions') + MailFor(q, mails') \in Int
      BY ONLY <1>5, <2>5, <2>6, <3>1
    <3> QED BY ONLY <3>1, <3>2 DEF Poorer, Fortune
  <2>7. Sold(e)
    <3> DEFINE q == e.owner
    <3>1. q \in Players /\ q # e.bidder /\ q = e.owner
      BY <1>3 DEF FairEntry
    <3>2. money[q] + BidsOf(q, auctions) + MailFor(q, mails) \in Nat
      BY ONLY <1>2, <3>1
    <3> HIDE DEF q
    <3>3. money'[q] + BidsOf(q, auctions') + MailFor(q, mails')
            = money[q] + BidsOf(q, auctions) + MailFor(q, mails) + Price(e.bid)
      BY ONLY <2>5, <3>1
    <3>4. Price(Asked(e)) <= Price(e.bid) /\ Price(Asked(e)) \in Nat
      <4>1. Asked(e) \in Nat /\ Asked(e) <= e.bid
        BY <1>3, <1>8 DEF Asked, FairEntry
      <4> QED BY <1>3, <4>1, Prices
    <3>5. money'[q] + BidsOf(q, auctions') + MailFor(q, mails')
            >= money[q] + BidsOf(q, auctions) + MailFor(q, mails) + Price(Asked(e))
      BY ONLY <1>5, <3>2, <3>3, <3>4
    <3> QED BY <3>1, <3>5 DEF Sold, Fortune
  <2> QED BY <2>4, <2>6, <2>7 DEF e
<1> QED BY <1>7, <1>8

-----------------------------------------------------------------------------
(* Mail.                                                                   *)

\* A draft of one player to another is fair.
LEMMA PlayerDraft ==
  ASSUME NEW s \in Players, NEW p \in Players, s # p, NEW items \in SUBSET Items,
         NEW amount \in Nat, NEW cod \in Nat, NEW delivered \in BOOLEAN,
         NEW returned \in BOOLEAN,
         NEW d, d = PlayerMail(s, p, items, amount, cod, delivered, returned)
  PROVE  /\ d \in MailEntry /\ FairMail(d) /\ Cash(d) = amount
         /\ \A q : CashFor(q, d) = IF q = p THEN amount ELSE 0
<1>1. d \in MailEntry
  BY PlayerMailType
<1>2. /\ d.receiver = p /\ d.sender = s /\ d.money = amount /\ d.state = StateFor(p)
  BY DEF PlayerMail
<1>3. FairMail(d)
  BY <1>2, Constants DEF FairMail
<1>4. Cash(d) = amount /\ \A q : CashFor(q, d) = IF q = p THEN amount ELSE 0
  BY <1>1, <1>2, Draft
<1> QED BY <1>1, <1>3, <1>4

\* A mail that is sent is fair.
LEMMA FairMailOf ==
  ASSUME MoneyInv, NEW k \in Sent
  PROVE  /\ k \in MailIds /\ mails[k] \in MailEntry /\ mails[k] # NoMail /\ FairMail(mails[k])
         /\ Cash(mails[k]) = mails[k].money /\ mails[k].money \in Nat
         /\ \A q : CashFor(q, mails[k]) \in Nat
<1>1. k \in MailIds /\ mails[k] \in MailEntry /\ mails[k] # NoMail
  BY Numbers DEF Sent, Box
<1>2. FairMail(mails[k])
  BY <1>1, Numbers DEF FairBox
<1>3. \A q : CashFor(q, mails[k]) \in Nat
  BY <1>1, CashCounted
<1> QED BY <1>1, <1>2, <1>3 DEF Cash, MailEntry

\* Another mail in one place, where nothing else moves money.
LEMMA PutMoney ==
  ASSUME MoneyInv, NEW k \in MailIds, NEW m \in MailEntry \cup {NoMail},
         m # NoMail => FairMail(m),
         mails' = [mails EXCEPT ![k] = m], UNCHANGED <<money, auctions>>,
         sunk' = sunk + Cash(mails[k]) - Cash(m), Cash(m) <= Cash(mails[k])
  PROVE  /\ Balanced
         /\ \A q \in Players : CashFor(q, m) >= CashFor(q, mails[k]) => ~Poorer(q)
<1>1. /\ auctions \in House /\ mails \in Box /\ FairBox(mails) /\ FairHouse(auctions)
      /\ sunk \in Nat
      /\ SumFunction(money) \in Nat /\ AllMail(mails) \in Nat /\ AllBids(auctions) \in Nat
      /\ \A q \in Players : /\ money[q] \in Nat /\ MailFor(q, mails) \in Nat
                            /\ BidsOf(q, auctions) \in Nat
  BY Numbers
<1>2. mails[k] \in MailEntry \cup {NoMail}
  BY <1>1 DEF Box
<1>3. /\ Cash(mails[k]) \in Nat /\ Cash(m) \in Nat
      /\ \A q : CashFor(q, mails[k]) \in Nat /\ CashFor(q, m) \in Nat
  BY <1>2, CashCounted
<1>4. /\ AllMail(mails') = AllMail(mails) - Cash(mails[k]) + Cash(m)
      /\ \A q : MailFor(q, mails') = MailFor(q, mails) - CashFor(q, mails[k]) + CashFor(q, m)
  BY <1>1, MailPut
<1>5. FairBox(mails')
  <2>1. \A j \in MailIds : mails'[j] = IF j = k THEN m ELSE mails[j]
    BY <1>1 DEF Box
  <2> QED BY <1>1, <2>1 DEF FairBox
<1>6. Balanced
  <2>1. SumFunction(money') + AllMail(mails') + AllBids(auctions') + sunk'
          = SumFunction(money) + AllMail(mails) + AllBids(auctions) + sunk
    <3>1. SumFunction(money') = SumFunction(money) /\ AllBids(auctions') = AllBids(auctions)
      OBVIOUS
    <3>2. sunk' = sunk + Cash(mails[k]) - Cash(m)
      OBVIOUS
    <3> QED BY ONLY <1>1, <1>3, <1>4, <3>1, <3>2
  <2>2. sunk' \in Nat
    BY <1>1, <1>3
  <2>3. FairHouse(auctions')
    BY <1>1, SameHouse
  <2> QED BY <1>5, <2>1, <2>2, <2>3 DEF Balanced, Grand
<1>7. ASSUME NEW q \in Players, CashFor(q, m) >= CashFor(q, mails[k]) PROVE ~Poorer(q)
  <2>1. money'[q] = money[q] /\ BidsOf(q, auctions') = BidsOf(q, auctions)
    OBVIOUS
  <2>2. money[q] + BidsOf(q, auctions) + MailFor(q, mails) \in Nat
    BY ONLY <1>1
  <2>3. /\ money'[q] + BidsOf(q, auctions') + MailFor(q, mails')
             >= money[q] + BidsOf(q, auctions) + MailFor(q, mails)
        /\ money'[q] + BidsOf(q, auctions') + MailFor(q, mails') \in Int
    BY ONLY <1>1, <1>3, <1>4, <1>7, <2>1
  <2> QED BY ONLY <2>2, <2>3 DEF Poorer, Fortune
<1> QED BY <1>6, <1>7

\* Sending takes the postage and what is sent from the sender.
LEMMA SendMoney ==
  ASSUME MoneyInv, NEW p \in Players, NEW r \in Players, NEW items \in SUBSET Items,
         NEW amount \in Nat, NEW cod \in Nat, HandleSendMail(p, r, items, amount, cod)
  PROVE  Balanced /\ \A q \in Players \ {p} : ~Poorer(q)
<1> DEFINE late == Undelayed(p, r, items)
           no == FALSE
           d == PlayerMail(p, r, items, amount, cod, late, no)
           drafts == {d}
           c == Cost(items)
<1>1. /\ TypeOK /\ auctions \in House /\ mails \in Box /\ FairBox(mails) /\ FairHouse(auctions)
      /\ sunk \in Nat
      /\ SumFunction(money) \in Nat /\ AllMail(mails) \in Nat /\ AllBids(auctions) \in Nat
      /\ \A q \in Players : /\ money[q] \in Nat /\ MailFor(q, mails) \in Nat
                            /\ BidsOf(q, auctions) \in Nat
  BY Numbers
<1>2. /\ p # r /\ c + amount <= money[p] /\ Pay(p, c + amount) /\ sunk' = sunk + c
      /\ SendMailTo(mails, drafts) /\ UNCHANGED auctions /\ c \in Nat
  BY <1>1, CostType DEF HandleSendMail
<1>3. late \in BOOLEAN /\ no \in BOOLEAN /\ d = PlayerMail(p, r, items, amount, cod, late, no)
  BY UndelayedType
<1> HIDE DEF late, no, d
<1>4. /\ d \in MailEntry /\ FairMail(d) /\ Cash(d) = amount
      /\ \A q : CashFor(q, d) = IF q = r THEN amount ELSE 0
  BY <1>2, <1>3, PlayerDraft
<1>5. drafts = {d} /\ drafts \in SUBSET MailEntry /\ \A b \in drafts : FairMail(b)
  BY <1>4
<1> HIDE DEF drafts, c
<1>6. /\ AllMail(mails') = AllMail(mails) + Cash(d)
      /\ \A q : MailFor(q, mails') = MailFor(q, mails) + CashFor(q, d)
  BY <1>1, <1>2, <1>4, <1>5, SentOne
<1>7. FairBox(mails')
  BY <1>1, <1>2, <1>5, SentMails
<1> DEFINE n == c + amount
<1>8. n \in Nat /\ n = c + amount /\ n <= money[p] /\ Pay(p, n)
  BY <1>2
<1> HIDE DEF n
<1>9. /\ SumFunction(money') = SumFunction(money) - n
      /\ \A q \in Players \ {p} : money'[q] = money[q]
  BY <1>1, <1>8, PayMoney
<1>10. /\ FairHouse(auctions') /\ AllBids(auctions') = AllBids(auctions)
       /\ \A q : BidsOf(q, auctions') = BidsOf(q, auctions)
  BY <1>1, <1>2, SameHouse
<1>11. amount \in Nat
  OBVIOUS
<1>12. Balanced
  <2>1. SumFunction(money') + AllMail(mails') + AllBids(auctions') + sunk'
          = SumFunction(money) + AllMail(mails) + AllBids(auctions) + sunk
    BY ONLY <1>1, <1>2, <1>4, <1>6, <1>8, <1>9, <1>10, <1>11
  <2>2. sunk' \in Nat
    BY ONLY <1>1, <1>2
  <2> QED BY <1>7, <1>10, <2>1, <2>2 DEF Balanced, Grand
<1>13. ASSUME NEW q \in Players \ {p} PROVE ~Poorer(q)
  <2>1. money[q] + BidsOf(q, auctions) + MailFor(q, mails) \in Nat
    BY ONLY <1>1
  <2>2. /\ money'[q] + BidsOf(q, auctions') + MailFor(q, mails')
             >= money[q] + BidsOf(q, auctions) + MailFor(q, mails)
        /\ money'[q] + BidsOf(q, auctions') + MailFor(q, mails') \in Int
    BY ONLY <1>1, <1>4, <1>6, <1>9, <1>10, <1>11
  <2> QED BY ONLY <2>1, <2>2 DEF Poorer, Fortune
<1> QED BY <1>12, <1>13

\* Reading and deleting.
LEMMA MarkMoney ==
  ASSUME MoneyInv, NEW p \in Players, NEW k \in MailIds,
         HandleMailMarkAsRead(p, k) \/ HandleMailDelete(p, k)
  PROVE  Balanced /\ \A q \in Players \ {p} : ~Poorer(q)
<1> DEFINE m == mails[k]
<1>1. /\ k \in Sent /\ m.receiver = p /\ UNCHANGED <<money, auctions>> /\ sunk' = sunk
      /\ \E s \in {"listed", "deleted"} : mails' = [mails EXCEPT ![k].state = s]
  BY DEF HandleMailMarkAsRead, HandleMailDelete, HasMail
<1>2. PICK s \in {"listed", "deleted"} : mails' = [mails EXCEPT ![k].state = s]
  BY <1>1
<1> DEFINE n == [m EXCEPT !.state = s]
<1>3. mails \in Box /\ sunk \in Nat
  BY Numbers
<1>4. mails' = [mails EXCEPT ![k] = n]
  BY <1>2, <1>3 DEF Box
<1>5. /\ m \in MailEntry /\ FairMail(m) /\ m # NoMail /\ Cash(m) \in Nat
      /\ \A q : CashFor(q, m) \in Nat
  BY <1>1, FairMailOf
<1>6. /\ n \in MailEntry /\ n # NoMail /\ n.receiver = m.receiver /\ n.sender = m.sender
      /\ n.COD = m.COD /\ n.money = m.money
  <2>1. n \in MailEntry
    BY <1>5, MailWith
  <2> QED BY <1>5, <2>1, Constants DEF MailEntry
<1> HIDE DEF n, m
<1>7. FairMail(n) /\ Cash(n) = Cash(m)
  BY <1>5, <1>6 DEF FairMail, Cash
<1>8. \A q \in Players \ {p} : CashFor(q, n) = 0 /\ CashFor(q, m) = 0
  BY <1>1, <1>6 DEF CashFor
<1>9. sunk' = sunk + Cash(mails[k]) - Cash(n) /\ Cash(n) <= Cash(mails[k])
  BY <1>1, <1>3, <1>5, <1>7 DEF m
<1>10. /\ Balanced
       /\ \A q \in Players : CashFor(q, n) >= CashFor(q, mails[k]) => ~Poorer(q)
  BY <1>1, <1>4, <1>6, <1>7, <1>9, PutMoney
<1>11. \A q \in Players \ {p} : CashFor(q, n) >= CashFor(q, mails[k])
  BY <1>8 DEF m
<1> QED BY <1>10, <1>11

\* A mail that arrives.
LEMMA DeliveredMoney ==
  ASSUME MoneyInv, NEW k \in MailIds, MailDelivered(k)
  PROVE  Balanced /\ \A q \in Players : ~Poorer(q)
<1> DEFINE m == mails[k]
           n == [m EXCEPT !.delivered = TRUE]
<1>1. k \in Sent /\ UNCHANGED <<money, auctions>> /\ sunk' = sunk
  BY DEF MailDelivered
<1>2. mails \in Box /\ sunk \in Nat
  BY Numbers
<1>3. mails' = [mails EXCEPT ![k] = n]
  BY <1>2 DEF MailDelivered, Box
<1>4. /\ m \in MailEntry /\ FairMail(m) /\ m # NoMail /\ Cash(m) \in Nat
      /\ \A q : CashFor(q, m) \in Nat
  BY <1>1, FairMailOf
<1>5. /\ n \in MailEntry /\ n # NoMail /\ n.receiver = m.receiver /\ n.sender = m.sender
      /\ n.COD = m.COD /\ n.money = m.money /\ n.state = m.state
  <2>1. n \in MailEntry
    BY <1>4, MailWith
  <2> QED BY <1>4, <2>1, Constants DEF MailEntry
<1> HIDE DEF n, m
<1>6. FairMail(n) /\ Cash(n) = Cash(m) /\ \A q : CashFor(q, n) = CashFor(q, m)
  BY <1>4, <1>5 DEF FairMail, Cash, CashFor
<1>7. sunk' = sunk + Cash(mails[k]) - Cash(n) /\ Cash(n) <= Cash(mails[k])
  BY <1>1, <1>2, <1>4, <1>6 DEF m
<1>8. /\ Balanced
      /\ \A q \in Players : CashFor(q, n) >= CashFor(q, mails[k]) => ~Poorer(q)
  BY <1>1, <1>3, <1>5, <1>6, <1>7, PutMoney
<1>9. \A q \in Players : CashFor(q, n) >= CashFor(q, mails[k])
  BY <1>4, <1>6 DEF m
<1> QED BY <1>8, <1>9

\* An expired mail goes back with its money, or its money is lost.
LEMMA ExpiresMoney ==
  ASSUME MoneyInv, NEW k \in MailIds, MailExpires(k)
  PROVE  /\ Balanced
         /\ \A q \in Players :
              q # mails[k].receiver \/ mails[k].state = "deleted" => ~Poorer(q)
<1> DEFINE m == mails[k]
           b == [m EXCEPT !.sender = m.receiver, !.receiver = m.sender, !.COD = 0,
                          !.returned = TRUE, !.state = "stored"]
           n == IF Returnable(m) THEN b ELSE NoMail
<1>1. k \in Sent /\ UNCHANGED <<money, auctions>> /\ mails' = [mails EXCEPT ![k] = n]
  BY DEF MailExpires
<1>2. sunk' = sunk + IF Returnable(m) THEN 0 ELSE m.money
  BY Numbers DEF MailExpires
<1>3. sunk \in Nat
  BY Numbers
<1>4. /\ m \in MailEntry /\ FairMail(m) /\ m # NoMail /\ Cash(m) = m.money /\ m.money \in Nat
      /\ \A q : CashFor(q, m) \in Nat
  BY <1>1, FairMailOf
<1>5. Returnable(m) => /\ b \in MailEntry /\ b # NoMail /\ b.receiver = m.sender
                       /\ b.sender = m.receiver /\ b.COD = 0 /\ b.money = m.money
  <2>1. Returnable(m) => b \in MailEntry
    BY <1>4, MailWith DEF Returnable
  <2> QED BY <1>4, <2>1, Constants DEF MailEntry
<1> HIDE DEF b
<1>6. /\ n # NoMail => FairMail(n)
      /\ Cash(n) = IF Returnable(m) THEN m.money ELSE 0
  <2>1. CASE Returnable(m)
    BY <1>4, <1>5, <2>1, Constants DEF FairMail, Cash
  <2>2. CASE ~Returnable(m)
    BY <2>2 DEF Cash
  <2> QED BY <2>1, <2>2
<1>7. \A q \in Players : q # m.receiver \/ m.state = "deleted" => CashFor(q, m) = 0
  BY DEF CashFor, Live
<1>8. n \in MailEntry \cup {NoMail}
  BY <1>5
<1>9. \A q : CashFor(q, n) \in Nat
  BY <1>8, CashCounted
<1> HIDE DEF n, m
<1>10. sunk' = sunk + Cash(mails[k]) - Cash(n) /\ Cash(n) <= Cash(mails[k])
  BY <1>2, <1>3, <1>4, <1>6 DEF m
<1>11. /\ Balanced
       /\ \A q \in Players : CashFor(q, n) >= CashFor(q, mails[k]) => ~Poorer(q)
  BY <1>1, <1>6, <1>8, <1>10, PutMoney
<1>12. \A q \in Players : q # mails[k].receiver \/ mails[k].state = "deleted"
                           => CashFor(q, n) >= CashFor(q, mails[k])
  BY <1>7, <1>9 DEF m
<1> QED BY <1>11, <1>12

\* Fair mails stay so when they are saved or relisted.
LEMMA FairSaved ==
  ASSUME NEW box \in Box, FairBox(box), NEW p
  PROVE  /\ FairBox(SaveMail(p, box))
         /\ \A s \in Live : FairBox(Relisted(p, box, s))
<1>1. FairBox(SaveMail(p, box))
  BY DEF FairBox, SaveMail
<1>2. ASSUME NEW s \in Live PROVE FairBox(Relisted(p, box, s))
  <2> DEFINE new == Relisted(p, box, s)
  <2>1. ASSUME NEW k \in MailIds, new[k] # NoMail PROVE FairMail(new[k])
    <3>1. new[k] = IF box[k] # NoMail /\ box[k].receiver = p
                   THEN [box[k] EXCEPT !.state = s] ELSE box[k]
      BY DEF Relisted
    <3> HIDE DEF new
    <3>2. box[k] # NoMail
      BY <2>1, <3>1
    <3>3. box[k] \in MailEntry /\ FairMail(box[k])
      BY <3>2 DEF Box, FairBox
    <3>4. FairMail([box[k] EXCEPT !.state = s])
      BY <3>3 DEF FairMail, MailEntry
    <3> QED BY <3>1, <3>3, <3>4
  <2> QED BY <2>1 DEF FairBox
<1> QED BY <1>1, <1>2

\* What the deleted mails hold does not change with one that is not deleted.
LEMMA DeletedMoney ==
  ASSUME NEW box \in Box, NEW k \in MailIds, NEW m \in MailEntry,
         box[k].state # "deleted", m.state # "deleted", NEW p
  PROVE  MoneyIn([box EXCEPT ![k] = m], Deleted(p, [box EXCEPT ![k] = m]))
           = MoneyIn(box, Deleted(p, box))
<1> DEFINE new == [box EXCEPT ![k] = m]
           R == {p}
           S == {"deleted"}
<1>1. new \in Box
  BY BoxWith DEF Box
<1>2. m \in MailEntry \cup {NoMail}
  OBVIOUS
<1>3. Worth(box[k], R, S) = 0 /\ Worth(m, R, S) = 0
  BY DEF Worth
<1>4. InBox(new, R, S) = InBox(box, R, S) - Worth(box[k], R, S) + Worth(m, R, S)
  <2> HIDE DEF R, S
  <2> QED BY <1>2, InBoxWith
<1>5. InBox(box, R, S) \in Nat
  BY InBoxSum
<1> HIDE DEF new
<1>6. MoneyIn(new, Deleted(p, new)) = InBox(new, R, S)
  BY <1>1, MoneyCounted
<1>7. MoneyIn(box, Deleted(p, box)) = InBox(box, R, S)
  BY MoneyCounted
<1>8. MoneyIn(new, Deleted(p, new)) = MoneyIn(box, Deleted(p, box))
  BY ONLY <1>3, <1>4, <1>5, <1>6, <1>7
<1> QED BY <1>8 DEF new

\* What may be opened.
LEMMA OpenMail ==
  ASSUME MoneyInv, NEW p, NEW k \in MailIds, Open(p, k)
  PROVE  k \in Sent /\ mails[k].receiver = p /\ mails[k].state # "deleted"
BY DEF Open, HasMail

\* A mail that goes back takes its money along, and that of one of the auction
\* house is lost.
LEMMA ReturnMoney ==
  ASSUME MoneyInv, NEW p \in Players, NEW k \in MailIds, HandleMailReturnToSender(p, k)
  PROVE  Balanced /\ \A q \in Players \ {p} : ~Poorer(q)
<1> DEFINE m == mails[k]
           kept == [mails EXCEPT ![k] = NoMail]
<1>1. k \in Sent /\ m.receiver = p
  BY OpenMail DEF HandleMailReturnToSender
<1>2. /\ m \in MailEntry /\ FairMail(m) /\ m # NoMail /\ Cash(m) = m.money /\ m.money \in Nat
      /\ m.items \in SUBSET Items /\ m.sender \in Players \cup {NoPlayer}
      /\ \A q : CashFor(q, m) \in Nat
  BY <1>1, FairMailOf DEF MailEntry
<1>3. /\ auctions \in House /\ mails \in Box /\ FairBox(mails) /\ FairHouse(auctions)
      /\ sunk \in Nat
      /\ SumFunction(money) \in Nat /\ AllMail(mails) \in Nat /\ AllBids(auctions) \in Nat
      /\ \A q \in Players : /\ money[q] \in Nat /\ MailFor(q, mails) \in Nat
                            /\ BidsOf(q, auctions) \in Nat
  BY Numbers
<1>4. UNCHANGED <<money, auctions>>
  BY DEF HandleMailReturnToSender
<1>5. \A q \in Players \ {p} : CashFor(q, m) = 0
  BY <1>1 DEF CashFor
<1>6. Cash(NoMail) = 0 /\ \A q : CashFor(q, NoMail) = 0
  BY DEF Cash, CashFor
<1>7. CASE m.sender = NoPlayer
  <2> DEFINE n == NoMail
  <2>1. mails' = [mails EXCEPT ![k] = n] /\ sunk' = sunk + m.money /\ n \in MailEntry \cup {NoMail}
    BY <1>7 DEF HandleMailReturnToSender
  <2>2. n # NoMail => FairMail(n)
    OBVIOUS
  <2>3. Cash(n) = 0 /\ \A q : CashFor(q, n) = 0
    BY <1>6
  <2> HIDE DEF n, m
  <2>4. sunk' = sunk + Cash(mails[k]) - Cash(n) /\ Cash(n) <= Cash(mails[k])
    BY <1>2, <1>3, <2>1, <2>3 DEF m
  <2>5. /\ Balanced
        /\ \A q \in Players : CashFor(q, n) >= CashFor(q, mails[k]) => ~Poorer(q)
    BY <1>4, <2>1, <2>2, <2>4, PutMoney
  <2>6. \A q \in Players \ {p} : CashFor(q, n) >= CashFor(q, mails[k])
    BY <1>5, <2>3 DEF m
  <2> QED BY <2>5, <2>6
<1>8. CASE m.sender # NoPlayer
  <2> DEFINE s == m.sender
             items == m.items
             amount == m.money
             zero == 0
             yes == TRUE
             late == Undelayed(p, s, items)
             d == PlayerMail(p, s, items, amount, zero, late, yes)
             drafts == {d}
  <2>1. SendMailTo(kept, drafts) /\ sunk' = sunk
    BY <1>8 DEF HandleMailReturnToSender
  <2>2. /\ s \in Players /\ p # s /\ items \in SUBSET Items /\ amount \in Nat /\ zero \in Nat
        /\ yes \in BOOLEAN /\ late \in BOOLEAN
    BY <1>1, <1>2, <1>8, UndelayedType DEF FairMail
  <2>3. d = PlayerMail(p, s, items, amount, zero, late, yes)
    OBVIOUS
  <2> HIDE DEF s, items, zero, yes, late, d
  <2>4. /\ d \in MailEntry /\ FairMail(d) /\ Cash(d) = amount
        /\ \A q : CashFor(q, d) = IF q = s THEN amount ELSE 0
    <3> HIDE DEF amount
    <3> QED BY <2>2, <2>3, PlayerDraft
  <2>5. drafts = {d} /\ drafts \in SUBSET MailEntry /\ \A b \in drafts : FairMail(b)
    BY <2>4
  <2> DEFINE n == NoMail
  <2>6. kept = [mails EXCEPT ![k] = n] /\ n \in MailEntry \cup {NoMail}
    OBVIOUS
  <2>7. Cash(n) = 0 /\ \A q : CashFor(q, n) = 0
    BY <1>6
  <2>8. FairBox(kept)
    BY <1>3 DEF FairBox, Box
  <2> HIDE DEF n, m, kept, drafts
  <2>9. /\ kept \in Box /\ AllMail(kept) = AllMail(mails) - Cash(m) + Cash(n)
        /\ \A q : MailFor(q, kept) = MailFor(q, mails) - CashFor(q, m) + CashFor(q, n)
    BY <1>3, <2>6, MailPut DEF m
  <2>10. /\ AllMail(mails') = AllMail(kept) + Cash(d)
         /\ \A q : MailFor(q, mails') = MailFor(q, kept) + CashFor(q, d)
    BY <2>1, <2>4, <2>5, <2>9, SentOne
  <2>11. FairBox(mails')
    BY <2>1, <2>5, <2>8, <2>9, SentMails
  <2>12. /\ FairHouse(auctions') /\ AllBids(auctions') = AllBids(auctions)
         /\ \A q : BidsOf(q, auctions') = BidsOf(q, auctions)
    BY <1>3, <1>4, SameHouse
  <2>13. SumFunction(money') = SumFunction(money) /\ \A q \in Players : money'[q] = money[q]
    BY <1>4
  <2>14. Balanced
    <3>1. SumFunction(money') + AllMail(mails') + AllBids(auctions') + sunk'
            = SumFunction(money) + AllMail(mails) + AllBids(auctions) + sunk
      BY ONLY <1>2, <1>3, <2>1, <2>4, <2>7, <2>9, <2>10, <2>12, <2>13
    <3>2. sunk' \in Nat
      BY <1>3, <2>1
    <3> QED BY <2>11, <2>12, <3>1, <3>2 DEF Balanced, Grand
  <2>15. ASSUME NEW q \in Players \ {p} PROVE ~Poorer(q)
    <3>1. money[q] + BidsOf(q, auctions) + MailFor(q, mails) \in Nat
      BY ONLY <1>3
    <3>2. amount \in Nat
      BY <2>2
    <3>3. CashFor(q, d) \in Nat
      <4> HIDE DEF amount
      <4> QED BY <2>4, <3>2
    <3>4. /\ money'[q] + BidsOf(q, auctions') + MailFor(q, mails')
               >= money[q] + BidsOf(q, auctions) + MailFor(q, mails)
          /\ money'[q] + BidsOf(q, auctions') + MailFor(q, mails') \in Int
      BY ONLY <1>3, <1>5, <2>7, <2>9, <2>10, <2>12, <2>13, <3>3
    <3> QED BY ONLY <3>1, <3>4 DEF Poorer, Fortune
  <2> QED BY <2>14, <2>15
<1> QED BY <1>7, <1>8

\* What the sender of a mail with COD gets more when it is paid.
Repaid(m) ==
  m.COD > 0 => /\ m.sender \in Players
               /\ Fortune(m.sender, money', mails', auctions')
                    >= Fortune(m.sender, money, mails, auctions) + m.COD

\* Taking an item pays the COD to the sender; the deleted mails of the player
\* are lost.
LEMMA TakeItemMoney ==
  ASSUME MoneyInv, NEW p \in Players, NEW k \in MailIds, NEW item \in Items,
         HandleMailTakeItem(p, k, item)
  PROVE  Balanced /\ (\A q \in Players \ {p} : ~Poorer(q)) /\ Repaid(mails[k])
<1> DEFINE m == mails[k]
           left == [m EXCEPT !.items = @ \ {item}, !.COD = 0]
           open == [mails EXCEPT ![k] = left]
           kept == SaveMail(p, open)
           lost == MoneyIn(mails, Deleted(p, mails))
           cod == m.COD
<1>1. k \in Sent /\ m.receiver = p /\ m.state # "deleted"
  BY OpenMail DEF HandleMailTakeItem
<1>2. /\ m \in MailEntry /\ FairMail(m) /\ m # NoMail /\ Cash(m) = m.money /\ m.money \in Nat
      /\ cod \in Nat /\ m.sender \in Players \cup {NoPlayer}
      /\ \A q : CashFor(q, m) \in Nat
  BY <1>1, FairMailOf DEF MailEntry
<1>3. /\ TypeOK /\ auctions \in House /\ mails \in Box /\ FairBox(mails) /\ FairHouse(auctions)
      /\ sunk \in Nat
      /\ SumFunction(money) \in Nat /\ AllMail(mails) \in Nat /\ AllBids(auctions) \in Nat
      /\ \A q \in Players : /\ money[q] \in Nat /\ MailFor(q, mails) \in Nat
                            /\ BidsOf(q, auctions) \in Nat
  BY Numbers
<1>4. /\ left \in MailEntry /\ left # NoMail /\ left.receiver = m.receiver
      /\ left.sender = m.sender /\ left.money = m.money /\ left.state = m.state /\ left.COD = 0
  <2>1. left \in MailEntry
    BY <1>2, MailWith
  <2> QED BY <1>2, <2>1, Constants DEF MailEntry
<1>5. open = [mails EXCEPT ![k].items = @ \ {item}, ![k].COD = 0]
  BY <1>3 DEF Box
<1>6. /\ UNCHANGED auctions /\ Pay(p, cod) /\ cod <= money[p] /\ sunk' = sunk + lost
      /\ IF cod > 0
         THEN SendMailTo(kept, IF m.sender = NoPlayer THEN {}
                ELSE {PlayerMail(p, m.sender, {}, cod, 0, TRUE, FALSE)})
         ELSE mails' = kept
  BY <1>3, <1>5 DEF HandleMailTakeItem, Lost
<1> HIDE DEF left
<1>7. /\ Cash(left) = Cash(m) /\ \A q : CashFor(q, left) = CashFor(q, m)
  BY <1>2, <1>4 DEF Cash, CashFor
<1>8. FairMail(left)
  BY <1>2, <1>4 DEF FairMail
<1>9. FairBox(open)
  BY <1>3, <1>8 DEF FairBox, Box
<1>10. MoneyIn(open, Deleted(p, open)) = lost
  BY <1>1, <1>3, <1>4, DeletedMoney
<1> HIDE DEF m, cod, lost
<1>11. /\ open \in Box /\ AllMail(open) = AllMail(mails) - Cash(m) + Cash(left)
       /\ \A q : MailFor(q, open) = MailFor(q, mails) - CashFor(q, m) + CashFor(q, left)
  <2>1. left \in MailEntry \cup {NoMail}
    BY <1>4
  <2> QED BY <1>3, <2>1, MailPut DEF m
<1> HIDE DEF open
<1>12. /\ kept \in Box /\ AllMail(kept) = AllMail(open) - lost /\ lost \in Nat
       /\ \A q : MailFor(q, kept) = MailFor(q, open)
  BY <1>10, <1>11, MailSaved
<1>13. FairBox(kept)
  BY <1>9, <1>11, FairSaved
<1> HIDE DEF kept
<1>14. /\ FairBox(mails')
       /\ AllMail(mails') = AllMail(kept) + cod
       /\ \A q \in Players : MailFor(q, mails')
                               = MailFor(q, kept) + IF q = m.sender THEN cod ELSE 0
  <2>1. CASE cod > 0
    <3>1. m.sender \in Players /\ m.sender # p
      BY <1>1, <1>2, <2>1 DEF FairMail, cod
    <3> DEFINE s == m.sender
               none == {}
               zero == 0
               yes == TRUE
               no == FALSE
               d == PlayerMail(p, s, none, cod, zero, yes, no)
               drafts == {d}
    <3>2. SendMailTo(kept, drafts)
      BY <1>6, <2>1, <3>1, Constants
    <3>3. /\ s \in Players /\ p # s /\ none \in SUBSET Items /\ zero \in Nat /\ cod \in Nat
          /\ yes \in BOOLEAN /\ no \in BOOLEAN
          /\ d = PlayerMail(p, s, none, cod, zero, yes, no)
      BY <1>2, <3>1
    <3> HIDE DEF s, none, zero, yes, no, d
    <3>4. /\ d \in MailEntry /\ FairMail(d) /\ Cash(d) = cod
          /\ \A q : CashFor(q, d) = IF q = s THEN cod ELSE 0
      BY <3>3, PlayerDraft
    <3>5. drafts = {d} /\ drafts \in SUBSET MailEntry /\ \A b \in drafts : FairMail(b)
      BY <3>4
    <3> HIDE DEF drafts
    <3>6. /\ AllMail(mails') = AllMail(kept) + Cash(d)
          /\ \A q : MailFor(q, mails') = MailFor(q, kept) + CashFor(q, d)
      BY <1>12, <3>2, <3>4, <3>5, SentOne
    <3>7. FairBox(mails')
      BY <1>12, <1>13, <3>2, <3>5, SentMails
    <3> QED BY <3>4, <3>6, <3>7 DEF s
  <2>2. CASE ~(cod > 0)
    <3>1. cod = 0 /\ mails' = kept
      BY <1>2, <1>6, <2>2
    <3>2. AllMail(kept) \in Nat /\ \A q : MailFor(q, kept) \in Nat
      BY <1>12, SumTypes
    <3> QED BY <1>13, <3>1, <3>2
  <2> QED BY <2>1, <2>2
<1>15. cod \in Nat
  BY <1>2
<1>16. /\ SumFunction(money') = SumFunction(money) - cod
       /\ \A q \in Players \ {p} : money'[q] = money[q]
  BY <1>3, <1>6, <1>15, PayMoney
<1>17. /\ FairHouse(auctions') /\ AllBids(auctions') = AllBids(auctions)
       /\ \A q : BidsOf(q, auctions') = BidsOf(q, auctions)
  BY <1>3, <1>6, SameHouse
<1>18. Balanced
  <2>1. SumFunction(money') + AllMail(mails') + AllBids(auctions') + sunk'
          = SumFunction(money) + AllMail(mails) + AllBids(auctions) + sunk
    <3>1. sunk' = sunk + lost
      BY <1>6
    <3>2. Cash(m) \in Nat /\ Cash(left) = Cash(m)
      BY <1>2, <1>7
    <3> QED BY ONLY <1>3, <1>11, <1>12, <1>14, <1>15, <1>16, <1>17, <3>1, <3>2
  <2>2. sunk' \in Nat
    BY <1>3, <1>6, <1>12
  <2> QED BY <1>14, <1>17, <2>1, <2>2 DEF Balanced, Grand
<1>19. \A q \in Players \ {p} :
         money'[q] + BidsOf(q, auctions') + MailFor(q, mails')
           = money[q] + BidsOf(q, auctions) + MailFor(q, mails)
             + IF q = m.sender THEN cod ELSE 0
  <2>1. \A q : CashFor(q, m) \in Nat /\ CashFor(q, left) = CashFor(q, m)
    BY <1>2, <1>7
  <2>2. \A q \in Players : MailFor(q, open) = MailFor(q, mails)
    BY ONLY <1>3, <1>11, <2>1
  <2> QED BY ONLY <1>3, <1>12, <1>14, <1>15, <1>16, <1>17, <2>2
<1>20. ASSUME NEW q \in Players \ {p} PROVE ~Poorer(q)
  <2>1. money[q] + BidsOf(q, auctions) + MailFor(q, mails) \in Nat
    BY ONLY <1>3
  <2>2. /\ money'[q] + BidsOf(q, auctions') + MailFor(q, mails')
             >= money[q] + BidsOf(q, auctions) + MailFor(q, mails)
        /\ money'[q] + BidsOf(q, auctions') + MailFor(q, mails') \in Int
    BY ONLY <1>15, <1>19, <2>1
  <2> QED BY ONLY <2>1, <2>2 DEF Poorer, Fortune
<1>21. Repaid(m)
  <2>1. SUFFICES ASSUME cod > 0
                 PROVE  /\ m.sender \in Players
                        /\ Fortune(m.sender, money', mails', auctions')
                             >= Fortune(m.sender, money, mails, auctions) + cod
    BY DEF Repaid, cod
  <2> DEFINE q == m.sender
  <2>2. q \in Players \ {p}
    BY <1>1, <1>2, <2>1 DEF FairMail, cod
  <2>3. money[q] + BidsOf(q, auctions) + MailFor(q, mails) \in Nat
    BY ONLY <1>3, <2>2
  <2>4. money'[q] + BidsOf(q, auctions') + MailFor(q, mails')
          = money[q] + BidsOf(q, auctions) + MailFor(q, mails) + cod
    BY ONLY <1>19, <2>2
  <2>5. money'[q] + BidsOf(q, auctions') + MailFor(q, mails')
          >= money[q] + BidsOf(q, auctions) + MailFor(q, mails) + cod
    BY ONLY <1>15, <2>3, <2>4
  <2> QED BY <2>2, <2>5 DEF Fortune
<1> QED BY <1>18, <1>20, <1>21 DEF m

\* Taking money puts it into the purse; what the purse does not hold is lost.
LEMMA TakeMoneyMoney ==
  ASSUME MoneyInv, NEW p \in Players, NEW k \in MailIds, HandleMailTakeMoney(p, k)
  PROVE  Balanced /\ \A q \in Players \ {p} : ~Poorer(q)
<1> DEFINE m == mails[k]
           left == [m EXCEPT !.money = 0]
           open == [mails EXCEPT ![k] = left]
           kept == SaveMail(p, open)
           lost == MoneyIn(mails, Deleted(p, mails))
           after == More(money[p], m.money)
<1>1. k \in Sent /\ m.receiver = p /\ m.state # "deleted"
  BY OpenMail DEF HandleMailTakeMoney
<1>2. /\ m \in MailEntry /\ FairMail(m) /\ m # NoMail /\ Cash(m) = m.money /\ m.money \in Nat
      /\ \A q : CashFor(q, m) \in Nat
  BY <1>1, FairMailOf
<1>3. /\ TypeOK /\ auctions \in House /\ mails \in Box /\ FairBox(mails) /\ FairHouse(auctions)
      /\ sunk \in Nat
      /\ SumFunction(money) \in Nat /\ AllMail(mails) \in Nat /\ AllBids(auctions) \in Nat
      /\ \A q \in Players : /\ money[q] \in Nat /\ MailFor(q, mails) \in Nat
                            /\ BidsOf(q, auctions) \in Nat
  BY Numbers
<1>4. /\ left \in MailEntry /\ left # NoMail /\ left.receiver = m.receiver
      /\ left.sender = m.sender /\ left.money = 0 /\ left.state = m.state /\ left.COD = m.COD
  <2>1. left \in MailEntry
    BY <1>2, MailWith
  <2> QED BY <1>2, <2>1, Constants DEF MailEntry
<1>5. /\ UNCHANGED auctions /\ mails' = kept
      /\ money' = [money EXCEPT ![p] = after]
      /\ sunk' = sunk + lost + money[p] + m.money - after
  BY <1>3 DEF HandleMailTakeMoney, Box
<1>6. after \in Nat /\ after <= money[p] + m.money
  <2>1. money[p] \in 0..MaxMoney
    BY <1>3 DEF TypeOK
  <2>2. after \in 0..MaxMoney
    BY <1>2, <2>1, MoreType
  <2> QED BY <1>2, <1>3, <2>1, <2>2, Constants DEF More
<1> HIDE DEF left, after
<1>7. Cash(left) = 0 /\ \A q \in Players \ {p} : CashFor(q, left) = 0 /\ CashFor(q, m) = 0
  BY <1>1, <1>4 DEF Cash, CashFor
<1>8. FairBox(open)
  <2>1. FairMail(left)
    BY <1>2, <1>4 DEF FairMail
  <2> QED BY <1>3, <2>1 DEF FairBox, Box
<1>9. MoneyIn(open, Deleted(p, open)) = lost
  BY <1>1, <1>3, <1>4, DeletedMoney
<1> HIDE DEF m, lost
<1>10. /\ open \in Box /\ AllMail(open) = AllMail(mails) - Cash(m) + Cash(left)
       /\ \A q : MailFor(q, open) = MailFor(q, mails) - CashFor(q, m) + CashFor(q, left)
  <2>1. left \in MailEntry \cup {NoMail}
    BY <1>4
  <2> QED BY <1>3, <2>1, MailPut DEF m
<1> HIDE DEF open
<1>11. /\ kept \in Box /\ AllMail(kept) = AllMail(open) - lost /\ lost \in Nat
       /\ \A q : MailFor(q, kept) = MailFor(q, open)
  BY <1>9, <1>10, MailSaved
<1>12. FairBox(kept)
  BY <1>8, <1>10, FairSaved
<1> HIDE DEF kept
<1>13. /\ SumFunction(money') = SumFunction(money) - money[p] + after
       /\ \A q \in Players \ {p} : money'[q] = money[q]
  <2>1. money \in [Players -> Nat]
    BY <1>3, Parts
  <2> QED BY <1>5, <1>6, <2>1, PurseWith
<1>14. /\ FairHouse(auctions') /\ AllBids(auctions') = AllBids(auctions)
       /\ \A q : BidsOf(q, auctions') = BidsOf(q, auctions)
  BY <1>3, <1>5, SameHouse
<1>15. /\ FairBox(mails') /\ AllMail(mails') = AllMail(kept)
       /\ \A q : MailFor(q, mails') = MailFor(q, kept)
  BY <1>5, <1>12
<1>16. money[p] \in Nat
  BY <1>3
<1>17. Balanced
  <2>1. SumFunction(money') + AllMail(mails') + AllBids(auctions') + sunk'
          = SumFunction(money) + AllMail(mails) + AllBids(auctions) + sunk
    BY ONLY <1>2, <1>3, <1>5, <1>6, <1>7, <1>10, <1>11, <1>13, <1>14, <1>15, <1>16
  <2>2. sunk' \in Nat
    BY ONLY <1>2, <1>3, <1>5, <1>6, <1>11, <1>16
  <2> QED BY <1>14, <1>15, <2>1, <2>2 DEF Balanced, Grand
<1>18. ASSUME NEW q \in Players \ {p} PROVE ~Poorer(q)
  <2>1. money[q] + BidsOf(q, auctions) + MailFor(q, mails) \in Nat
    BY ONLY <1>3
  <2>2. money'[q] + BidsOf(q, auctions') + MailFor(q, mails')
          = money[q] + BidsOf(q, auctions) + MailFor(q, mails)
    BY ONLY <1>3, <1>7, <1>10, <1>11, <1>13, <1>14, <1>15
  <2> QED BY ONLY <2>1, <2>2 DEF Poorer, Fortune
<1> QED BY <1>17, <1>18

\* A step that only changes the mails, and counts what is lost.
LEMMA BoxMoney ==
  ASSUME MoneyInv, NEW new \in Box, mails' = new, FairBox(new), NEW lost \in Nat,
         UNCHANGED <<money, auctions>>, sunk' = sunk + lost,
         AllMail(new) = AllMail(mails) - lost,
         \A q : MailFor(q, new) >= MailFor(q, mails)
  PROVE  Balanced /\ \A q \in Players : ~Poorer(q)
<1>1. /\ FairHouse(auctions) /\ sunk \in Nat
      /\ SumFunction(money) \in Nat /\ AllMail(mails) \in Nat /\ AllBids(auctions) \in Nat
      /\ \A q \in Players : /\ money[q] \in Nat /\ MailFor(q, mails) \in Nat
                            /\ BidsOf(q, auctions) \in Nat
  BY Numbers
<1>2. /\ SumFunction(money') = SumFunction(money) /\ FairHouse(auctions')
      /\ \A q \in Players : money'[q] = money[q]
      /\ AllBids(auctions') = AllBids(auctions)
      /\ \A q : BidsOf(q, auctions') = BidsOf(q, auctions)
  BY <1>1, SameHouse
<1>3. /\ FairBox(mails') /\ AllMail(mails') = AllMail(mails) - lost
      /\ \A q : MailFor(q, mails') = MailFor(q, new)
  OBVIOUS
<1>4. lost \in Nat /\ sunk' = sunk + lost
  OBVIOUS
<1>5. Balanced
  <2>1. SumFunction(money') + AllMail(mails') + AllBids(auctions') + sunk'
          = SumFunction(money) + AllMail(mails) + AllBids(auctions) + sunk
    BY ONLY <1>1, <1>2, <1>3, <1>4
  <2>2. sunk' \in Nat
    BY ONLY <1>1, <1>4
  <2> QED BY <1>2, <1>3, <2>1, <2>2 DEF Balanced, Grand
<1>6. ASSUME NEW q \in Players PROVE ~Poorer(q)
  <2>1. MailFor(q, new) \in Nat /\ MailFor(q, new) >= MailFor(q, mails)
    BY SumTypes
  <2>2. money[q] + BidsOf(q, auctions) + MailFor(q, mails) \in Nat
    BY ONLY <1>1
  <2>3. /\ money'[q] + BidsOf(q, auctions') + MailFor(q, mails')
             >= money[q] + BidsOf(q, auctions) + MailFor(q, mails)
        /\ money'[q] + BidsOf(q, auctions') + MailFor(q, mails') \in Int
    BY ONLY <1>1, <1>2, <1>3, <2>1
  <2> QED BY ONLY <2>2, <2>3 DEF Poorer, Fortune
<1> QED BY <1>5, <1>6

\* Nobody has less for coming, going or being saved.
LEMMA PlayerMoney ==
  ASSUME MoneyInv, NEW p \in Players, SavePlayer(p) \/ LogIn(p) \/ LogOut(p)
  PROVE  Balanced /\ \A q \in Players : ~Poorer(q)
<1> DEFINE saved == SaveMail(p, mails)
           lost == MoneyIn(mails, Deleted(p, mails))
<1>1. mails \in Box /\ FairBox(mails) /\ sunk \in Nat
      /\ AllMail(mails) \in Nat /\ \A q : MailFor(q, mails) \in Nat
  BY Numbers, SumTypes
<1>2. /\ saved \in Box /\ AllMail(saved) = AllMail(mails) - lost /\ lost \in Nat
      /\ FairBox(saved) /\ \A q : MailFor(q, saved) = MailFor(q, mails)
  BY <1>1, MailSaved, FairSaved
<1>3. CASE SavePlayer(p)
  <2>1. mails' = saved /\ sunk' = sunk + lost /\ UNCHANGED <<money, auctions>>
    BY <1>3 DEF SavePlayer, Lost
  <2>2. \A q : MailFor(q, saved) >= MailFor(q, mails)
    BY <1>1, <1>2
  <2> HIDE DEF saved, lost
  <2> QED BY <1>2, <2>1, <2>2, BoxMoney
<1>4. CASE LogIn(p)
  <2> DEFINE s == "listed"
             new == Relisted(p, mails, s)
             zero == 0
  <2>1. mails' = new /\ sunk' = sunk /\ UNCHANGED <<money, auctions>> /\ s \in Live
    BY <1>4 DEF LogIn, Live
  <2> HIDE DEF s
  <2>2. /\ new \in Box /\ AllMail(new) = AllMail(mails) /\ FairBox(new)
        /\ \A q : MailFor(q, new) >= MailFor(q, mails)
    BY <1>1, <2>1, MailRelisted, FairSaved
  <2>3. zero \in Nat /\ sunk' = sunk + zero /\ AllMail(new) = AllMail(mails) - zero
    BY <1>1, <2>1, <2>2
  <2> HIDE DEF new, zero
  <2> QED BY <2>1, <2>2, <2>3, BoxMoney
<1>5. CASE LogOut(p)
  <2> DEFINE s == "stored"
             new == Relisted(p, saved, s)
  <2>1. mails' = new /\ sunk' = sunk + lost /\ UNCHANGED <<money, auctions>> /\ s \in Live
    BY <1>5 DEF LogOut, Lost, Live
  <2> HIDE DEF s, saved, lost
  <2>2. /\ new \in Box /\ AllMail(new) = AllMail(saved) /\ FairBox(new)
        /\ \A q : MailFor(q, new) >= MailFor(q, saved)
    BY <1>2, <2>1, MailRelisted, FairSaved
  <2>3. AllMail(new) = AllMail(mails) - lost /\ \A q : MailFor(q, new) >= MailFor(q, mails)
    BY <1>2, <2>2
  <2> HIDE DEF new
  <2> QED BY <1>2, <2>1, <2>2, <2>3, BoxMoney
<1> QED BY <1>3, <1>4, <1>5

\* Every act of a player.
LEMMA ActMoney ==
  ASSUME MoneyInv, NEW p \in Players, ActOf(p)
  PROVE  Balanced /\ \A q \in Players \ {p} : ~Poorer(q)
<1>1. ASSUME NEW i \in Items, NEW s \in 1..MaxOffer, NEW b \in 0..MaxOffer,
             HandleAuctionSellItem(p, i, s, b)
      PROVE  Balanced /\ \A q \in Players \ {p} : ~Poorer(q)
  <2>1. s \in Nat /\ b \in Nat
    BY Constants
  <2> QED BY <1>1, <2>1, SellMoney
<1>2. ASSUME NEW a \in AuctionIds, NEW price \in 1..MaxOffer, HandleAuctionPlaceBid(p, a, price)
      PROVE  Balanced /\ \A q \in Players \ {p} : ~Poorer(q)
  <2>1. a \in Running
    BY <1>2 DEF HandleAuctionPlaceBid, PlaceBid, Buyout
  <2> QED BY <1>2, <2>1, BidMoney, BuyoutMoney DEF HandleAuctionPlaceBid
<1>3. ASSUME NEW a \in AuctionIds, HandleAuctionRemoveItem(p, a)
      PROVE  Balanced /\ \A q \in Players \ {p} : ~Poorer(q)
  BY <1>3, RemoveMoney
<1>4. ASSUME NEW r \in Players, NEW items \in SUBSET Items, NEW n \in 0..MaxOffer,
             NEW c \in 0..MaxOffer, HandleSendMail(p, r, items, n, c)
      PROVE  Balanced /\ \A q \in Players \ {p} : ~Poorer(q)
  <2>1. n \in Nat /\ c \in Nat
    BY Constants
  <2> QED BY <1>4, <2>1, SendMoney
<1>5. ASSUME NEW k \in MailIds, HandleMailMarkAsRead(p, k) \/ HandleMailDelete(p, k)
      PROVE  Balanced /\ \A q \in Players \ {p} : ~Poorer(q)
  BY <1>5, MarkMoney
<1>6. ASSUME NEW k \in MailIds, HandleMailReturnToSender(p, k)
      PROVE  Balanced /\ \A q \in Players \ {p} : ~Poorer(q)
  BY <1>6, ReturnMoney
<1>7. ASSUME NEW k \in MailIds, NEW i \in Items, HandleMailTakeItem(p, k, i)
      PROVE  Balanced /\ \A q \in Players \ {p} : ~Poorer(q)
  BY <1>7, TakeItemMoney
<1>8. ASSUME NEW k \in MailIds, HandleMailTakeMoney(p, k)
      PROVE  Balanced /\ \A q \in Players \ {p} : ~Poorer(q)
  BY <1>8, TakeMoneyMoney
<1> QED BY <1>1, <1>2, <1>3, <1>4, <1>5, <1>6, <1>7, <1>8 DEF ActOf

\* What every step does to the money: it is moved, and nobody has less but the
\* one who acts, the bidder of an auction that ends and the receiver of a mail
\* that expires.
LEMMA StepMoney ==
  ASSUME MoneyInv, [Next]_vars
  PROVE  /\ Balanced
         /\ \A q \in Players :
              Poorer(q) => \/ ActOf(q)
                           \/ \E a \in AuctionIds : Update(a) /\ auctions[a].bidder = q
                           \/ \E k \in MailIds : /\ MailExpires(k) /\ mails[k].receiver = q
                                                 /\ mails[k].state # "deleted"
<1>1. ASSUME NEW p \in Players, ActOf(p)
      PROVE  Balanced /\ \A q \in Players : Poorer(q) => ActOf(q)
  <2>1. Balanced /\ \A q \in Players \ {p} : ~Poorer(q)
    BY <1>1, ActMoney
  <2> QED BY <1>1, <2>1
<1>2. ASSUME NEW p \in Players, SavePlayer(p) \/ LogIn(p) \/ LogOut(p)
      PROVE  Balanced /\ \A q \in Players : ~Poorer(q)
  BY <1>2, PlayerMoney
<1>3. ASSUME NEW a \in AuctionIds, AuctionDue(a)
      PROVE  Balanced /\ \A q \in Players : ~Poorer(q)
  BY <1>3, DueMoney
<1>4. ASSUME NEW a \in AuctionIds, Update(a)
      PROVE  Balanced /\ \A q \in Players : q # auctions[a].bidder => ~Poorer(q)
  BY <1>4, UpdateMoney
<1>5. ASSUME NEW k \in MailIds, MailDelivered(k)
      PROVE  Balanced /\ \A q \in Players : ~Poorer(q)
  BY <1>5, DeliveredMoney
<1>6. ASSUME NEW k \in MailIds, MailExpires(k)
      PROVE  /\ Balanced
             /\ \A q \in Players :
                  q # mails[k].receiver \/ mails[k].state = "deleted" => ~Poorer(q)
  BY <1>6, ExpiresMoney
<1>7. CASE UNCHANGED vars
  <2>1. UNCHANGED <<money, mails, auctions, sunk>>
    BY <1>7 DEF vars
  <2>2. Balanced
    BY <2>1, Numbers DEF Balanced, MoneyInv, LedgerInv
  <2>3. ASSUME NEW q \in Players PROVE ~Poorer(q)
    <3>1. money[q] + BidsOf(q, auctions) + MailFor(q, mails) \in Nat
      BY Numbers
    <3>2. money'[q] + BidsOf(q, auctions') + MailFor(q, mails')
            = money[q] + BidsOf(q, auctions) + MailFor(q, mails)
      BY <2>1
    <3> QED BY ONLY <3>1, <3>2 DEF Poorer, Fortune
  <2> QED BY <2>2, <2>3
<1> HIDE DEF Next
<1>8. CASE Next
  <2>1. \/ \E p \in Players : ActOf(p) \/ SavePlayer(p) \/ LogIn(p) \/ LogOut(p)
        \/ \E a \in AuctionIds : AuctionDue(a) \/ Update(a)
        \/ \E k \in MailIds : MailDelivered(k) \/ MailExpires(k)
    BY <1>8 DEF Next
  <2> QED BY <1>1, <1>2, <1>3, <1>4, <1>5, <1>6, <2>1
<1> QED BY <1>7, <1>8

-----------------------------------------------------------------------------
(* The sums of the module, and the money.                                  *)

\* The bids, with the deposits, of all auctions, and those of a player.
LEMMA BidsCounted ==
  ASSUME NEW as \in House
  PROVE  /\ SumFunction([a \in {b \in AuctionIds : as[b] # NoAuction} |-> as[a].bid + Deposit])
              = AllBids(as)
         /\ \A q : SumFunction([a \in {b \in {c \in AuctionIds : as[c] # NoAuction} :
                                         as[b].bidder = q} |-> as[a].bid])
                     = BidsOf(q, as)
<1>1. ASSUME NEW S \in SUBSET AuctionIds, NEW B, NEW d \in Nat,
             \A a \in AuctionIds : AtStake(as[a], B, d) = IF a \in S THEN as[a].bid + d ELSE 0
      PROVE  SumFunction([a \in S |-> as[a].bid + d]) = InHouse(as, B, d)
  <2> DEFINE f == [a \in S |-> as[a].bid + d]
             g == [a \in AuctionIds |-> AtStake(as[a], B, d)]
  <2>1. SumFunction(f) = SumFunctionOnSet(f, S) /\ \A a \in S : f[a] = as[a].bid + d
    BY DEF SumFunction
  <2>2. /\ InHouse(as, B, d) = SumFunctionOnSet(g, AuctionIds)
        /\ \A a \in AuctionIds : g[a] = AtStake(as[a], B, d) /\ g[a] \in Nat
    BY InHouseSum
  <2> HIDE DEF f, g
  <2>3. ASSUME NEW a \in S PROVE f[a] \in Int /\ f[a] = g[a]
    <3>1. a \in AuctionIds
      OBVIOUS
    <3>2. f[a] = as[a].bid + d /\ g[a] = AtStake(as[a], B, d) /\ g[a] \in Nat
      BY <2>1, <2>2, <3>1
    <3>3. AtStake(as[a], B, d) = as[a].bid + d
      BY <1>1, <3>1
    <3>4. f[a] = g[a]
      BY <3>2, <3>3
    <3>5. f[a] \in Nat
      BY <3>2, <3>4
    <3> QED BY ONLY <3>4, <3>5
  <2>4. \A a \in AuctionIds \ S : g[a] = 0
    BY <1>1, <2>2
  <2>5. SumFunctionOnSet(f, S) = SumFunctionOnSet(g, AuctionIds)
    BY <2>3, <2>4, Constants, SumPart
  <2>6. SumFunction(f) = InHouse(as, B, d)
    BY <2>1, <2>2, <2>5
  <2> QED BY <2>6 DEF f
<1>2. \A a \in AuctionIds : as[a] # NoAuction =>
        as[a].bidder \in Players \cup {NoPlayer} /\ as[a].bid \in Nat
  BY DEF House, AuctionEntry
<1>3. SumFunction([a \in {b \in AuctionIds : as[b] # NoAuction} |-> as[a].bid + Deposit])
        = AllBids(as)
  <2> DEFINE S == {b \in AuctionIds : as[b] # NoAuction}
             B == Players \cup {NoPlayer}
             d == Deposit
  <2>1. \A a \in AuctionIds : AtStake(as[a], B, d) = IF a \in S THEN as[a].bid + d ELSE 0
    BY <1>2 DEF AtStake
  <2>2. S \in SUBSET AuctionIds /\ d \in Nat
    BY Constants
  <2>3. AllBids(as) = InHouse(as, B, d)
    BY DEF AllBids
  <2> HIDE DEF S, B, d
  <2>4. SumFunction([a \in S |-> as[a].bid + d]) = InHouse(as, B, d)
    BY <1>1, <2>1, <2>2
  <2> QED BY <2>3, <2>4 DEF S, d
<1>4. ASSUME NEW q
      PROVE  SumFunction([a \in {b \in {c \in AuctionIds : as[c] # NoAuction} :
                                   as[b].bidder = q} |-> as[a].bid]) = BidsOf(q, as)
  <2> DEFINE S == {b \in {c \in AuctionIds : as[c] # NoAuction} : as[b].bidder = q}
             B == {q}
             d == 0
  <2>1. \A a \in AuctionIds : AtStake(as[a], B, d) = IF a \in S THEN as[a].bid + d ELSE 0
    BY <1>2 DEF AtStake
  <2>2. S \in SUBSET AuctionIds /\ d \in Nat
    OBVIOUS
  <2>3. BidsOf(q, as) = InHouse(as, B, d)
    BY DEF BidsOf
  <2>4. [a \in S |-> as[a].bid] = [a \in S |-> as[a].bid + d]
    <3>1. ASSUME NEW a \in S PROVE as[a].bid = as[a].bid + d
      <4> DEFINE n == as[a].bid
      <4>1. n \in Nat
        BY <1>2
      <4> HIDE DEF n
      <4>2. n = n + d
        BY ONLY <4>1
      <4> QED BY <4>2 DEF n
    <3> HIDE DEF S, d
    <3> QED BY <3>1
  <2> HIDE DEF S, B, d
  <2>5. SumFunction([a \in S |-> as[a].bid + d]) = InHouse(as, B, d)
    BY <1>1, <2>1, <2>2
  <2>6. SumFunction([a \in S |-> as[a].bid]) = BidsOf(q, as)
    BY <2>3, <2>4, <2>5
  <2> QED BY <2>6 DEF S
<1> QED BY <1>3, <1>4

\* The sums of the module are these.
LEMMA WealthCounted ==
  ASSUME TypeOK
  PROVE  /\ MoneyAccounted <=> Grand(money, mails, auctions, sunk) = Total
         /\ \A q \in Players : Wealth(q) = Fortune(q, money, mails, auctions)
<1>1. mails \in Box /\ auctions \in House
  BY Parts
<1>2. MoneyIn(mails, Sent) = AllMail(mails)
  BY <1>1, MoneyCounted DEF AllMail, Sent
<1>3. SumFunction([a \in Running |-> auctions[a].bid + Deposit]) = AllBids(auctions)
  BY <1>1, BidsCounted DEF Running
<1>4. MoneyAccounted <=> Grand(money, mails, auctions, sunk) = Total
  BY <1>2, <1>3 DEF MoneyAccounted, Grand
<1>5. ASSUME NEW q \in Players
      PROVE  Wealth(q) = Fortune(q, money, mails, auctions)
  <2>1. SumFunction([a \in Bids(q) |-> auctions[a].bid]) = BidsOf(q, auctions)
    BY <1>1, BidsCounted DEF Bids, Running
  <2>2. MailsOf(q) = {k \in MailIds : /\ mails[k] # NoMail /\ mails[k].receiver = q
                                      /\ mails[k].state # "deleted"}
    BY DEF MailsOf, Sent
  <2>3. MoneyIn(mails, MailsOf(q)) = MailFor(q, mails)
    BY <1>1, <2>2, MoneyCounted DEF MailFor
  <2> QED BY <2>1, <2>3 DEF Wealth, Fortune
<1> QED BY <1>4, <1>5

\* At first all money is in purses.
LEMMA MoneyInit ==
  ASSUME Init
  PROVE  MoneyInv
<1>1. TypeInv /\ TypeOK
  BY TypeInit DEF TypeInv
<1>2. mails \in Box /\ auctions \in House
  BY <1>1, Parts
<1>3. (\A k \in MailIds : mails[k] = NoMail) /\ (\A a \in AuctionIds : auctions[a] = NoAuction)
      /\ SumFunction(money) = Total /\ sunk = 0
  BY DEF Init
<1>4. AllMail(mails) = 0
  <2> DEFINE f == [k \in MailIds |-> Worth(mails[k], Players, States)]
  <2>1. /\ InBox(mails, Players, States) = SumFunctionOnSet(f, MailIds)
        /\ \A k \in MailIds : f[k] = Worth(mails[k], Players, States)
    BY <1>2, InBoxSum
  <2> HIDE DEF f
  <2>2. \A k \in MailIds : f[k] = 0
    BY <1>3, <2>1 DEF Worth
  <2> QED BY <2>1, <2>2, Constants, SumZeros DEF AllMail
<1>5. AllBids(auctions) = 0
  <2> DEFINE B == Players \cup {NoPlayer}
             f == [a \in AuctionIds |-> AtStake(auctions[a], B, Deposit)]
  <2>1. /\ InHouse(auctions, B, Deposit) = SumFunctionOnSet(f, AuctionIds)
        /\ \A a \in AuctionIds : f[a] = AtStake(auctions[a], B, Deposit)
    BY <1>2, Constants, InHouseSum
  <2>2. AllBids(auctions) = InHouse(auctions, B, Deposit)
    BY DEF AllBids
  <2> HIDE DEF f, B
  <2>3. \A a \in AuctionIds : f[a] = 0
    BY <1>3, <2>1 DEF AtStake
  <2> QED BY <2>1, <2>2, <2>3, Constants, SumZeros
<1>6. SumFunction(money) \in Nat
  BY <1>1, Parts
<1>7. Grand(money, mails, auctions, sunk) = Total
  BY <1>3, <1>4, <1>5, <1>6 DEF Grand
<1>8. FairHouse(auctions) /\ FairBox(mails)
  BY <1>3 DEF FairHouse, FairBox
<1> QED BY <1>1, <1>3, <1>7, <1>8 DEF MoneyInv, LedgerInv

\* Every step keeps the sum.
LEMMA MoneyStep ==
  ASSUME MoneyInv, [Next]_vars
  PROVE  MoneyInv'
<1>1. TypeInv'
  BY TypeStep DEF MoneyInv
<1>2. Balanced
  BY StepMoney
<1>3. LedgerInv'
  BY <1>2 DEF Balanced, MoneyInv, LedgerInv, Grand
<1> QED BY <1>1, <1>3 DEF MoneyInv

\* No money is made and none lost but what the counter of the lost counts,
\* whatever players do and however often amounts are moved.
THEOREM MoneyKept == Spec => []MoneyAccounted
<1>1. Init => MoneyInv
  BY MoneyInit
<1>2. MoneyInv /\ [Next]_vars => MoneyInv'
  BY MoneyStep
<1>3. MoneyInv => MoneyAccounted
  BY WealthCounted DEF MoneyInv, TypeInv, LedgerInv
<1> QED BY <1>1, <1>2, <1>3, PTL DEF Spec

-----------------------------------------------------------------------------
(* What a player has.                                                      *)

\* What a player has after a step.
LEMMA WealthCountedNext ==
  ASSUME TypeOK'
  PROVE  \A q \in Players : Wealth(q)' = Fortune(q, money', mails', auctions')
<1>1. mails' \in Box /\ auctions' \in House
  BY DEF TypeOK, Box, House
<1> SUFFICES ASSUME NEW q \in Players
             PROVE  Wealth(q)' = Fortune(q, money', mails', auctions')
  OBVIOUS
<1>2. Bids(q)' = {b \in {c \in AuctionIds : auctions'[c] # NoAuction} : auctions'[b].bidder = q}
  BY DEF Bids, Running
<1>3. SumFunction([a \in Bids(q)' |-> auctions'[a].bid]) = BidsOf(q, auctions')
  BY <1>1, <1>2, BidsCounted
<1>4. MailsOf(q)' = {k \in MailIds : /\ mails'[k] # NoMail /\ mails'[k].receiver = q
                                     /\ mails'[k].state # "deleted"}
  BY DEF MailsOf, Sent
<1>5. MoneyIn(mails', MailsOf(q)') = MailFor(q, mails')
  BY <1>1, <1>4, MoneyCounted DEF MailFor
<1> QED BY <1>3, <1>5 DEF Wealth, Fortune

\* The bidder of an auction that ends has its item in a mail.
LEMMA WonItem ==
  ASSUME MoneyInv, NEW a \in AuctionIds, NEW q \in Players,
         Update(a), auctions[a].bidder = q
  PROVE  \E b \in Bids(q) : /\ b \notin Running'
                            /\ \E k \in MailsOf(q)' : auctions[b].item \in mails'[k].items
<1> DEFINE e == auctions[a]
           back == {}
<1>1. /\ a \in Running /\ Ended(a) /\ e.bidder # NoPlayer
      /\ SendMailTo(mails, {SuccessfulMail(e), WonMail(e)} \cup back)
      /\ back \in SUBSET OutbiddedMails(e) /\ back = {}
  BY Constants DEF Update
<1>2. e \in AuctionEntry /\ FairEntry(e) /\ mails \in Box /\ FairBox(mails) /\ auctions \in House
  BY <1>1, FairEntryOf, Numbers
<1> HIDE DEF e, back
<1>3. PICK k \in MailIds : mails'[k] = WonMail(e)
  BY <1>1, <1>2, SaleSent
<1> DEFINE w == WonMail(e)
           s == SuccessfulMail(e)
<1>4. /\ w # NoMail /\ w.receiver = q /\ w.state # "deleted" /\ w.items = {e.item}
  <2>1. w = WonMail(e) /\ s = SuccessfulMail(e)
    OBVIOUS
  <2> HIDE DEF w, s
  <2>2. w # NoMail /\ w.receiver = e.bidder /\ w.state # "deleted" /\ w.items = {e.item}
    BY <1>1, <1>2, <2>1, SaleDrafts
  <2> QED BY <2>2 DEF e
<1>5. k \in MailsOf(q)' /\ e.item \in mails'[k].items
  BY <1>3, <1>4 DEF MailsOf, Sent
<1>6. a \in Bids(q) /\ a \notin Running'
  <2>1. auctions'[a] = NoAuction
    BY <1>1, <1>2 DEF Ended, House
  <2> QED BY <1>1, <2>1 DEF Bids, Running
<1> QED BY <1>5, <1>6 DEF e

\* Nobody has less by what others do, whatever players, auctions, mails and
\* amounts there are: neither a bid, a mail nor a visit of another costs him
\* anything.
THEOREM OthersPayNothing == Spec => NobodyElsePays
<1> DEFINE Body == \A p \in Players : Wealth(p)' < Wealth(p) =>
                     \/ ActOf(p)
                     \/ \E a \in Bids(p) :
                          /\ a \notin Running'
                          /\ \E k \in MailsOf(p)' : auctions[a].item \in mails'[k].items
                     \/ \E k \in MailsOf(p) : MailExpires(k)
<1>1. MoneyInv /\ [Next]_vars => [Body]_vars
  <2> SUFFICES ASSUME MoneyInv, [Next]_vars, NEW p \in Players, Wealth(p)' < Wealth(p)
               PROVE  \/ ActOf(p)
                      \/ \E a \in Bids(p) :
                           /\ a \notin Running'
                           /\ \E k \in MailsOf(p)' : auctions[a].item \in mails'[k].items
                      \/ \E k \in MailsOf(p) : MailExpires(k)
    OBVIOUS
  <2>1. TypeOK /\ TypeOK'
    BY MoneyStep DEF MoneyInv, TypeInv
  <2>2. Wealth(p) = Fortune(p, money, mails, auctions)
    BY <2>1, WealthCounted
  <2>3. Wealth(p)' = Fortune(p, money', mails', auctions')
    BY <2>1, WealthCountedNext
  <2>4. Poorer(p)
    BY <2>2, <2>3 DEF Poorer
  <2>5. \/ ActOf(p)
        \/ \E a \in AuctionIds : Update(a) /\ auctions[a].bidder = p
        \/ \E k \in MailIds : /\ MailExpires(k) /\ mails[k].receiver = p
                              /\ mails[k].state # "deleted"
    BY <2>4, StepMoney
  <2>6. ASSUME NEW k \in MailIds, MailExpires(k), mails[k].receiver = p, mails[k].state # "deleted"
        PROVE  k \in MailsOf(p)
    BY <2>6 DEF MailExpires, MailsOf
  <2> QED BY <2>5, <2>6, WonItem
<1>2. Spec => [][Body]_vars
  <2>1. Init => MoneyInv
    BY MoneyInit
  <2>2. MoneyInv /\ [Next]_vars => MoneyInv'
    BY MoneyStep
  <2> HIDE DEF Body
  <2> QED BY <1>1, <2>1, <2>2, PTL DEF Spec
<1> QED BY <1>2 DEF NobodyElsePays

-----------------------------------------------------------------------------
(* What a seller gets.                                                     *)

\* A player ends an auction by a buyout or as its owner; time ends the others.
EndedBy(p, a) == (\E price \in 1..MaxOffer : Buyout(p, a, price)) \/ HandleAuctionRemoveItem(p, a)
EndedByPlayer(a) == \E p \in Players : EndedBy(p, a)

LEMMA EndOfAuction ==
  ASSUME TypeOK, [Next]_vars, NEW a \in Running, a \notin Running'
  PROVE  EndedByPlayer(a) \/ Update(a)
<1>1. auctions \in House /\ a \in AuctionIds /\ auctions[a] \in AuctionEntry
      /\ auctions[a] # NoAuction
  BY EntryType, Constants DEF TypeOK, House
<1>2. auctions' # auctions /\ auctions'[a] = NoAuction
  <2>1. auctions'[a] = NoAuction
    BY <1>1 DEF Running
  <2> QED BY <1>1, <2>1
<1>3. Next
  BY <1>2 DEF vars
<1>4. ASSUME NEW p \in Players, ActOf(p)
      PROVE  EndedBy(p, a)
  <2>1. ASSUME NEW i \in Items, NEW s \in 1..MaxOffer, NEW b \in 0..MaxOffer,
               HandleAuctionSellItem(p, i, s, b)
        PROVE  FALSE
    <3>1. PICK c \in AuctionIds \ Running : auctions'[a] = IF a = c THEN auctions'[c] ELSE auctions[a]
      BY <1>1, <2>1 DEF HandleAuctionSellItem, House
    <3> QED BY <1>1, <1>2, <3>1
  <2>2. ASSUME NEW b \in AuctionIds, NEW price \in 1..MaxOffer, HandleAuctionPlaceBid(p, b, price)
        PROVE  Buyout(p, a, price)
    <3>1. CASE PlaceBid(p, b, price)
      <4> DEFINE f == [auctions[b] EXCEPT !.bidder = p, !.bid = price]
      <4>1. b \in Running /\ auctions[b] \in AuctionEntry /\ price \in Nat
        BY <3>1, EntryType, Constants DEF PlaceBid
      <4>2. auctions' = [auctions EXCEPT ![b] = f]
        BY <1>1, <3>1, <4>1 DEF PlaceBid, House
      <4>3. f \in AuctionEntry
        BY <4>1 DEF AuctionEntry
      <4> HIDE DEF f
      <4>4. auctions'[a] = IF a = b THEN f ELSE auctions[a]
        BY <1>1, <4>2 DEF House
      <4> QED BY <1>1, <1>2, <4>3, <4>4, Constants
    <3>2. CASE Buyout(p, b, price)
      <4>1. auctions'[a] = IF a = b THEN NoAuction ELSE auctions[a]
        BY <1>1, <3>2 DEF Buyout, Ended, House
      <4> QED BY <1>1, <1>2, <3>2, <4>1
    <3> QED BY <2>2, <3>1, <3>2 DEF HandleAuctionPlaceBid
  <2>3. ASSUME NEW b \in AuctionIds, HandleAuctionRemoveItem(p, b)
        PROVE  HandleAuctionRemoveItem(p, a)
    <3>1. auctions'[a] = IF a = b THEN NoAuction ELSE auctions[a]
      BY <1>1, <2>3 DEF HandleAuctionRemoveItem, Ended, House
    <3> QED BY <1>1, <1>2, <2>3, <3>1
  <2>4. ASSUME NEW r \in Players, NEW items \in SUBSET Items, NEW n \in 0..MaxOffer,
               NEW c \in 0..MaxOffer, HandleSendMail(p, r, items, n, c)
        PROVE  FALSE
    BY <1>2, <2>4 DEF HandleSendMail
  <2>5. ASSUME NEW k \in MailIds,
               \/ HandleMailMarkAsRead(p, k)
               \/ HandleMailDelete(p, k)
               \/ HandleMailReturnToSender(p, k)
               \/ \E i \in Items : HandleMailTakeItem(p, k, i)
               \/ HandleMailTakeMoney(p, k)
        PROVE  FALSE
    BY <1>2, <2>5 DEF HandleMailMarkAsRead, HandleMailDelete, HandleMailReturnToSender,
                      HandleMailTakeItem, HandleMailTakeMoney
  <2> QED BY <1>4, <2>1, <2>2, <2>3, <2>4, <2>5 DEF ActOf, EndedBy
<1>5. ASSUME NEW p \in Players, SavePlayer(p) \/ LogIn(p) \/ LogOut(p)
      PROVE  FALSE
  BY <1>2, <1>5 DEF SavePlayer, LogIn, LogOut
<1>6. ASSUME NEW b \in AuctionIds, AuctionDue(b)
      PROVE  FALSE
  <2> DEFINE f == [auctions[b] EXCEPT !.due = TRUE]
  <2>1. b \in Running /\ auctions[b] \in AuctionEntry
    BY <1>6, EntryType DEF AuctionDue
  <2>2. auctions' = [auctions EXCEPT ![b] = f]
    BY <1>1, <1>6 DEF AuctionDue, House
  <2>3. f \in AuctionEntry
    BY <2>1 DEF AuctionEntry
  <2> HIDE DEF f
  <2>4. auctions'[a] = IF a = b THEN f ELSE auctions[a]
    BY <1>1, <2>2 DEF House
  <2> QED BY <1>1, <1>2, <2>3, <2>4, Constants
<1>7. ASSUME NEW b \in AuctionIds, Update(b)
      PROVE  Update(a)
  <2>1. auctions'[a] = IF a = b THEN NoAuction ELSE auctions[a]
    BY <1>1, <1>7 DEF Update, Ended, House
  <2> QED BY <1>1, <1>2, <1>7, <2>1
<1>8. ASSUME NEW k \in MailIds, MailDelivered(k) \/ MailExpires(k)
      PROVE  FALSE
  BY <1>2, <1>8 DEF MailDelivered, MailExpires
<1>9. CASE \E p \in Players : ActOf(p) \/ SavePlayer(p) \/ LogIn(p) \/ LogOut(p)
  <2>1. PICK p \in Players : ActOf(p) \/ SavePlayer(p) \/ LogIn(p) \/ LogOut(p)
    BY <1>9
  <2>2. EndedBy(p, a)
    BY <2>1, <1>4, <1>5
  <2> QED BY <2>2 DEF EndedByPlayer
<1>10. CASE \E b \in AuctionIds : AuctionDue(b) \/ Update(b)
  BY <1>10, <1>6, <1>7
<1>11. CASE \E k \in MailIds : MailDelivered(k) \/ MailExpires(k)
  BY <1>11, <1>8
<1>12. \/ \E p \in Players : ActOf(p) \/ SavePlayer(p) \/ LogIn(p) \/ LogOut(p)
       \/ \E b \in AuctionIds : AuctionDue(b) \/ Update(b)
       \/ \E k \in MailIds : MailDelivered(k) \/ MailExpires(k)
  BY ONLY <1>3 DEF Next
<1> QED BY ONLY <1>12, <1>9, <1>10, <1>11

\* An item comes into a bag from a mail only.
LEMMA BagGains ==
  ASSUME TypeOK, [Next]_vars, NEW q \in Players, NEW i, i \in bag'[q], i \notin bag[q]
  PROVE  \E k \in MailIds : i \in Items /\ HandleMailTakeItem(q, k, i)
<1>1. bag \in [Players -> SUBSET Items] /\ bag' # bag
  BY DEF TypeOK
<1>2. Next
  BY <1>1 DEF vars
<1>3. ASSUME NEW p \in Players, ActOf(p)
      PROVE  \E k \in MailIds : i \in Items /\ HandleMailTakeItem(q, k, i)
  <2>1. ASSUME NEW j \in Items, NEW s \in 1..MaxOffer, NEW b \in 0..MaxOffer,
               HandleAuctionSellItem(p, j, s, b)
        PROVE  FALSE
    BY <1>1, <2>1 DEF HandleAuctionSellItem
  <2>2. ASSUME NEW a \in AuctionIds, NEW price \in 1..MaxOffer, HandleAuctionPlaceBid(p, a, price)
        PROVE  FALSE
    BY <1>1, <2>2 DEF HandleAuctionPlaceBid, PlaceBid, Buyout
  <2>3. ASSUME NEW a \in AuctionIds, HandleAuctionRemoveItem(p, a)
        PROVE  FALSE
    BY <1>1, <2>3 DEF HandleAuctionRemoveItem
  <2>4. ASSUME NEW r \in Players, NEW items \in SUBSET Items, NEW n \in 0..MaxOffer,
               NEW c \in 0..MaxOffer, HandleSendMail(p, r, items, n, c)
        PROVE  FALSE
    BY <1>1, <2>4 DEF HandleSendMail
  <2>5. ASSUME NEW k \in MailIds,
               \/ HandleMailMarkAsRead(p, k)
               \/ HandleMailDelete(p, k)
               \/ HandleMailReturnToSender(p, k)
               \/ HandleMailTakeMoney(p, k)
        PROVE  FALSE
    BY <1>1, <2>5 DEF HandleMailMarkAsRead, HandleMailDelete, HandleMailReturnToSender,
                      HandleMailTakeMoney
  <2>6. ASSUME NEW k \in MailIds, NEW j \in Items, HandleMailTakeItem(p, k, j)
        PROVE  \E l \in MailIds : i \in Items /\ HandleMailTakeItem(q, l, i)
    <3>1. bag' = [bag EXCEPT ![p] = @ \cup {j}]
      BY <2>6 DEF HandleMailTakeItem
    <3>2. q = p /\ i = j
      BY <1>1, <3>1
    <3> QED BY <2>6, <3>2
  <2> QED BY <1>3, <2>1, <2>2, <2>3, <2>4, <2>5, <2>6 DEF ActOf
<1>4. ASSUME \/ \E p \in Players : SavePlayer(p) \/ LogIn(p) \/ LogOut(p)
             \/ \E a \in AuctionIds : AuctionDue(a) \/ Update(a)
             \/ \E k \in MailIds : MailDelivered(k) \/ MailExpires(k)
      PROVE  FALSE
  BY <1>1, <1>4 DEF SavePlayer, LogIn, LogOut, AuctionDue, Update, MailDelivered, MailExpires
<1> QED BY <1>2, <1>3, <1>4 DEF Next

\* The item of an auction that ends without a buyer is in the mail of its owner.
LEMMA UnsoldItem ==
  ASSUME MoneyInv, NEW a \in Running, InMail(auctions[a].item) = {},
         SendMailTo(mails, {ExpiredMail(auctions[a])} \cup OutbiddedMails(auctions[a])),
         NEW k \in Sent', auctions[a].item \in mails'[k].items
  PROVE  mails'[k].receiver = auctions[a].owner
<1> DEFINE e == auctions[a]
           x == ExpiredMail(e)
           drafts == {x} \cup OutbiddedMails(e)
<1>1. e \in AuctionEntry /\ FairEntry(e) /\ mails \in Box
  BY FairEntryOf, Numbers
<1>2. x \in MailEntry /\ x.receiver = e.owner
  <2> HIDE DEF e, x
  <2>1. x = ExpiredMail(e)
    BY DEF x
  <2> QED BY <1>1, <2>1, ExpiredDraft
<1>3. \A d \in OutbiddedMails(e) : d \in MailEntry /\ d.items = {}
  BY <1>1, AuctionMails
<1>4. drafts \in SUBSET MailEntry /\ SendMailTo(mails, drafts)
  BY <1>2, <1>3
<1> HIDE DEF drafts
<1>5. k \in MailIds /\ mails'[k] # NoMail /\ (mails'[k] = mails[k] \/ mails'[k] \in drafts)
  BY <1>1, <1>4, SentMails DEF Sent
<1>6. mails'[k] # mails[k]
  BY <1>5 DEF InMail, Sent
<1>7. mails'[k] = x
  BY <1>3, <1>5, <1>6 DEF drafts
<1> QED BY <1>2, <1>7

\* An auction that ends with its item in the mail of another pays its owner.
LEMMA OwnerPaid ==
  ASSUME MoneyInv, EachItemOnce, [Next]_vars, NEW a \in Running, a \notin Running',
         NEW k \in Sent', auctions[a].item \in mails'[k].items,
         mails'[k].receiver # auctions[a].owner
  PROVE  Sold(auctions[a])
<1> DEFINE e == auctions[a]
<1>1. a \in AuctionIds /\ e \in AuctionEntry /\ e.item \in Items
  BY FairEntryOf DEF AuctionEntry
<1>2. InMail(e.item) = {}
  <2>1. a \in InAuction(e.item) /\ OncePlaced(e.item)
    BY <1>1 DEF InAuction, EachItemOnce
  <2>2. Holders(mails, e.item) = {}
    BY <2>1, InAuctionOnly
  <2> QED BY <2>2, InMailHolders
<1>3. ~SendMailTo(mails, {ExpiredMail(e)} \cup OutbiddedMails(e))
  BY <1>2, UnsoldItem
<1>4. EndedByPlayer(a) \/ Update(a)
  <2>1. TypeOK
    BY DEF MoneyInv, TypeInv
  <2> QED BY <2>1, EndOfAuction, Zenon
<1>5. ASSUME NEW p \in Players, NEW price \in 1..MaxOffer, Buyout(p, a, price)
      PROVE  Sold(e)
  BY <1>5, BuyoutMoney
<1>6. ASSUME NEW p \in Players, HandleAuctionRemoveItem(p, a)
      PROVE  FALSE
  <2>1. OutbiddedMails(e) \cup {ExpiredMail(e)} = {ExpiredMail(e)} \cup OutbiddedMails(e)
    OBVIOUS
  <2> QED BY <1>3, <1>6, <2>1 DEF HandleAuctionRemoveItem
<1>7. ASSUME Update(a), e.bidder = NoPlayer
      PROVE  FALSE
  <2>1. OutbiddedMails(e) = {}
    BY <1>7 DEF OutbiddedMails
  <2>2. {ExpiredMail(e)} = {ExpiredMail(e)} \cup OutbiddedMails(e)
    BY <2>1
  <2> QED BY <1>3, <1>7, <2>2 DEF Update
<1>8. ASSUME Update(a), e.bidder # NoPlayer
      PROVE  Sold(e)
  BY <1>1, <1>8, UpdateMoney
<1> QED BY <1>4, <1>5, <1>6, <1>7, <1>8 DEF EndedBy, EndedByPlayer

\* An item taken from a mail pays its sender what he asked for.
LEMMA SenderPaid ==
  ASSUME MoneyInv, EachItemOnce, [Next]_vars, NEW k \in Sent, NEW p \in Players,
         NEW q \in Players, mails[k].sender = p, NEW i \in bag'[q] \cap mails[k].items
  PROVE  Fortune(p, money', mails', auctions')
           >= Fortune(p, money, mails, auctions) + mails[k].COD
<1> DEFINE m == mails[k]
<1>1. /\ k \in MailIds /\ m \in MailEntry /\ m # NoMail /\ FairMail(m)
      /\ m.COD \in Nat /\ i \in Items
  BY FairMailOf DEF MailEntry
<1>2. InBag(i) = {} /\ Holders(mails, i) = {k}
  <2>1. k \in Holders(mails, i) /\ OncePlaced(i)
    BY <1>1 DEF Holders, EachItemOnce
  <2> QED BY <2>1, InMailOnly
<1>3. i \notin bag[q]
  BY <1>2 DEF InBag
<1>4. PICK l \in MailIds : i \in Items /\ HandleMailTakeItem(q, l, i)
  BY <1>3, BagGains DEF MoneyInv, TypeInv
<1>5. l = k /\ mails[l].receiver = q
  <2>1. l \in Sent /\ mails[l].receiver = q /\ i \in mails[l].items
    BY <1>4, OpenMail DEF HandleMailTakeItem
  <2>2. l \in Holders(mails, i)
    BY <2>1 DEF Holders, Sent
  <2> QED BY <1>2, <2>1, <2>2
<1>6. HandleMailTakeItem(q, k, i) /\ m.receiver = q /\ p # q
  BY <1>1, <1>4, <1>5 DEF FairMail
<1>7. ~Poorer(p) /\ Repaid(m)
  BY <1>1, <1>6, TakeItemMoney
<1> DEFINE old == Fortune(p, money, mails, auctions)
           new == Fortune(p, money', mails', auctions')
<1>8. old \in Nat
  <2>1. money[p] \in Nat /\ MailFor(p, mails) \in Nat /\ BidsOf(p, auctions) \in Nat
    BY Numbers
  <2> QED BY <2>1 DEF Fortune
<1>9. new \in Nat
  <2>1. TypeOK'
    BY MoneyStep DEF MoneyInv, TypeInv
  <2>2. mails' \in Box /\ auctions' \in House /\ money'[p] \in 0..MaxMoney
    BY <2>1 DEF TypeOK, Box, House
  <2>3. money'[p] \in Nat /\ MailFor(p, mails') \in Nat /\ BidsOf(p, auctions') \in Nat
    BY <2>2, SumTypes, Constants
  <2> QED BY <2>3 DEF Fortune
<1>10. ~(new < old) /\ (m.COD > 0 => new >= old + m.COD)
  BY <1>7 DEF Poorer, Repaid
<1> HIDE DEF new, old, m
<1>11. new >= old + m.COD
  BY <1>1, <1>8, <1>9, <1>10
<1> QED BY <1>11 DEF new, old, m

\* Nobody loses an item for less than he asked for it, in an auction or by a
\* mail with COD, whatever he and the others do.
THEOREM SellersGetTheirPrice == Spec => SellersPaid
<1> DEFINE Body ==
       \A p \in Players :
         /\ \A a \in Running \ Running' : \A k \in Sent' :
              LET e == auctions[a] IN
              /\ e.owner = p
              /\ e.item \in mails'[k].items /\ mails'[k].receiver # p
              => Wealth(p)' >= Wealth(p) + Deposit + Asked(e) - GetAuctionCut(Asked(e))
         /\ \A k \in Sent, q \in Players :
              mails[k].sender = p /\ bag'[q] \cap mails[k].items # {}
                => Wealth(p)' >= Wealth(p) + mails[k].COD
     Inv == MoneyInv /\ EachItemOnce
<1>1. Inv /\ [Next]_vars => [Body]_vars
  <2> SUFFICES ASSUME MoneyInv, EachItemOnce, [Next]_vars, NEW p \in Players
               PROVE  /\ \A a \in Running \ Running' : \A k \in Sent' :
                           LET e == auctions[a] IN
                           /\ e.owner = p
                           /\ e.item \in mails'[k].items /\ mails'[k].receiver # p
                           => Wealth(p)' >= Wealth(p) + Deposit + Asked(e) - GetAuctionCut(Asked(e))
                      /\ \A k \in Sent, q \in Players :
                           mails[k].sender = p /\ bag'[q] \cap mails[k].items # {}
                             => Wealth(p)' >= Wealth(p) + mails[k].COD
    OBVIOUS
  <2>1. TypeOK /\ TypeOK'
    BY MoneyStep DEF MoneyInv, TypeInv
  <2>2. /\ Wealth(p) = Fortune(p, money, mails, auctions)
        /\ Wealth(p)' = Fortune(p, money', mails', auctions')
    BY <2>1, WealthCounted, WealthCountedNext
  <2>3. Wealth(p) \in Nat
    <3>1. money[p] \in Nat /\ MailFor(p, mails) \in Nat /\ BidsOf(p, auctions) \in Nat
      BY Numbers
    <3> QED BY <2>2, <3>1 DEF Fortune
  <2>4. ASSUME NEW a \in Running \ Running', NEW k \in Sent', auctions[a].owner = p,
               auctions[a].item \in mails'[k].items, mails'[k].receiver # p
        PROVE  Wealth(p)' >= Wealth(p) + Deposit + Asked(auctions[a])
                             - GetAuctionCut(Asked(auctions[a]))
    <3>1. Wealth(p)' >= Wealth(p) + Price(Asked(auctions[a]))
      BY <2>2, <2>4, OwnerPaid DEF Sold
    <3> DEFINE asked == Asked(auctions[a])
    <3>2. asked \in Nat
      BY FairEntryOf DEF Asked
    <3>3. Deposit \in Nat /\ GetAuctionCut(asked) \in Nat
      BY <3>2, Prices, Constants
    <3> HIDE DEF asked
    <3>4. Wealth(p) + Price(asked) = Wealth(p) + Deposit + asked - GetAuctionCut(asked)
      BY <2>3, <3>2, <3>3 DEF Price
    <3> QED BY <3>1, <3>4 DEF asked
  <2>5. ASSUME NEW k \in Sent, NEW q \in Players, mails[k].sender = p,
               bag'[q] \cap mails[k].items # {}
        PROVE  Wealth(p)' >= Wealth(p) + mails[k].COD
    <3>1. PICK i \in bag'[q] \cap mails[k].items : TRUE
      BY <2>5
    <3> QED BY <2>2, <2>5, <3>1, SenderPaid
  <2> QED BY <2>4, <2>5
<1>2. Spec => [][Body]_vars
  <2>1. Init => Inv
    BY MoneyInit, ItemInit
  <2>2. Inv /\ [Next]_vars => Inv'
    BY MoneyStep, ItemStep DEF IInv, MoneyInv
  <2> HIDE DEF Body, Inv
  <2> QED BY <1>1, <2>1, <2>2, PTL DEF Spec
<1> QED BY <1>2 DEF SellersPaid
=============================================================================
