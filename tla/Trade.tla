------------------------------- MODULE Trade -------------------------------
(***************************************************************************)
(* Trade between two players of a map (src/game/TradeHandler.cpp and        *)
(* TradeData in src/game/Player.cpp).  Each side of a trade names items and *)
(* money it offers and a spell it casts on the item the other shows in the  *)
(* slot that is not traded; when both have accepted, the second acceptance  *)
(* exchanges what is offered.  All of it runs in the world thread, so that  *)
(* an action is a handler; what makes it hard is that offers only name      *)
(* items and money, which go on changing hands in between.                 *)
(*                                                                         *)
(* Abstracted: the guards on distance, life, faction and the like, which    *)
(* may refuse to begin a trade in any state; where an item lies in an       *)
(* inventory, of which only the number of places is kept; stacks that merge *)
(* and items with a carry limit; the item a spell is cast with, which       *)
(* counts as part of the spell.                                            *)
(***************************************************************************)
EXTENDS Integers, FiniteSets

CONSTANTS
  Players, NoPlayer,
  Items, NoItem,
  Spells, NoSpell,
  TradedSlots, NonTraded,  \* TRADE_SLOT_NONTRADED shows an item to a spell
  Places,                  \* inventory places of a player
  MaxMoney,                \* MAX_MONEY_AMOUNT
  MaxOffer                 \* bound: the money a client offers

ASSUME TradeAssumption ==
  /\ NoPlayer \notin Players /\ NoItem \notin Items /\ NoSpell \notin Spells
  /\ NonTraded \notin TradedSlots
  /\ Places \in Nat /\ MaxMoney \in Nat /\ MaxOffer \in Nat
  /\ IsFiniteSet(Players) /\ IsFiniteSet(Items)

VARIABLES
  world,      \* the players in the world
  money,
  owner,      \* in whose inventory an item is
  bound,      \* the items that CanBeTraded refuses
  trader,     \* with whom a player trades; NoPlayer where m_trade is NULL
  offer,      \* m_money, m_items and m_spell of m_trade
  accepted,   \* m_accepted of m_trade
  agreed      \* history: the two offers as they were when a player accepted

vars == <<world, money, owner, bound, trader, offer, accepted, agreed>>
holdings == <<money, owner>>
trades == <<trader, offer, accepted, agreed>>

Slots == TradedSlots \cup {NonTraded}
Offer == [money : 0..MaxOffer, items : [Slots -> Items \cup {NoItem}],
          spell : Spells \cup {NoSpell}]
NoOffer == [money |-> 0, items |-> [s \in Slots |-> NoItem], spell |-> NoSpell]
Agreement == [mine : Offer, his : Offer]
NoAgreement == [mine |-> NoOffer, his |-> NoOffer]

TypeOK ==
  /\ world \subseteq Players
  /\ money \in [Players -> 0..MaxMoney]
  /\ owner \in [Items -> Players \cup {NoPlayer}]
  /\ bound \subseteq Items
  /\ trader \in [Players -> Players \cup {NoPlayer}]
  /\ offer \in [Players -> Offer]
  /\ accepted \in [Players -> BOOLEAN]
  /\ agreed \in [Players -> Agreement]

Inventory(p) == {i \in Items : owner[i] = p}

\* Nobody has more items than places, whatever he is given in exchange.
ItemsHavePlaces == \A p \in Players : Cardinality(Inventory(p)) <= Places

Init ==
  /\ world = Players
  /\ money \in [Players -> 0..MaxMoney]
  /\ owner \in [Items -> Players \cup {NoPlayer}] /\ ItemsHavePlaces
  /\ bound = {}
  /\ trader = [p \in Players |-> NoPlayer]
  /\ offer = [p \in Players |-> NoOffer]
  /\ accepted = [p \in Players |-> FALSE]
  /\ agreed = [p \in Players |-> NoAgreement]

Trading(p) == p \in world /\ trader[p] # NoPlayer

\* The history: what a player has before him when he accepts.
Recorded ==
  agreed' = [p \in Players |->
    CASE ~accepted'[p] -> NoAgreement
      [] accepted'[p] /\ accepted[p] -> agreed[p]
      [] OTHER -> [mine |-> offer[p], his |-> offer[trader[p]]]]

-----------------------------------------------------------------------------
(* Beginning and ending.                                                   *)

\* Both sides get a TradeData, if neither is trading already.
HandleInitiateTradeOpcode(p, q) ==
  /\ {p, q} \subseteq world /\ p # q
  /\ trader[p] = NoPlayer /\ trader[q] = NoPlayer
  /\ trader' = [trader EXCEPT ![p] = q, ![q] = p]
  /\ UNCHANGED <<world, holdings, bound, offer, accepted, agreed>>

\* Deletes the TradeData of both sides.
TradeClosed(p) ==
  LET closed == {p, trader[p]} IN
  /\ trader' = [q \in Players |-> IF q \in closed THEN NoPlayer ELSE trader[q]]
  /\ offer' = [q \in Players |-> IF q \in closed THEN NoOffer ELSE offer[q]]
  /\ accepted' = [q \in Players |-> q \notin closed /\ accepted[q]]
  /\ Recorded

TradeCancel(p) == IF trader[p] # NoPlayer THEN TradeClosed(p) ELSE UNCHANGED trades

\* By the client, and by taking a flight.
HandleCancelTradeOpcode(p) ==
  /\ Trading(p)
  /\ TradeCancel(p)
  /\ UNCHANGED <<world, holdings, bound>>

\* Mutant: the trade is forgotten on the way out.
LeaveWorldTrading(p) ==
  /\ p \in world
  /\ world' = world \ {p}
  /\ UNCHANGED <<holdings, bound, trades>>

\* CleanupsBeforeDelete, on every way out of the world.
LeaveWorld(p) ==
  /\ p \in world
  /\ TradeCancel(p)
  /\ world' = world \ {p}
  /\ UNCHANGED <<holdings, bound>>

EnterWorld(p) ==
  /\ p \in Players \ world
  /\ world' = world \cup {p}
  /\ UNCHANGED <<holdings, bound, trades>>

-----------------------------------------------------------------------------
(* Changing an offer.                                                      *)

\* Mutant: only the own acceptance is taken back.
OfferChangedAlone(p, new) ==
  /\ offer' = [offer EXCEPT ![p] = new]
  /\ accepted' = IF new = offer[p] THEN accepted ELSE [accepted EXCEPT ![p] = FALSE]

\* Changes an offer, and takes both acceptances back, if it is another one.
OfferChanged(p, new) ==
  /\ offer' = [offer EXCEPT ![p] = new]
  /\ accepted' = IF new = offer[p] THEN accepted
                 ELSE [accepted EXCEPT ![p] = FALSE, ![trader[p]] = FALSE]

\* TradeData::SetMoney, with any amount: it is checked on acceptance.
HandleSetTradeGoldOpcode(p, gold) ==
  /\ Trading(p)
  /\ OfferChanged(p, [offer[p] EXCEPT !.money = gold])
  /\ Recorded /\ UNCHANGED <<world, holdings, bound, trader>>

\* TradeData::SetItem: an item in another slot also ends the own spell, and
\* that of the partner if it was to be cast on the item.
SetItem(p, slot, item) ==
  LET t == trader[p] IN
  IF offer[p].items[slot] = item THEN UNCHANGED <<offer, accepted>>
  ELSE /\ offer' = [offer EXCEPT
            ![p].items[slot] = item, ![p].spell = NoSpell,
            ![t].spell = IF slot = NonTraded THEN NoSpell ELSE @]
       /\ accepted' = [accepted EXCEPT ![p] = FALSE, ![t] = FALSE]

HasItem(p, item) == \E s \in Slots : offer[p].items[s] = item

HandleSetTradeItemOpcode(p, slot, item) ==
  /\ Trading(p)
  /\ owner[item] = p
  /\ slot = NonTraded \/ item \notin bound
  /\ ~HasItem(p, item)
  /\ SetItem(p, slot, item)
  /\ Recorded /\ UNCHANGED <<world, holdings, bound, trader>>

HandleClearTradeItemOpcode(p, slot) ==
  /\ Trading(p)
  /\ SetItem(p, slot, NoItem)
  /\ Recorded /\ UNCHANGED <<world, holdings, bound, trader>>

\* TradeData::GetItem: the item of a slot, if its player still has it.
GetItem(p, slot) ==
  LET item == offer[p].items[slot] IN
  IF item \in Items /\ owner[item] = p THEN item ELSE NoItem

\* Spell::CheckCast remembers a spell on the partner's item for later.
SetSpell(p, spell) ==
  /\ Trading(p)
  /\ GetItem(trader[p], NonTraded) # NoItem
  /\ OfferChanged(p, [offer[p] EXCEPT !.spell = spell])
  /\ Recorded /\ UNCHANGED <<world, holdings, bound, trader>>

-----------------------------------------------------------------------------
(* Accepting.                                                              *)

TradedItems(p) == {GetItem(p, s) : s \in TradedSlots} \ {NoItem}

\* my_trade->SetAccepted(true).
SetAccepted(p) == accepted' = [accepted EXCEPT ![p] = TRUE]

MoneyShort(p) == offer[p].money > money[p]

\* Somebody offers money he does not have: he has not accepted.
AcceptMoneyShort(p) ==
  LET t == trader[p] IN
  /\ Trading(p)
  /\ MoneyShort(p) \/ MoneyShort(t)
  /\ IF MoneyShort(p)
     THEN accepted' = [accepted EXCEPT ![p] = FALSE]
     ELSE accepted' = [accepted EXCEPT ![p] = TRUE, ![t] = FALSE]
  /\ Recorded /\ UNCHANGED <<world, holdings, bound, trader, offer>>

\* An item cannot be traded any more; the acceptance stays.
ItemsBound(p) == (TradedItems(p) \cup TradedItems(trader[p])) \cap bound # {}

AcceptItemBound(p) ==
  /\ Trading(p)
  /\ ~MoneyShort(p) /\ ~MoneyShort(trader[p])
  /\ ItemsBound(p)
  /\ SetAccepted(p)
  /\ Recorded /\ UNCHANGED <<world, holdings, bound, trader, offer>>

\* Mutant: the partner's money is not looked at again.
AcceptCheckedAlone(p) ==
  /\ Trading(p)
  /\ ~MoneyShort(p)
  /\ ~ItemsBound(p)

AcceptChecked(p) ==
  /\ Trading(p)
  /\ ~MoneyShort(p) /\ ~MoneyShort(trader[p])
  /\ ~ItemsBound(p)

AcceptFirst(p) ==
  /\ AcceptChecked(p)
  /\ ~accepted[trader[p]]
  /\ SetAccepted(p)
  /\ Recorded /\ UNCHANGED <<world, holdings, bound, trader, offer>>

AcceptSecond(p) == AcceptChecked(p) /\ accepted[trader[p]]

\* SetSpell(0) for a spell that finds no item, or that CheckCast refuses; the
\* own spell comes first.
AcceptSpellFails(p) ==
  \E caster \in {p, trader[p]} :
    /\ AcceptSecond(p)
    /\ offer[caster].spell # NoSpell
    /\ caster # p /\ offer[p].spell # NoSpell => GetItem(caster, NonTraded) # NoItem
    /\ offer' = [offer EXCEPT ![caster].spell = NoSpell]
    /\ accepted' = [accepted EXCEPT ![p] = FALSE, ![trader[p]] = FALSE]
    /\ Recorded /\ UNCHANGED <<world, holdings, bound, trader>>

\* The spells find their items, and so may be cast.
SpellsCast(p) ==
  /\ offer[p].spell # NoSpell => GetItem(trader[p], NonTraded) # NoItem
  /\ offer[trader[p]].spell # NoSpell => GetItem(p, NonTraded) # NoItem

\* CanStoreItems with the items of both that are in trade out of the way.
Fits(p, items, without) ==
  Cardinality(Inventory(p) \ without) + Cardinality(items) <= Places

\* Mutant: only the partner's inventory is tested.
RoomForPartner(p) == Fits(trader[p], TradedItems(p), TradedItems(trader[p]))

RoomForBoth(p) ==
  LET t == trader[p] IN
  /\ Fits(t, TradedItems(p), TradedItems(t))
  /\ Fits(p, TradedItems(t), TradedItems(p))

AcceptNoRoom(p) ==
  /\ AcceptSecond(p) /\ SpellsCast(p)
  /\ ~RoomForBoth(p)
  /\ accepted' = [accepted EXCEPT ![p] = FALSE, ![trader[p]] = FALSE]
  /\ Recorded /\ UNCHANGED <<world, holdings, bound, trader, offer>>

\* Player::ModifyMoney, for an amount taken and for an amount given.
Less(m, d) == IF m > d THEN m - d ELSE 0
\* Mutant: no limit.
MoreUnlimited(m, d) == m + d
More(m, d) == IF m < MaxMoney - d THEN m + d ELSE MaxMoney

\* The items change hands, the money, and the trade is over.
AcceptExchange(p) ==
  LET t == trader[p] IN
  /\ AcceptSecond(p) /\ SpellsCast(p) /\ RoomForBoth(p)
  /\ owner' = [i \in Items |-> IF i \in TradedItems(p) THEN t
                               ELSE IF i \in TradedItems(t) THEN p ELSE owner[i]]
  /\ money' = [money EXCEPT
       ![p] = More(Less(@, offer[p].money), offer[t].money),
       ![t] = More(Less(@, offer[t].money), offer[p].money)]
  /\ TradeClosed(p)
  /\ UNCHANGED <<world, bound>>

HandleAcceptTradeOpcode(p) ==
  \/ AcceptMoneyShort(p)
  \/ AcceptItemBound(p)
  \/ AcceptFirst(p)
  \/ AcceptSpellFails(p)
  \/ AcceptNoRoom(p)
  \/ AcceptExchange(p)

HandleUnacceptTradeOpcode(p) ==
  /\ Trading(p)
  /\ accepted' = [accepted EXCEPT ![p] = FALSE]
  /\ Recorded /\ UNCHANGED <<world, holdings, bound, trader, offer>>

-----------------------------------------------------------------------------
(* What else happens to items and money: selling, mail, loot, looking into  *)
(* a box, equipping; none of it looks at the trade.                        *)

ItemMoves(item) ==
  /\ \E o \in (world \cup {NoPlayer}) \ {owner[item]} :
       /\ o # NoPlayer => Fits(o, {item}, {})
       /\ owner' = [owner EXCEPT ![item] = o]
  /\ UNCHANGED <<world, money, bound, trades>>

ItemBinds(item) ==
  /\ bound' = IF item \in bound THEN bound \ {item} ELSE bound \cup {item}
  /\ UNCHANGED <<world, holdings, trades>>

MoneyChanges(p, m) ==
  /\ p \in world
  /\ money' = [money EXCEPT ![p] = m]
  /\ UNCHANGED <<world, owner, bound, trades>>

-----------------------------------------------------------------------------
Next ==
  \/ \E p, q \in Players : HandleInitiateTradeOpcode(p, q)
  \/ \E p \in Players :
       \/ HandleCancelTradeOpcode(p)
       \/ LeaveWorld(p)
       \/ EnterWorld(p)
       \/ \E gold \in 0..MaxOffer : HandleSetTradeGoldOpcode(p, gold)
       \/ \E s \in Slots, i \in Items : HandleSetTradeItemOpcode(p, s, i)
       \/ \E s \in Slots : HandleClearTradeItemOpcode(p, s)
       \/ \E spell \in Spells : SetSpell(p, spell)
       \/ HandleAcceptTradeOpcode(p)
       \/ HandleUnacceptTradeOpcode(p)
       \/ \E m \in 0..MaxMoney : MoneyChanges(p, m)
  \/ \E i \in Items : ItemMoves(i) \/ ItemBinds(i)

Spec == Init /\ [][Next]_vars

-----------------------------------------------------------------------------
(* Properties.                                                             *)

\* A trade has two sides that name each other, and both are in the world:
\* every handler follows GetTrader() and GetTraderData() without looking.
TradesPaired ==
  \A p \in Players : trader[p] # NoPlayer =>
    /\ p \in world
    /\ trader[p] \in world \ {p}
    /\ trader[trader[p]] = p

\* Nothing is exchanged but what both agreed to: the partner's acceptance
\* was given to the two offers as they are now.
AgreedByBoth == [][\A p \in Players : AcceptExchange(p) => LET t == trader[p] IN
  accepted[t] /\ agreed[t] = [mine |-> offer[t], his |-> offer[p]]]_vars

\* An exchange makes no money, and loses some only to the most a player may
\* have.  Items and money of players outside the trade do not change.
ExchangeConserves == [][\A p \in Players : AcceptExchange(p) => LET t == trader[p] IN
  /\ \/ money'[p] + money'[t] = money[p] + money[t]
     \/ /\ money'[p] + money'[t] < money[p] + money[t]
        /\ MaxMoney \in {money'[p], money'[t]}
  /\ \A q \in Players \ {p, t} :
       /\ money'[q] = money[q]
       /\ \A i \in Items : owner'[i] = q <=> owner[i] = q
  /\ \A i \in Items : owner[i] \in {p, t} => owner'[i] \in {p, t}]_vars
=============================================================================
