---------------------------- MODULE Trade_proofs ----------------------------
(***************************************************************************)
(* Proofs about Trade for any players, items, spells, slots and amounts:    *)
(* trades are mutual, an exchange is what both have agreed to, makes no     *)
(* money, and overfills no inventory.                                      *)
(***************************************************************************)
EXTENDS Trade, FiniteSetTheorems, TLAPS

\* An acceptance belongs to a trade, and to the offers as they are.
AgreementKept ==
  \A p \in Players : accepted[p] =>
    /\ trader[p] \in Players
    /\ agreed[p] = [mine |-> offer[p], his |-> offer[trader[p]]]

IInv == TypeOK /\ TradesPaired /\ AgreementKept

-----------------------------------------------------------------------------
(* Types.                                                                  *)

\* The empty offer is an offer.
LEMMA NoOfferType ==
  NoOffer \in Offer /\ NoAgreement \in Agreement
BY TradeAssumption DEF NoOffer, NoAgreement, Offer, Agreement

\* An offer with other money, with another spell, or with another item in a
\* slot and no spell, is an offer.
LEMMA OfferWith ==
  ASSUME NEW o \in Offer
  PROVE  /\ \A gold \in 0..MaxOffer : [o EXCEPT !.money = gold] \in Offer
         /\ \A spell \in Spells \cup {NoSpell} : [o EXCEPT !.spell = spell] \in Offer
         /\ \A slot \in Slots, item \in Items \cup {NoItem} :
              [[o EXCEPT !.items[slot] = item] EXCEPT !.spell = NoSpell] \in Offer
BY DEF Offer

\* What Recorded writes is an agreement.
LEMMA RecordedType ==
  ASSUME TypeOK, Recorded, AgreementKept,
         \A p \in Players : accepted'[p] => trader[p] \in Players
  PROVE  agreed' \in [Players -> Agreement]
<1>1. \A p \in Players : accepted'[p] =>
        [mine |-> offer[p], his |-> offer[trader[p]]] \in Agreement
  BY DEF TypeOK, Agreement
<1> QED BY <1>1, NoOfferType DEF TypeOK, Recorded

\* Closing a trade keeps the types.
LEMMA TradeClosedType ==
  ASSUME TypeOK, AgreementKept, NEW p \in Players, TradeClosed(p)
  PROVE  /\ trader' \in [Players -> Players \cup {NoPlayer}]
         /\ offer' \in [Players -> Offer]
         /\ accepted' \in [Players -> BOOLEAN]
         /\ agreed' \in [Players -> Agreement]
<1>1. accepted' \in [Players -> BOOLEAN]
  BY DEF TradeClosed, TypeOK
<1>2. \A q \in Players : accepted'[q] => trader[q] \in Players
  BY DEF TradeClosed, AgreementKept
<1>3. agreed' \in [Players -> Agreement]
  BY <1>2, RecordedType DEF TradeClosed
<1> QED BY <1>1, <1>3, NoOfferType DEF TradeClosed, TypeOK

\* ModifyMoney stays between nothing and the most.
LEMMA ModifyMoneyType ==
  ASSUME NEW m \in 0..MaxMoney, NEW d \in Nat, NEW g \in Nat
  PROVE  More(Less(m, d), g) \in 0..MaxMoney
BY TradeAssumption DEF More, Less

\* Another offer of p, an item in another slot included, keeps the types.
LEMMA OfferChangedType ==
  ASSUME TypeOK, AgreementKept, TradesPaired, Recorded, UNCHANGED trader,
         NEW p \in Players, Trading(p),
         \/ \E new \in Offer : OfferChanged(p, new)
         \/ \E slot \in Slots, item \in Items \cup {NoItem} : SetItem(p, slot, item)
  PROVE  /\ offer' \in [Players -> Offer]
         /\ accepted' \in [Players -> BOOLEAN]
         /\ agreed' \in [Players -> Agreement]
<1>1. trader[p] \in Players
  BY DEF Trading, TypeOK
<1>2. /\ offer' \in [Players -> Offer]
      /\ accepted' \in [Players -> BOOLEAN]
      /\ \A q \in Players : accepted'[q] => accepted[q]
  <2>1. CASE \E new \in Offer : OfferChanged(p, new)
    BY <1>1, <2>1 DEF OfferChanged, TypeOK
  <2>2. CASE \E slot \in Slots, item \in Items \cup {NoItem} : SetItem(p, slot, item)
    <3>1. PICK slot \in Slots, item \in Items \cup {NoItem} : SetItem(p, slot, item)
      BY <2>2
    <3>2. CASE offer[p].items[slot] = item
      BY <3>1, <3>2 DEF SetItem, TypeOK
    <3>3. CASE offer[p].items[slot] # item
      <4> DEFINE t == trader[p]
                 mine == [[offer[p] EXCEPT !.items[slot] = item] EXCEPT !.spell = NoSpell]
                 his == [offer[t] EXCEPT !.spell = IF slot = NonTraded THEN NoSpell ELSE @]
      <4>1. t # p
        BY <1>1 DEF Trading, TradesPaired
      <4>2. /\ offer' = [offer EXCEPT ![p] = mine, ![t] = his]
            /\ accepted' = [accepted EXCEPT ![p] = FALSE, ![t] = FALSE]
        BY <1>1, <3>1, <3>3, <4>1 DEF SetItem, TypeOK, Offer
      <4>3. mine \in Offer
        <5> offer[p] \in Offer
          BY DEF TypeOK
        <5> QED BY OfferWith
      <4>4. his \in Offer
        <5>1. offer[t] \in Offer
          BY <1>1 DEF TypeOK
        <5>2. [offer[t] EXCEPT !.spell = NoSpell] \in Offer
          BY <5>1, OfferWith
        <5>3. [offer[t] EXCEPT !.spell = offer[t].spell] \in Offer
          BY <5>1 DEF Offer
        <5> QED BY <5>2, <5>3
      <4> QED BY <1>1, <4>2, <4>3, <4>4 DEF TypeOK
    <3> QED BY <3>2, <3>3
  <2> QED BY <2>1, <2>2
<1>3. \A q \in Players : accepted'[q] => trader[q] \in Players
  BY <1>2 DEF AgreementKept
<1> QED BY <1>2, <1>3, RecordedType

\* An answer to a client that accepts, which leaves the offers alone, keeps
\* the types.
LEMMA AcceptedType ==
  ASSUME TypeOK, AgreementKept, Recorded, NEW p \in Players, Trading(p),
         \E a \in BOOLEAN :
           \/ accepted' = [accepted EXCEPT ![p] = a]
           \/ accepted' = [accepted EXCEPT ![p] = a, ![trader[p]] = FALSE]
  PROVE  /\ accepted' \in [Players -> BOOLEAN]
         /\ agreed' \in [Players -> Agreement]
<1>1. trader[p] \in Players
  BY DEF Trading, TypeOK
<1>2. /\ accepted' \in [Players -> BOOLEAN]
      /\ \A q \in Players \ {p} : accepted'[q] => accepted[q]
  BY <1>1 DEF TypeOK
<1>3. \A q \in Players : accepted'[q] => trader[q] \in Players
  BY <1>1, <1>2 DEF AgreementKept
<1> QED BY <1>2, <1>3, RecordedType

\* Every variable keeps its type in every step.
LEMMA TypeStep == IInv /\ [Next]_vars => TypeOK'
<1> SUFFICES ASSUME IInv, [Next]_vars
             PROVE  TypeOK'
  OBVIOUS
<1> USE DEF IInv
<1>1. ASSUME NEW p \in Players, NEW q \in Players, HandleInitiateTradeOpcode(p, q)
      PROVE  TypeOK'
  BY <1>1 DEF HandleInitiateTradeOpcode, TypeOK, holdings
<1>2. ASSUME NEW p \in Players, HandleCancelTradeOpcode(p)
      PROVE  TypeOK'
  BY <1>2, TradeClosedType DEF HandleCancelTradeOpcode, TradeCancel, TypeOK, holdings, trades
<1>3. ASSUME NEW p \in Players, LeaveWorld(p)
      PROVE  TypeOK'
  BY <1>3, TradeClosedType DEF LeaveWorld, TradeCancel, TypeOK, holdings, trades
<1>4. ASSUME NEW p \in Players, EnterWorld(p)
      PROVE  TypeOK'
  BY <1>4 DEF EnterWorld, TypeOK, holdings, trades
<1>5. ASSUME NEW p \in Players, NEW gold \in 0..MaxOffer, HandleSetTradeGoldOpcode(p, gold)
      PROVE  TypeOK'
  <2>1. [offer[p] EXCEPT !.money = gold] \in Offer
    BY OfferWith DEF TypeOK
  <2> QED BY <1>5, <2>1, OfferChangedType DEF HandleSetTradeGoldOpcode, TypeOK, holdings
<1>6. ASSUME NEW p \in Players, NEW s \in Slots, NEW i \in Items, HandleSetTradeItemOpcode(p, s, i)
      PROVE  TypeOK'
  BY <1>6, OfferChangedType DEF HandleSetTradeItemOpcode, TypeOK, holdings
<1>7. ASSUME NEW p \in Players, NEW s \in Slots, HandleClearTradeItemOpcode(p, s)
      PROVE  TypeOK'
  BY <1>7, OfferChangedType DEF HandleClearTradeItemOpcode, TypeOK, holdings
<1>8. ASSUME NEW p \in Players, NEW spell \in Spells, SetSpell(p, spell)
      PROVE  TypeOK'
  <2>1. [offer[p] EXCEPT !.spell = spell] \in Offer
    BY OfferWith DEF TypeOK
  <2> QED BY <1>8, <2>1, OfferChangedType DEF SetSpell, TypeOK, holdings
<1>9. ASSUME NEW p \in Players, HandleAcceptTradeOpcode(p)
      PROVE  TypeOK'
  <2>1. CASE AcceptMoneyShort(p)
    BY <2>1, AcceptedType DEF AcceptMoneyShort, TypeOK, holdings
  <2>2. CASE AcceptItemBound(p)
    BY <2>2, AcceptedType DEF AcceptItemBound, SetAccepted, TypeOK, holdings
  <2>3. CASE AcceptFirst(p)
    BY <2>3, AcceptedType DEF AcceptFirst, AcceptChecked, SetAccepted, TypeOK, holdings
  <2>4. CASE AcceptSpellFails(p)
    <3>1. PICK caster \in {p, trader[p]} :
            /\ AcceptSecond(p)
            /\ offer' = [offer EXCEPT ![caster].spell = NoSpell]
            /\ accepted' = [accepted EXCEPT ![p] = FALSE, ![trader[p]] = FALSE]
            /\ Recorded /\ UNCHANGED <<world, holdings, bound, trader>>
      BY <2>4 DEF AcceptSpellFails
    <3>2. trader[p] \in Players /\ caster \in Players
      BY <3>1 DEF AcceptSecond, AcceptChecked, Trading, TypeOK
    <3>3. [offer[caster] EXCEPT !.spell = NoSpell] \in Offer
      BY <3>2, OfferWith DEF TypeOK
    <3>4. /\ offer' \in [Players -> Offer]
          /\ accepted' \in [Players -> BOOLEAN]
          /\ agreed' \in [Players -> Agreement]
      BY <3>1, <3>2, <3>3, AcceptedType DEF AcceptSecond, AcceptChecked, TypeOK
    <3> QED BY <3>1, <3>4 DEF TypeOK, holdings
  <2>5. CASE AcceptNoRoom(p)
    BY <2>5, AcceptedType DEF AcceptNoRoom, AcceptSecond, AcceptChecked, TypeOK, holdings
  <2>6. CASE AcceptExchange(p)
    <3>1. trader[p] \in Players
      BY <2>6 DEF AcceptExchange, AcceptSecond, AcceptChecked, Trading, TypeOK
    <3>2. offer[p].money \in Nat /\ offer[trader[p]].money \in Nat
      BY <3>1, TradeAssumption DEF TypeOK, Offer
    <3>3. money' \in [Players -> 0..MaxMoney]
      BY <2>6, <3>1, <3>2, ModifyMoneyType DEF AcceptExchange, TypeOK
    <3>4. owner' \in [Items -> Players \cup {NoPlayer}]
      BY <2>6, <3>1 DEF AcceptExchange, TypeOK
    <3> QED BY <2>6, <3>3, <3>4, TradeClosedType DEF AcceptExchange, TypeOK
  <2> QED BY <1>9, <2>1, <2>2, <2>3, <2>4, <2>5, <2>6 DEF HandleAcceptTradeOpcode
<1>10. ASSUME NEW p \in Players, HandleUnacceptTradeOpcode(p)
       PROVE  TypeOK'
  BY <1>10, AcceptedType DEF HandleUnacceptTradeOpcode, TypeOK, holdings
<1>11. ASSUME NEW p \in Players, NEW m \in 0..MaxMoney, MoneyChanges(p, m)
       PROVE  TypeOK'
  BY <1>11 DEF MoneyChanges, TypeOK, trades
<1>12. ASSUME NEW i \in Items, ItemMoves(i) \/ ItemBinds(i)
       PROVE  TypeOK'
  BY <1>12 DEF ItemMoves, ItemBinds, TypeOK, trades, holdings
<1>13. CASE UNCHANGED vars
  BY <1>13 DEF vars, TypeOK, holdings, trades
<1> QED BY <1>1, <1>2, <1>3, <1>4, <1>5, <1>6, <1>7, <1>8, <1>9, <1>10, <1>11, <1>12, <1>13 DEF Next

-----------------------------------------------------------------------------
(* Pairs.                                                                  *)

\* Nobody else trades with the two of a trade.
LEMMA Partners ==
  ASSUME TypeOK, TradesPaired, NEW p \in Players, trader[p] # NoPlayer
  PROVE  /\ trader[p] \in Players \ {p} /\ trader[trader[p]] = p
         /\ \A q \in Players \ {p, trader[p]} : trader[q] \notin {p, trader[p]}
<1>1. trader[p] \in Players \ {p} /\ trader[trader[p]] = p
  BY DEF TypeOK, TradesPaired
<1>2. ASSUME NEW q \in Players, trader[q] \in {p, trader[p]}
      PROVE  q \in {p, trader[p]}
  <2>1. trader[q] # NoPlayer
    BY <1>1, <1>2, TradeAssumption
  <2>2. trader[trader[q]] = q
    BY <2>1 DEF TradesPaired
  <2> QED BY <1>1, <1>2, <2>2
<1> QED BY <1>1, <1>2

\* Closing a trade leaves the other pairs as they are, and p outside.
LEMMA PairsAfterClose ==
  ASSUME TypeOK, TradesPaired, NEW p \in Players, TradeCancel(p)
  PROVE  /\ TradesPaired /\ trader'[p] = NoPlayer
         /\ \A q \in Players : trader'[q] # NoPlayer =>
              /\ q # p /\ q \in world
              /\ trader'[q] \in world \ {q, p}
              /\ trader'[trader'[q]] = q
BY TradeAssumption DEF TradeCancel, TradeClosed, trades, TradesPaired, TypeOK

\* Pairs stay pairs.
LEMMA PairedStep == IInv /\ [Next]_vars => TradesPaired'
<1> SUFFICES ASSUME IInv, [Next]_vars
             PROVE  TradesPaired'
  OBVIOUS
<1> USE DEF IInv
<1>1. ASSUME NEW p \in Players, NEW q \in Players, HandleInitiateTradeOpcode(p, q)
      PROVE  TradesPaired'
  BY <1>1, TradeAssumption DEF HandleInitiateTradeOpcode, TradesPaired, TypeOK
<1>2. ASSUME NEW p \in Players, HandleCancelTradeOpcode(p)
      PROVE  TradesPaired'
  BY <1>2, PairsAfterClose DEF HandleCancelTradeOpcode, TradesPaired
<1>3. ASSUME NEW p \in Players, LeaveWorld(p)
      PROVE  TradesPaired'
  BY <1>3, PairsAfterClose DEF LeaveWorld, TradesPaired
<1>4. ASSUME NEW p \in Players, EnterWorld(p)
      PROVE  TradesPaired'
  BY <1>4 DEF EnterWorld, TradesPaired, trades
<1>5. ASSUME NEW p \in Players, AcceptExchange(p)
      PROVE  TradesPaired'
  <2>1. TradeCancel(p)
    BY <1>5 DEF AcceptExchange, AcceptSecond, AcceptChecked, Trading, TradeCancel
  <2> QED BY <1>5, <2>1, PairsAfterClose DEF AcceptExchange, TradesPaired
<1>6. CASE UNCHANGED <<world, trader>>
  BY <1>6 DEF TradesPaired
<1> QED
  BY <1>1, <1>2, <1>3, <1>4, <1>5, <1>6
  DEF Next, HandleSetTradeGoldOpcode, HandleSetTradeItemOpcode, HandleClearTradeItemOpcode,
      SetSpell, HandleAcceptTradeOpcode, AcceptMoneyShort, AcceptItemBound, AcceptFirst,
      AcceptSpellFails, AcceptNoRoom, HandleUnacceptTradeOpcode, ItemMoves, ItemBinds,
      MoneyChanges, trades, vars

-----------------------------------------------------------------------------
(* Agreements.                                                             *)

\* An acceptance that lasts is one of offers that stay as they are.
LEMMA AgreementLasts ==
  ASSUME IInv, Recorded,
         \A q \in Players : accepted'[q] =>
           /\ trader[q] \in Players /\ trader'[q] = trader[q]
           /\ offer'[q] = offer[q] /\ offer'[trader[q]] = offer[trader[q]]
  PROVE  AgreementKept'
<1> SUFFICES ASSUME NEW q \in Players, accepted'[q]
             PROVE  /\ trader'[q] \in Players
                    /\ agreed'[q] = [mine |-> offer'[q], his |-> offer'[trader'[q]]]
  BY DEF AgreementKept
<1>1. agreed'[q] = [mine |-> offer[q], his |-> offer[trader[q]]]
  BY DEF Recorded, IInv, AgreementKept
<1> QED BY <1>1

\* A change of an offer ends both acceptances, and leaves all others.
LEMMA AgreementAfterOffer ==
  ASSUME IInv, Recorded, UNCHANGED trader, NEW p \in Players, Trading(p),
         \/ \E new \in Offer : OfferChanged(p, new)
         \/ \E slot \in Slots, item \in Items \cup {NoItem} : SetItem(p, slot, item)
  PROVE  AgreementKept'
<1>1. /\ trader[p] \in Players \ {p} /\ trader[trader[p]] = p
      /\ \A q \in Players \ {p, trader[p]} : trader[q] \notin {p, trader[p]}
  BY Partners DEF IInv, Trading
<1>2. \/ UNCHANGED <<offer, accepted>>
      \/ /\ \A q \in Players \ {p, trader[p]} :
              offer'[q] = offer[q] /\ accepted'[q] = accepted[q]
         /\ ~accepted'[p] /\ ~accepted'[trader[p]]
  <2>1. CASE \E new \in Offer : OfferChanged(p, new)
    <3>1. PICK new \in Offer : OfferChanged(p, new)
      BY <2>1
    <3> QED BY <1>1, <3>1 DEF IInv, OfferChanged, TypeOK
  <2>2. CASE \E slot \in Slots, item \in Items \cup {NoItem} : SetItem(p, slot, item)
    <3>1. PICK slot \in Slots, item \in Items \cup {NoItem} : SetItem(p, slot, item)
      BY <2>2
    <3> QED BY <1>1, <3>1 DEF IInv, SetItem, TypeOK
  <2> QED BY <2>1, <2>2
<1>3. \A q \in Players : accepted[q] => trader[q] \in Players
  BY DEF IInv, AgreementKept
<1>4. \A q \in Players : accepted'[q] =>
        /\ trader[q] \in Players /\ trader'[q] = trader[q]
        /\ offer'[q] = offer[q] /\ offer'[trader[q]] = offer[trader[q]]
  BY <1>1, <1>2, <1>3
<1> QED BY <1>4, AgreementLasts

\* Ending a trade ends its acceptances, and leaves all others.
LEMMA AgreementAfterClose ==
  ASSUME IInv, NEW p \in Players, TradeCancel(p)
  PROVE  AgreementKept'
<1>1. CASE trader[p] = NoPlayer
  BY <1>1 DEF TradeCancel, trades, IInv, AgreementKept
<1>2. CASE trader[p] # NoPlayer
  <2>1. /\ trader[p] \in Players /\ trader[trader[p]] = p /\ TradeClosed(p)
        /\ \A q \in Players \ {p, trader[p]} : trader[q] \notin {p, trader[p]}
    BY <1>2, Partners DEF IInv, TradeCancel
  <2>2. \A q \in Players : accepted'[q] => q \notin {p, trader[p]} /\ accepted[q]
    BY <2>1 DEF TradeClosed
  <2>3. \A q \in Players : accepted'[q] =>
          /\ trader[q] \in Players /\ trader'[q] = trader[q]
          /\ offer'[q] = offer[q] /\ offer'[trader[q]] = offer[trader[q]]
    BY <2>1, <2>2 DEF IInv, AgreementKept, TradeClosed
  <2> QED BY <2>1, <2>3, AgreementLasts DEF TradeClosed
<1> QED BY <1>1, <1>2

\* An answer to a client that accepts is one for the offers as they are.
LEMMA AgreementAfterAnswer ==
  ASSUME IInv, Recorded, UNCHANGED <<trader, offer>>, NEW p \in Players, Trading(p),
         \E a \in BOOLEAN :
           \/ accepted' = [accepted EXCEPT ![p] = a]
           \/ accepted' = [accepted EXCEPT ![p] = a, ![trader[p]] = FALSE]
  PROVE  AgreementKept'
<1>1. trader[p] \in Players
  BY DEF IInv, Trading, TypeOK
<1>2. \A q \in Players \ {p} : accepted'[q] => accepted[q]
  BY <1>1 DEF IInv, TypeOK
<1>3. \A q \in Players : accepted'[q] => trader[q] \in Players
  BY <1>1, <1>2 DEF IInv, AgreementKept
<1> QED BY <1>3, AgreementLasts

\* Agreements are kept.
LEMMA AgreementStep == IInv /\ [Next]_vars => AgreementKept'
<1> SUFFICES ASSUME IInv, [Next]_vars
             PROVE  AgreementKept'
  OBVIOUS
<1>1. ASSUME NEW p \in Players, NEW q \in Players, HandleInitiateTradeOpcode(p, q)
      PROVE  AgreementKept'
  <2>1. ~accepted[p] /\ ~accepted[q]
    BY <1>1, TradeAssumption DEF HandleInitiateTradeOpcode, IInv, AgreementKept
  <2> QED BY <1>1, <2>1 DEF HandleInitiateTradeOpcode, IInv, AgreementKept, TypeOK
<1>2. ASSUME NEW p \in Players, HandleCancelTradeOpcode(p) \/ LeaveWorld(p)
      PROVE  AgreementKept'
  BY <1>2, AgreementAfterClose DEF HandleCancelTradeOpcode, LeaveWorld
<1>3. ASSUME NEW p \in Players, NEW gold \in 0..MaxOffer, HandleSetTradeGoldOpcode(p, gold)
      PROVE  AgreementKept'
  <2>1. [offer[p] EXCEPT !.money = gold] \in Offer
    BY OfferWith DEF IInv, TypeOK
  <2> QED BY <1>3, <2>1, AgreementAfterOffer DEF HandleSetTradeGoldOpcode
<1>4. ASSUME NEW p \in Players, NEW s \in Slots, NEW i \in Items, HandleSetTradeItemOpcode(p, s, i)
      PROVE  AgreementKept'
  BY <1>4, AgreementAfterOffer DEF HandleSetTradeItemOpcode
<1>5. ASSUME NEW p \in Players, NEW s \in Slots, HandleClearTradeItemOpcode(p, s)
      PROVE  AgreementKept'
  BY <1>5, AgreementAfterOffer DEF HandleClearTradeItemOpcode
<1>6. ASSUME NEW p \in Players, NEW spell \in Spells, SetSpell(p, spell)
      PROVE  AgreementKept'
  <2>1. [offer[p] EXCEPT !.spell = spell] \in Offer
    BY OfferWith DEF IInv, TypeOK
  <2> QED BY <1>6, <2>1, AgreementAfterOffer DEF SetSpell
<1>7. ASSUME NEW p \in Players, HandleAcceptTradeOpcode(p)
      PROVE  AgreementKept'
  <2>1. CASE AcceptMoneyShort(p)
    BY <2>1, AgreementAfterAnswer DEF AcceptMoneyShort
  <2>2. CASE AcceptItemBound(p)
    BY <2>2, AgreementAfterAnswer DEF AcceptItemBound, SetAccepted
  <2>3. CASE AcceptFirst(p)
    BY <2>3, AgreementAfterAnswer DEF AcceptFirst, AcceptChecked, SetAccepted
  <2>4. CASE AcceptSpellFails(p)
    <3>1. PICK caster \in {p, trader[p]} :
            /\ AcceptSecond(p)
            /\ offer' = [offer EXCEPT ![caster].spell = NoSpell]
            /\ accepted' = [accepted EXCEPT ![p] = FALSE, ![trader[p]] = FALSE]
            /\ Recorded /\ UNCHANGED <<world, holdings, bound, trader>>
      BY <2>4 DEF AcceptSpellFails
    <3>2. /\ trader[p] \in Players \ {p} /\ trader[trader[p]] = p
          /\ \A q \in Players \ {p, trader[p]} : trader[q] \notin {p, trader[p]}
      BY <3>1, Partners DEF AcceptSecond, AcceptChecked, Trading, IInv
    <3>3. \A q \in Players : accepted'[q] => accepted[q] /\ q \notin {p, trader[p]}
      BY <3>1, <3>2 DEF IInv, TypeOK
    <3>4. \A q \in Players \ {p, trader[p]} : offer'[q] = offer[q]
      BY <3>1, <3>2 DEF IInv, TypeOK
    <3>5. \A q \in Players : accepted'[q] =>
            /\ trader[q] \in Players /\ trader'[q] = trader[q]
            /\ offer'[q] = offer[q] /\ offer'[trader[q]] = offer[trader[q]]
      BY <3>1, <3>2, <3>3, <3>4 DEF IInv, AgreementKept
    <3> QED BY <3>1, <3>5, AgreementLasts
  <2>5. CASE AcceptNoRoom(p)
    BY <2>5, AgreementAfterAnswer DEF AcceptNoRoom, AcceptSecond, AcceptChecked
  <2>6. CASE AcceptExchange(p)
    BY <2>6, AgreementAfterClose
    DEF AcceptExchange, AcceptSecond, AcceptChecked, Trading, TradeCancel
  <2> QED BY <1>7, <2>1, <2>2, <2>3, <2>4, <2>5, <2>6 DEF HandleAcceptTradeOpcode
<1>8. ASSUME NEW p \in Players, HandleUnacceptTradeOpcode(p)
      PROVE  AgreementKept'
  BY <1>8, AgreementAfterAnswer DEF HandleUnacceptTradeOpcode
<1>9. CASE UNCHANGED trades
  BY <1>9 DEF IInv, AgreementKept, trades
<1> QED
  BY <1>1, <1>2, <1>3, <1>4, <1>5, <1>6, <1>7, <1>8, <1>9
  DEF Next, EnterWorld, ItemMoves, ItemBinds, MoneyChanges, vars, trades

-----------------------------------------------------------------------------
(* The theorems.                                                           *)

\* The initial states satisfy the invariant.
LEMMA InitInv == Init => IInv
<1>1. Init => TypeOK
  BY NoOfferType DEF Init, TypeOK
<1>2. Init => TradesPaired /\ AgreementKept
  BY DEF Init, TradesPaired, AgreementKept
<1> QED BY <1>1, <1>2 DEF IInv

\* The inductive invariant.
LEMMA Inductive == Spec => []IInv
<1>1. IInv /\ [Next]_vars => IInv'
  BY TypeStep, PairedStep, AgreementStep DEF IInv
<1> QED BY <1>1, InitInv, PTL DEF Spec

\* Every variable keeps its type: nobody has more money than the most, and
\* no offer names a slot or an item there is not.
THEOREM TypeCorrect == Spec => []TypeOK
BY Inductive, PTL DEF IInv

\* A trade is mutual and between two players of the world, so that no handler
\* follows a pointer to a player who is gone.
THEOREM MutualTrades == Spec => []TradesPaired
BY Inductive, PTL DEF IInv

\* An exchange has the consent of both, given to the offers as they are.
THEOREM Consent == Spec => AgreedByBoth
<1>1. ASSUME IInv, [Next]_vars, NEW p \in Players, AcceptExchange(p)
      PROVE  LET t == trader[p] IN
             accepted[t] /\ agreed[t] = [mine |-> offer[t], his |-> offer[p]]
  BY <1>1 DEF AcceptExchange, AcceptSecond, AcceptChecked, Trading, IInv, TypeOK,
              TradesPaired, AgreementKept
<1> DEFINE Agreed == \A p \in Players : AcceptExchange(p) => LET t == trader[p] IN
      accepted[t] /\ agreed[t] = [mine |-> offer[t], his |-> offer[p]]
<1>2. IInv /\ [Next]_vars => [Agreed]_vars
  BY <1>1
<1> HIDE DEF Agreed
<1>3. Spec => [][Agreed]_vars
  BY <1>2, Inductive, PTL DEF Spec
<1> QED BY <1>3 DEF AgreedByBoth, Agreed

\* Two players' money after an exchange.
LEMMA MoneyExchanged ==
  ASSUME NEW a \in 0..MaxMoney, NEW b \in 0..MaxMoney,
         NEW x \in Nat, NEW y \in Nat, x <= a, y <= b
  PROVE  LET c == More(Less(a, x), y)
             d == More(Less(b, y), x)
         IN  c + d = a + b \/ (c + d < a + b /\ MaxMoney \in {c, d})
<1>1. Less(a, x) = a - x /\ Less(b, y) = b - y
  BY DEF Less
<1>2. \A m \in Nat, g \in Nat :
        \/ More(m, g) = m + g
        \/ More(m, g) = MaxMoney /\ MaxMoney < m + g
  BY TradeAssumption DEF More
<1>3. a - x \in Nat /\ b - y \in Nat
  OBVIOUS
<1>4. \/ More(a - x, y) = a - x + y
      \/ More(a - x, y) = MaxMoney /\ MaxMoney < a - x + y
  BY <1>2, <1>3
<1>5. \/ More(b - y, x) = b - y + x
      \/ More(b - y, x) = MaxMoney /\ MaxMoney < b - y + x
  BY <1>2, <1>3
<1> HIDE DEF More, Less
<1> QED BY <1>1, <1>4, <1>5, TradeAssumption

\* An exchange keeps the items and, but for the cap, the money of the two, and
\* leaves everybody else alone.
THEOREM Conservation == Spec => ExchangeConserves
<1> DEFINE Conserved(p) == LET t == trader[p] IN
      /\ \/ money'[p] + money'[t] = money[p] + money[t]
         \/ /\ money'[p] + money'[t] < money[p] + money[t]
            /\ MaxMoney \in {money'[p], money'[t]}
      /\ \A q \in Players \ {p, t} :
           /\ money'[q] = money[q]
           /\ \A i \in Items : owner'[i] = q <=> owner[i] = q
      /\ \A i \in Items : owner[i] \in {p, t} => owner'[i] \in {p, t}
<1>1. ASSUME IInv, NEW p \in Players, AcceptExchange(p)
      PROVE  Conserved(p)
  <2> DEFINE t == trader[p]
  <2>1. t \in Players \ {p}
    BY <1>1, Partners DEF AcceptExchange, AcceptSecond, AcceptChecked, Trading, IInv
  <2>2. /\ money[p] \in 0..MaxMoney /\ money[t] \in 0..MaxMoney
        /\ offer[p].money \in Nat /\ offer[t].money \in Nat
    BY <1>1, <2>1, TradeAssumption DEF IInv, TypeOK, Offer
  <2>3. offer[p].money <= money[p] /\ offer[t].money <= money[t]
    BY <1>1, <2>2 DEF AcceptExchange, AcceptSecond, AcceptChecked, MoneyShort
  <2>4. /\ money'[p] = More(Less(money[p], offer[p].money), offer[t].money)
        /\ money'[t] = More(Less(money[t], offer[t].money), offer[p].money)
        /\ \A q \in Players \ {p, t} : money'[q] = money[q]
    BY <1>1, <2>1 DEF IInv, TypeOK, AcceptExchange
  <2>5. \/ money'[p] + money'[t] = money[p] + money[t]
        \/ /\ money'[p] + money'[t] < money[p] + money[t]
           /\ MaxMoney \in {money'[p], money'[t]}
    BY <2>2, <2>3, <2>4, MoneyExchanged
  <2>6. \A i \in Items : /\ i \in TradedItems(p) => owner[i] = p
                         /\ i \in TradedItems(t) => owner[i] = t
    BY TradeAssumption DEF TradedItems, GetItem
  <2>7. \A i \in Items : owner'[i] = IF i \in TradedItems(p) THEN t
                                     ELSE IF i \in TradedItems(t) THEN p ELSE owner[i]
    BY <1>1 DEF AcceptExchange
  <2> QED BY <2>1, <2>4, <2>5, <2>6, <2>7
<1>2. IInv /\ [Next]_vars => [\A p \in Players : AcceptExchange(p) => Conserved(p)]_vars
  BY <1>1
<1>3. Spec => [][\A p \in Players : AcceptExchange(p) => Conserved(p)]_vars
  <2> HIDE DEF Conserved
  <2> DEFINE A == \A p \in Players : AcceptExchange(p) => Conserved(p)
  <2>1. IInv /\ [Next]_vars => [A]_vars
    BY <1>2
  <2> HIDE DEF A
  <2>2. Spec => [][A]_vars
    BY <2>1, Inductive, PTL DEF Spec
  <2> QED BY <2>2 DEF A
<1> QED BY <1>3 DEF ExchangeConserves

\* After an exchange each of the two has a place for every item of his.
LEMMA RoomAfterExchange ==
  ASSUME TypeOK, NEW p, NEW items, NEW without, NEW after,
         IsFiniteSet(items), Fits(p, items, without),
         after \subseteq (Inventory(p) \ without) \cup items
  PROVE  Cardinality(after) <= Places
<1> DEFINE kept == Inventory(p) \ without
<1>1. IsFiniteSet(kept)
  <2>1. kept \in SUBSET Items
    BY DEF Inventory
  <2> QED BY <2>1, FS_Subset, TradeAssumption
<1>2. /\ IsFiniteSet(kept \cup items)
      /\ Cardinality(kept \cup items) <= Cardinality(kept) + Cardinality(items)
  <2>1. IsFiniteSet(kept \cup items) /\ IsFiniteSet(kept \cap items)
    BY <1>1, FS_Union, FS_Intersection
  <2>2. Cardinality(kept \cup items)
          = Cardinality(kept) + Cardinality(items) - Cardinality(kept \cap items)
    BY <1>1, FS_Union
  <2>3. /\ Cardinality(kept) \in Nat /\ Cardinality(items) \in Nat
        /\ Cardinality(kept \cap items) \in Nat
    BY <1>1, <2>1, FS_CardinalityType
  <2> QED BY <2>1, <2>2, <2>3
<1>3. /\ IsFiniteSet(after)
      /\ Cardinality(after) <= Cardinality(kept \cup items)
  BY <1>2, FS_Subset
<1>4. /\ Cardinality(kept) \in Nat /\ Cardinality(items) \in Nat
      /\ Cardinality(kept \cup items) \in Nat /\ Cardinality(after) \in Nat
  BY <1>1, <1>2, <1>3, FS_CardinalityType
<1>5. Cardinality(kept) + Cardinality(items) <= Places
  BY DEF Fits
<1> HIDE DEF kept
<1> QED BY <1>2, <1>3, <1>4, <1>5, TradeAssumption

\* No step overfills an inventory.
LEMMA PlacesStep == IInv /\ ItemsHavePlaces /\ [Next]_vars => ItemsHavePlaces'
<1> SUFFICES ASSUME IInv, ItemsHavePlaces, [Next]_vars
             PROVE  ItemsHavePlaces'
  OBVIOUS
<1>1. ASSUME NEW p \in Players, AcceptExchange(p)
      PROVE  ItemsHavePlaces'
  <2> DEFINE t == trader[p]
             Given(a) == {i \in Items : owner'[i] = a}
  <2>1. t \in Players \ {p}
    BY <1>1, Partners DEF AcceptExchange, AcceptSecond, AcceptChecked, Trading, IInv
  <2>2. \A i \in Items : /\ i \in TradedItems(p) => owner[i] = p
                         /\ i \in TradedItems(t) => owner[i] = t
    BY TradeAssumption DEF TradedItems, GetItem
  <2>3. \A i \in Items : owner'[i] = IF i \in TradedItems(p) THEN t
                                     ELSE IF i \in TradedItems(t) THEN p ELSE owner[i]
    BY <1>1 DEF AcceptExchange
  <2>4. /\ TradedItems(p) \subseteq Items /\ TradedItems(t) \subseteq Items
        /\ IsFiniteSet(TradedItems(p)) /\ IsFiniteSet(TradedItems(t))
    <3>1. TradedItems(p) \in SUBSET Items /\ TradedItems(t) \in SUBSET Items
      BY DEF TradedItems, GetItem
    <3> QED BY <3>1, FS_Subset, TradeAssumption
  <2>5. Given(p) \subseteq (Inventory(p) \ TradedItems(p)) \cup TradedItems(t)
    BY <2>1, <2>2, <2>3 DEF Inventory
  <2>6. Given(t) \subseteq (Inventory(t) \ TradedItems(t)) \cup TradedItems(p)
    BY <2>1, <2>2, <2>3 DEF Inventory
  <2>7. \A q \in Players \ {p, t} : Given(q) = Inventory(q)
    BY <2>1, <2>2, <2>3 DEF Inventory
  <2>8. /\ Fits(t, TradedItems(p), TradedItems(t))
        /\ Fits(p, TradedItems(t), TradedItems(p))
    BY <1>1 DEF AcceptExchange, RoomForBoth
  <2> HIDE DEF Given
  <2>9. Cardinality(Given(p)) <= Places
    BY <2>4, <2>5, <2>8, RoomAfterExchange DEF IInv
  <2>10. Cardinality(Given(t)) <= Places
    BY <2>4, <2>6, <2>8, RoomAfterExchange DEF IInv
  <2>11. \A q \in Players : Cardinality(Given(q)) <= Places
    BY <2>7, <2>9, <2>10 DEF ItemsHavePlaces
  <2> QED BY <2>11 DEF ItemsHavePlaces, Inventory, Given
<1>2. ASSUME NEW i \in Items, ItemMoves(i)
      PROVE  ItemsHavePlaces'
  <2> DEFINE Given(a) == {j \in Items : owner'[j] = a}
  <2>1. PICK o \in (world \cup {NoPlayer}) \ {owner[i]} :
          /\ o # NoPlayer => Fits(o, {i}, {})
          /\ owner' = [owner EXCEPT ![i] = o]
    BY <1>2 DEF ItemMoves
  <2>2. \A j \in Items : owner'[j] = IF j = i THEN o ELSE owner[j]
    BY <2>1 DEF IInv, TypeOK
  <2>3. ASSUME NEW q \in Players
        PROVE  Cardinality(Given(q)) <= Places
    <3>1. CASE q = o
      <4>1. IsFiniteSet({i}) /\ Fits(q, {i}, {})
        BY <2>1, <3>1, FS_Singleton, TradeAssumption
      <4>2. Given(q) \subseteq (Inventory(q) \ {}) \cup {i}
        BY <2>2 DEF Inventory
      <4> HIDE DEF Given
      <4> QED BY <4>1, <4>2, RoomAfterExchange DEF IInv
    <3>2. CASE q # o
      <4>1. Given(q) \in SUBSET Inventory(q)
        BY <2>2, <3>2 DEF Inventory
      <4>2. Inventory(q) \in SUBSET Items
        BY DEF Inventory
      <4>3. IsFiniteSet(Inventory(q)) /\ Cardinality(Inventory(q)) <= Places
        BY <4>2, FS_Subset, TradeAssumption DEF ItemsHavePlaces
      <4> HIDE DEF Given
      <4>4. IsFiniteSet(Given(q)) /\ Cardinality(Given(q)) <= Cardinality(Inventory(q))
        BY <4>1, <4>3, FS_Subset
      <4>5. Cardinality(Given(q)) \in Nat /\ Cardinality(Inventory(q)) \in Nat
        BY <4>3, <4>4, FS_CardinalityType
      <4> QED BY <4>3, <4>4, <4>5, TradeAssumption
    <3> QED BY <3>1, <3>2
  <2> QED BY <2>3 DEF ItemsHavePlaces, Inventory
<1>3. CASE UNCHANGED owner
  BY <1>3 DEF ItemsHavePlaces, Inventory
<1> QED
  BY <1>1, <1>2, <1>3
  DEF Next, HandleInitiateTradeOpcode, HandleCancelTradeOpcode, LeaveWorld, EnterWorld,
      HandleSetTradeGoldOpcode, HandleSetTradeItemOpcode, HandleClearTradeItemOpcode,
      SetSpell, HandleAcceptTradeOpcode, AcceptMoneyShort, AcceptItemBound, AcceptFirst,
      AcceptSpellFails, AcceptNoRoom, HandleUnacceptTradeOpcode, ItemBinds, MoneyChanges,
      vars, holdings

\* Nobody is given more items than he has places: the room is tested for both
\* before anything moves, with what leaves taken out.
THEOREM NoOverfullInventory == Spec => []ItemsHavePlaces
<1>1. Init => ItemsHavePlaces
  BY DEF Init
<1>2. ItemsHavePlaces /\ IInv /\ [Next]_vars => ItemsHavePlaces'
  BY PlacesStep
<1> QED BY <1>1, <1>2, Inductive, PTL DEF Spec

=============================================================================
