---------------------------- MODULE BgQueue_proofs ----------------------------
(***************************************************************************)
(* Proofs about BgQueue for any players, types, battlegrounds and limits,  *)
(* when no queue is updated while one who waits changes maps (CalmTravel): *)
(* the counts of the battlegrounds, the slots of the players, their timers *)
(* and the queues agree whatever the order of handlers, events and updates. *)
(***************************************************************************)
EXTENDS BgQueueLists_proofs

-----------------------------------------------------------------------------
(* The invariant.                                                          *)

\* What holds of each part of the state by itself; invited counts, which are
\* taken from, are numbers because of the places taken.
KnownInv ==
  /\ where \in [Players -> {"world", "far", "off"}]
  /\ slot \in [Players -> [Types -> BGs \cup {NoSlot, Waiting}]]
  /\ bgOf \in [Players -> BGs \cup {NoBg}]
  /\ events \in [Players -> SUBSET RemoveEvent]
  /\ \A p \in Players : IsFiniteSet(events[p])
  /\ scheduled \subseteq Types
  /\ bg \in [BGs -> [status : Status, type : Types, invited : [Teams -> Nat]]]
  /\ members \in [BGs -> [Players -> {"out", "in", "away"}]]
  /\ offline \in [BGs -> Seq(Players)]

QueueInv == queue \in [Types -> [Lists -> Seq(GroupInfo)]] /\ \A t \in Types : Well(queue[t], t)

\* Who waits has the slot, and who is invited also the timer.
EntryInv ==
  \A t \in Types, p \in Players : \A b, n : EntryIn(queue[t], p, b, n) =>
    /\ where[p] # "off"
    /\ slot[p][t] = IF b = NoBg THEN Waiting ELSE b
    /\ b # NoBg => /\ Live(b) /\ bg[b].type = t
                   /\ [type |-> t, bg |-> b, time |-> n] \in events[p]

\* Who does not wait has no slot, or that of his battleground.
NoEntry(p, t) == \A b, n : ~EntryIn(queue[t], p, b, n)
InSlot(p, t) == \E b \in BGs : /\ slot[p][t] = b /\ bgOf[p] = b /\ where[p] # "off"
                               /\ Live(b) /\ bg[b].type = t
SlotInv == \A p \in Players, t \in Types : NoEntry(p, t) => slot[p][t] = NoSlot \/ InSlot(p, t)

\* Who belongs to a battleground has its slot, does not wait for another one
\* of the type, and when in the world is in it.
BelongsInv ==
  \A p \in Players, b \in BGs, t \in Types :
    (where[p] # "off" /\ bgOf[p] = b /\ Live(b) /\ bg[b].type = t) =>
      /\ slot[p][t] = b
      /\ NoEntry(p, t)
      /\ where[p] = "world" => members[b][p] # "out"
MembersInv ==
  \A b \in BGs, p \in Players : members[b][p] # "out" => bgOf[p] = b /\ Live(b) /\ where[p] # "far"

FreeInv ==
  \A t \in Types :
    /\ freeQueue[t] \in Seq(BGs)
    /\ \A i, j \in DOMAIN freeQueue[t] : freeQueue[t][i] = freeQueue[t][j] => i = j
    /\ \A i \in DOMAIN freeQueue[t] : /\ bg[freeQueue[t][i]].status = "running"
                                      /\ bg[freeQueue[t][i]].type = t

\* Who has a place: he is invited, on the way, or a member.
Holds(p, b) ==
  \/ \E n : EntryIn(queue[bg[b].type], p, b, n)
  \/ where[p] = "far" /\ bgOf[p] = b
  \/ members[b][p] # "out"
Holders(b) == {p \in Players : Holds(p, b)}
OfTeam(S, team) == {p \in S : TeamOf[p] = team}
CountInv ==
  \A b \in BGs : Live(b) => \A team \in Teams :
    /\ bg[b].invited[team] = Cardinality(OfTeam(Holders(b), team))
    /\ bg[b].invited[team] <= MaxPlayersPerTeam[bg[b].type]

IInv == /\ KnownInv /\ QueueInv /\ freeQueue \in [Types -> Seq(BGs)]
        /\ EntryInv /\ SlotInv /\ BelongsInv /\ MembersInv /\ FreeInv /\ CountInv

\* Sets of players are finite.
LEMMA FinitePlayers ==
  ASSUME NEW S, S \subseteq Players
  PROVE  /\ IsFiniteSet(S) /\ Cardinality(S) \in Nat
         /\ \A team : IsFiniteSet(OfTeam(S, team)) /\ Cardinality(OfTeam(S, team)) \in Nat
<1>1. \A T \in SUBSET Players : IsFiniteSet(T) /\ Cardinality(T) \in Nat
  BY Constants, FS_Subset, FS_CardinalityType
<1>2. \A team : OfTeam(S, team) \in SUBSET Players
  BY DEF OfTeam
<1> QED BY <1>1, <1>2

\* The counts of what is left when places are given back.
LEMMA CountLess ==
  ASSUME NEW H, H \subseteq Players, NEW L, L \subseteq H, NEW team, NEW n, NEW m,
         n = Cardinality(OfTeam(H, team)), m = n - Cardinality(OfTeam(L, team))
  PROVE  m = Cardinality(OfTeam(H \ L, team)) /\ m \in Nat /\ m <= n
<1> DEFINE A == OfTeam(H, team)
           B == OfTeam(L, team)
           C == OfTeam(H \ L, team)
<1>1. /\ IsFiniteSet(A) /\ Cardinality(A) \in Nat /\ IsFiniteSet(B) /\ Cardinality(B) \in Nat
      /\ IsFiniteSet(C) /\ Cardinality(C) \in Nat
  <2>1. L \subseteq Players /\ H \ L \subseteq Players
    OBVIOUS
  <2> QED BY <2>1, FinitePlayers
<1>2. C = A \ B /\ A \cap B = B
  BY DEF OfTeam
<1> HIDE DEF A, B, C
<1>3. Cardinality(A \ B) = Cardinality(A) - Cardinality(A \cap B)
  BY <1>1, FS_Difference
<1>4. n = Cardinality(A) /\ m = n - Cardinality(B) /\ Cardinality(C) = Cardinality(A) - Cardinality(B)
  BY <1>2, <1>3 DEF A, B
<1>5. m = Cardinality(C) /\ m \in Nat /\ m <= n
  BY <1>1, <1>4
<1> QED BY <1>5 DEF C

\* One player counts one.
LEMMA CountOne ==
  ASSUME NEW p, NEW team
  PROVE  /\ Cardinality(OfTeam({}, team)) = 0
         /\ Cardinality(OfTeam({p}, team)) = IF TeamOf[p] = team THEN 1 ELSE 0
<1>1. OfTeam({}, team) = {} /\ OfTeam({p}, team) = IF TeamOf[p] = team THEN {p} ELSE {}
  BY DEF OfTeam
<1>2. Cardinality({}) = 0 /\ Cardinality({p}) = 1
  BY FS_EmptySet, FS_Singleton
<1> QED BY <1>1, <1>2

\* What the handlers ask about a player, by his entries.
LEMMA Asked ==
  ASSUME NEW t \in Types, Well(queue[t], t), NEW p
  PROVE  /\ Queued(p, t) <=> ~NoEntry(p, t)
         /\ \A b : InvitedTo(p, t, b) <=> \E n : EntryIn(queue[t], p, b, n)
         /\ Queued(p, t) => EntryIn(queue[t], p, GroupOf(p, t).invited, GroupOf(p, t).time)
<1>1. GroupsOf(t) = GroupsIn(queue[t])
  BY DEF GroupsOf, GroupsIn
<1>2. Queued(p, t) <=> ~NoEntry(p, t)
  BY <1>1 DEF Queued, NoEntry, EntryIn
<1>3. ASSUME Queued(p, t)
      PROVE  EntryIn(queue[t], p, GroupOf(p, t).invited, GroupOf(p, t).time)
  <2> DEFINE g == GroupOf(p, t)
  <2>1. g \in GroupsOf(t) /\ p \in g.players
    BY <1>3 DEF GroupOf, Queued
  <2> HIDE DEF g
  <2>2. EntryIn(queue[t], p, g.invited, g.time)
    BY <1>1, <2>1 DEF EntryIn
  <2> QED BY <2>2 DEF g
<1>4. ASSUME NEW b
      PROVE  InvitedTo(p, t, b) <=> \E n : EntryIn(queue[t], p, b, n)
  <2>1. ASSUME InvitedTo(p, t, b) PROVE \E n : EntryIn(queue[t], p, b, n)
    BY <1>3, <2>1 DEF InvitedTo
  <2>2. ASSUME NEW n, EntryIn(queue[t], p, b, n) PROVE InvitedTo(p, t, b)
    <3>1. Queued(p, t)
      BY <1>2, <2>2 DEF NoEntry
    <3> DEFINE lists == queue[t]
               c == GroupOf(p, t).invited
               m == GroupOf(p, t).time
    <3>2. EntryIn(lists, p, c, m) /\ EntryIn(lists, p, b, n) /\ Well(lists, t)
      BY <1>3, <2>2, <3>1
    <3> HIDE DEF lists, c, m
    <3>3. c = b
      BY <3>2, OneEntry
    <3> QED BY <3>1, <3>3 DEF InvitedTo, c
  <2> QED BY <2>1, <2>2
<1> QED BY <1>2, <1>3, <1>4

\* The places a player gives back by leaving queues: one at most of each
\* battleground.
Gives(p, from, b) ==
  IF Live(b) /\ bg[b].type \in from /\ \E n : EntryIn(queue[bg[b].type], p, b, n)
    THEN {p} ELSE {}

\* GivesBack takes them from the counts, and changes nothing else.
LEMMA GivenBack ==
  ASSUME IInv, NEW p \in Players, NEW from \in SUBSET Types, NEW b \in BGs
  PROVE  /\ GivesBack(p, from)[b].status = bg[b].status
         /\ GivesBack(p, from)[b].type = bg[b].type
         /\ GivesBack(p, from)[b].invited =
              [team \in Teams |-> bg[b].invited[team] - Cardinality(OfTeam(Gives(p, from, b), team))]
         /\ GivesBack(p, from)[b] = [status |-> bg[b].status, type |-> bg[b].type,
                                     invited |-> GivesBack(p, from)[b].invited]
<1> DEFINE S == {t \in from : Live(b) /\ InvitedTo(p, t, b)}
           k == Cardinality(S)
           r == bg[b]
           team0 == TeamOf[p]
<1>1. r \in [status : Status, type : Types, invited : [Teams -> Nat]] /\ team0 \in Teams
  BY Constants DEF IInv, KnownInv
<1>2. GivesBack(p, from)[b] = [r EXCEPT !.invited[team0] = @ - k]
  BY DEF GivesBack
<1>3. \A t \in Types : InvitedTo(p, t, b) <=> \E n : EntryIn(queue[t], p, b, n)
  BY Asked DEF IInv, QueueInv
<1>4. \A t \in Types : \A n : EntryIn(queue[t], p, b, n) => bg[b].type = t
  <2>1. b # NoBg
    BY Constants
  <2> QED BY <2>1 DEF IInv, EntryInv
<1>5. S = IF Live(b) /\ bg[b].type \in from /\ \E n : EntryIn(queue[bg[b].type], p, b, n)
            THEN {bg[b].type} ELSE {}
  BY <1>3, <1>4
<1>6. k = IF Gives(p, from, b) = {p} THEN 1 ELSE 0
  <2>1. Cardinality({}) = 0 /\ Cardinality({bg[b].type}) = 1
    BY FS_EmptySet, FS_Singleton
  <2> QED BY <1>5, <2>1 DEF Gives
<1>7. Gives(p, from, b) = {p} \/ Gives(p, from, b) = {}
  BY DEF Gives
<1>8. \A team : Cardinality(OfTeam(Gives(p, from, b), team)) =
        IF team = team0 THEN k ELSE 0
  <2> DEFINE G == Gives(p, from, b)
  <2> TAKE team
  <2>2. /\ Cardinality(OfTeam({}, team)) = 0
        /\ Cardinality(OfTeam({p}, team)) = IF TeamOf[p] = team THEN 1 ELSE 0
    BY CountOne
  <2>3. {p} # {} /\ (G = {p} \/ G = {}) /\ k = IF G = {p} THEN 1 ELSE 0
    BY <1>6, <1>7
  <2> HIDE DEF G, k
  <2>4. Cardinality(OfTeam(G, team)) = IF team = team0 THEN k ELSE 0
    BY <2>2, <2>3
  <2> QED BY <2>4 DEF G
<1>9. k \in Nat
  BY <1>6
<1> HIDE DEF r, k, team0
<1> DEFINE q == [r EXCEPT !.invited[team0] = @ - k]
<1>10. /\ q.status = r.status /\ q.type = r.type
       /\ q.invited = [r.invited EXCEPT ![team0] = @ - k]
       /\ q = [status |-> r.status, type |-> r.type, invited |-> q.invited]
  BY <1>1
<1>11. [r.invited EXCEPT ![team0] = @ - k] =
         [team \in Teams |-> r.invited[team] - (IF team = team0 THEN k ELSE 0)]
  <2> DEFINE f == r.invited
  <2>1. f \in [Teams -> Nat]
    BY <1>1
  <2> HIDE DEF f
  <2>2. [f EXCEPT ![team0] = @ - k] = [team \in Teams |-> f[team] - (IF team = team0 THEN k ELSE 0)]
    <3> DEFINE g == [f EXCEPT ![team0] = @ - k]
               h == [team \in Teams |-> f[team] - (IF team = team0 THEN k ELSE 0)]
    <3>1. \A team \in Teams : f[team] \in Nat /\ f[team] - 0 = f[team]
      BY <2>1
    <3>2. \A team \in Teams : g[team] = h[team]
      BY <1>1, <1>9, <2>1, <3>1
    <3>3. g = [team \in Teams |-> g[team]] /\ h = [team \in Teams |-> h[team]]
      BY <2>1
    <3> HIDE DEF g, h
    <3>4. g = h
      BY <3>2, <3>3
    <3> QED BY <3>4 DEF g, h
  <2> QED BY <2>2 DEF f
<1>12. [team \in Teams |-> r.invited[team] - (IF team = team0 THEN k ELSE 0)] =
       [team \in Teams |-> r.invited[team] - Cardinality(OfTeam(Gives(p, from, b), team))]
  BY <1>8
<1> QED BY <1>2, <1>10, <1>11, <1>12 DEF r

-----------------------------------------------------------------------------
(* Leaving queues, and the places that are lost.                           *)

\* What the invariant says, for the proofs of the actions.
LEMMA Facts ==
  ASSUME IInv
  PROVE  /\ KnownInv /\ QueueInv /\ EntryInv /\ SlotInv /\ BelongsInv /\ MembersInv
         /\ FreeInv /\ CountInv
         /\ \A p \in Players : /\ where[p] \in {"world", "far", "off"}
                               /\ bgOf[p] \in BGs \cup {NoBg}
                               /\ \A t \in Types : slot[p][t] \in BGs \cup {NoSlot, Waiting}
         /\ \A b \in BGs : /\ bg[b].type \in Types /\ bg[b].status \in Status
                           /\ bg[b].invited \in [Teams -> Nat]
                           /\ \A p \in Players : members[b][p] \in {"out", "in", "away"}
                           /\ Holders(b) \subseteq Players
BY DEF IInv, KnownInv, Holders

\* What an entry in a queue says.
LEMMA EntryFacts ==
  ASSUME IInv, NEW t \in Types, NEW p, NEW b, NEW n, EntryIn(queue[t], p, b, n)
  PROVE  /\ p \in Players /\ where[p] # "off" /\ b \in BGs \cup {NoBg}
         /\ slot[p][t] = (IF b = NoBg THEN Waiting ELSE b) /\ slot[p][t] # NoSlot
         /\ b # NoBg => /\ b \in BGs /\ Live(b) /\ bg[b].type = t
                        /\ [type |-> t, bg |-> b, time |-> n] \in events[p]
         /\ \A c, m : EntryIn(queue[t], p, c, m) => c = b /\ m = n
<1>1. Well(queue[t], t)
  BY DEF IInv, QueueInv
<1> DEFINE q == queue[t]
<1> HIDE DEF q
<1>2. Well(q, t) /\ EntryIn(q, p, b, n)
  BY <1>1 DEF q
<1>3. /\ p \in Players /\ b \in BGs \cup {NoBg}
      /\ \A c, m : EntryIn(q, p, c, m) => c = b /\ m = n
  BY <1>2, OneEntry
<1>4. /\ where[p] # "off" /\ slot[p][t] = (IF b = NoBg THEN Waiting ELSE b)
      /\ b # NoBg => /\ Live(b) /\ bg[b].type = t
                     /\ [type |-> t, bg |-> b, time |-> n] \in events[p]
  BY <1>3 DEF IInv, EntryInv
<1>5. slot[p][t] # NoSlot
  BY <1>3, <1>4, Constants
<1> QED BY <1>3, <1>4, <1>5 DEF q

\* p leaves the queues of the types in from.
Leaves(p, from) ==
  \A u \in Types : \A q, b, n :
    EntryIn(queue'[u], q, b, n) <=> EntryIn(queue[u], q, b, n) /\ ~(q = p /\ u \in from)

\* Dequeued takes a player out of these queues, and changes no other entry.
LEMMA QueueLeft ==
  ASSUME IInv, NEW p, NEW from \in SUBSET Types,
         queue' = [u \in Types |-> IF u \in from THEN Dequeued(u, p) ELSE queue[u]]
  PROVE  QueueInv' /\ Leaves(p, from)
<1>1. ASSUME NEW u \in Types
      PROVE  /\ Well(queue'[u], u) /\ queue'[u] \in [Lists -> Seq(GroupInfo)]
             /\ \A q, b, n : EntryIn(queue'[u], q, b, n) <=> EntryIn(queue[u], q, b, n) /\ ~(q = p /\ u \in from)
  <2>1. Well(queue[u], u)
    BY DEF IInv, QueueInv
  <2>2. CASE u \in from
    <3>1. queue'[u] = Dequeued(u, p)
      BY <2>2
    <3>2. /\ Well(Dequeued(u, p), u)
          /\ \A q, b, n : EntryIn(Dequeued(u, p), q, b, n) <=> q # p /\ EntryIn(queue[u], q, b, n)
      BY <2>1, DequeuedEntries
    <3>3. Well(queue'[u], u) /\ \A q, b, n : EntryIn(queue'[u], q, b, n) <=> q # p /\ EntryIn(queue[u], q, b, n)
      BY <3>1, <3>2
    <3> QED BY <2>2, <3>3 DEF Well
  <2>3. CASE u \notin from
    <3>1. queue'[u] = queue[u]
      BY <2>3
    <3> QED BY <2>1, <2>3, <3>1 DEF Well
  <2> QED BY <2>2, <2>3
<1>2. QueueInv'
  <2>1. queue' = [u \in Types |-> queue'[u]]
    OBVIOUS
  <2>2. queue' \in [Types -> [Lists -> Seq(GroupInfo)]]
    BY <1>1, <2>1
  <2> QED BY <1>1, <2>2 DEF QueueInv
<1> QED BY <1>1, <1>2 DEF Leaves

\* The same of one queue.
LEMMA QueueLeftOne ==
  ASSUME IInv, NEW p, NEW t \in Types, queue' = [queue EXCEPT ![t] = Dequeued(t, p)]
  PROVE  QueueInv' /\ Leaves(p, {t})
<1>1. queue' = [u \in Types |-> IF u \in {t} THEN Dequeued(u, p) ELSE queue[u]]
  BY DEF IInv, QueueInv
<1>2. {t} \in SUBSET Types
  OBVIOUS
<1> QED BY <1>1, <1>2, QueueLeft

\* Nobody leaves.
LEMMA QueueStays ==
  ASSUME IInv, queue' = queue
  PROVE  QueueInv' /\ \A u \in Types : \A q, b, n : EntryIn(queue'[u], q, b, n) <=> EntryIn(queue[u], q, b, n)
BY DEF IInv, QueueInv

\* A battleground in which the players in L give up their places.
Loses(b, L) ==
  /\ L \subseteq Holders(b)
  /\ bg'[b] = [status |-> bg[b].status, type |-> bg[b].type,
               invited |-> [team \in Teams |->
                              bg[b].invited[team] - Cardinality(OfTeam(L, team))]]
  /\ IF Live(b) THEN Holders(b)' = Holders(b) \ L ELSE L = {}

\* Status and type of all are as they were.
SameBattles ==
  /\ \A b \in BGs : bg'[b].status = bg[b].status /\ bg'[b].type = bg[b].type
  /\ \A b : Live(b)' <=> Live(b)

\* When every battleground loses players so, the counts stay right.
LEMMA LosesKeeps ==
  ASSUME IInv, DOMAIN bg' = BGs, bg' = [b \in DOMAIN bg' |-> bg'[b]],
         \A b \in BGs : \E L : Loses(b, L)
  PROVE  /\ CountInv' /\ SameBattles
         /\ bg' \in [BGs -> [status : Status, type : Types, invited : [Teams -> Nat]]]
<1>1. ASSUME NEW b \in BGs
      PROVE  /\ bg'[b].status = bg[b].status /\ bg'[b].type = bg[b].type
             /\ bg'[b] \in [status : Status, type : Types, invited : [Teams -> Nat]]
             /\ Live(b) => \A team \in Teams :
                  /\ bg'[b].invited[team] = Cardinality(OfTeam(Holders(b)', team))
                  /\ bg'[b].invited[team] <= MaxPlayersPerTeam[bg[b].type]
  <2>1. PICK L : Loses(b, L)
    OBVIOUS
  <2> DEFINE f == [team \in Teams |-> bg[b].invited[team] - Cardinality(OfTeam(L, team))]
  <2>2. /\ L \subseteq Holders(b) /\ bg'[b] = [status |-> bg[b].status, type |-> bg[b].type, invited |-> f]
        /\ IF Live(b) THEN Holders(b)' = Holders(b) \ L ELSE L = {}
    BY <2>1 DEF Loses
  <2>3. \A team \in Teams : f[team] = bg[b].invited[team] - Cardinality(OfTeam(L, team))
    OBVIOUS
  <2>4. f = [team \in Teams |-> f[team]]
    OBVIOUS
  <2> HIDE DEF f
  <2>5. bg'[b].status = bg[b].status /\ bg'[b].type = bg[b].type /\ bg'[b].invited = f
    BY <2>2
  <2>6. ASSUME NEW team \in Teams
        PROVE  /\ f[team] \in Nat
               /\ Live(b) => /\ f[team] = Cardinality(OfTeam(Holders(b)', team))
                             /\ f[team] <= MaxPlayersPerTeam[bg[b].type]
    <3> DEFINE n == bg[b].invited[team]
               H == Holders(b)
               m == f[team]
    <3>1. n \in Nat /\ H \subseteq Players /\ m = n - Cardinality(OfTeam(L, team)) /\ L \subseteq H
      BY <2>2, <2>3, Facts
    <3>2. CASE Live(b)
      <4>1. n = Cardinality(OfTeam(H, team)) /\ n <= MaxPlayersPerTeam[bg[b].type]
        BY <3>2, Facts DEF CountInv
      <4>2. MaxPlayersPerTeam[bg[b].type] \in Nat
        BY Constants, Facts
      <4>3. Holders(b)' = H \ L
        BY <2>2, <3>2
      <4> HIDE DEF n, H, m
      <4>4. m = Cardinality(OfTeam(H \ L, team)) /\ m \in Nat /\ m <= n
        BY <3>1, <4>1, CountLess
      <4>5. m <= MaxPlayersPerTeam[bg[b].type]
        BY <3>1, <4>1, <4>2, <4>4
      <4> QED BY <4>3, <4>4, <4>5 DEF m
    <3>3. CASE ~Live(b)
      <4>1. Cardinality(OfTeam(L, team)) = 0
        BY <2>2, <3>3, CountOne
      <4> QED BY <3>1, <3>3, <4>1
    <3> QED BY <3>2, <3>3
  <2>7. f \in [Teams -> Nat]
    BY <2>4, <2>6
  <2> QED BY <2>2, <2>5, <2>6, <2>7, Facts
<1>2. SameBattles
  BY <1>1 DEF SameBattles, Live
<1>3. CountInv'
  <2> SUFFICES ASSUME NEW b \in BGs, Live(b)', NEW team \in Teams
               PROVE  /\ bg'[b].invited[team] = Cardinality(OfTeam(Holders(b)', team))
                      /\ bg'[b].invited[team] <= MaxPlayersPerTeam[bg'[b].type]
    BY DEF CountInv, OfTeam
  <2>1. Live(b)
    BY <1>2 DEF SameBattles
  <2> QED BY <1>1, <2>1
<1>4. bg' \in [BGs -> [status : Status, type : Types, invited : [Teams -> Nat]]]
  BY <1>1
<1> QED BY <1>2, <1>3, <1>4

-----------------------------------------------------------------------------
(* Leaving a battleground.                                                 *)

\* The players in R leave battleground b.
BattleLeft(b, R) ==
  /\ members' \in [BGs -> [Players -> {"out", "in", "away"}]]
  /\ \A c \in BGs, q \in Players :
       members'[c][q] = IF c = b /\ q \in R THEN "out" ELSE members[c][q]
  /\ slot' \in [Players -> [Types -> BGs \cup {NoSlot, Waiting}]]
  /\ \A q \in Players, t \in Types :
       slot'[q][t] = IF q \in R /\ where[q] = "world" /\ t = bg[b].type THEN NoSlot ELSE slot[q][t]
  /\ DOMAIN bg' = BGs /\ bg' = [c \in DOMAIN bg' |-> bg'[c]]
  /\ \A c \in BGs :
       bg'[c] = [status |-> bg[c].status, type |-> bg[c].type,
                 invited |-> [team \in Teams |-> bg[c].invited[team] -
                    Cardinality(OfTeam(IF c = b THEN R ELSE {}, team))]]
  /\ scheduled' \subseteq Types
  /\ freeQueue' \in [Types -> Seq(BGs)] /\ FreeInv'

\* One that is not in a queue of free places is put at its front.
LEMMA PutInFront ==
  ASSUME NEW b \in BGs, NEW f \in Seq(BGs), b \notin Range(f),
         \A i, j \in DOMAIN f : f[i] = f[j] => i = j
  PROVE  LET g == <<b>> \o f IN
         /\ g \in Seq(BGs)
         /\ \A i, j \in DOMAIN g : g[i] = g[j] => i = j
         /\ \A i \in DOMAIN g : g[i] = b \/ \E j \in DOMAIN f : g[i] = f[j]
<1> DEFINE g == <<b>> \o f
<1>1. g \in Seq(BGs) /\ Len(g) = Len(f) + 1 /\ Len(f) \in Nat
  OBVIOUS
<1>2. DOMAIN g = 1..(Len(f) + 1) /\ DOMAIN f = 1..Len(f)
  BY <1>1
<1>3. \A i \in DOMAIN g : g[i] = IF i = 1 THEN b ELSE f[i - 1]
  BY <1>2
<1>4. \A i \in DOMAIN g : i = 1 \/ i - 1 \in DOMAIN f
  BY <1>1, <1>2
<1> HIDE DEF g
<1>5. \A i \in DOMAIN g : g[i] = b \/ \E j \in DOMAIN f : g[i] = f[j]
  BY <1>3, <1>4
<1>6. \A i, j \in DOMAIN g : g[i] = g[j] => i = j
  <2> TAKE i, j \in DOMAIN g
  <2>1. \A k \in DOMAIN f : f[k] # b
    BY DEF Range
  <2>2. i \in Nat /\ j \in Nat
    BY <1>1, <1>2
  <2> QED BY <1>3, <1>4, <2>1, <2>2
<1> QED BY <1>1, <1>5, <1>6 DEF g

\* What becomes of each slot, battleground and member.
LEMMA LeftFields ==
  ASSUME IInv, NEW b \in BGs, Live(b), NEW leave \in SUBSET Players, RemovePlayerAtLeave(leave, b)
  PROVE  BattleLeft(b, Participants(leave, b))
<1> DEFINE R == Participants(leave, b)
           T == bg[b].type
<1>1. /\ members \in [BGs -> [Players -> {"out", "in", "away"}]]
      /\ slot \in [Players -> [Types -> BGs \cup {NoSlot, Waiting}]]
      /\ bg \in [BGs -> [status : Status, type : Types, invited : [Teams -> Nat]]]
      /\ scheduled \subseteq Types /\ T \in Types
      /\ freeQueue \in [Types -> Seq(BGs)] /\ FreeInv
  BY DEF IInv, KnownInv
<1>2. R \subseteq leave /\ \A q \in leave : q \in R <=> members[b][q] # "out"
  BY DEF Participants
<1>3. /\ members' = [members EXCEPT ![b] = [p \in Players |-> IF p \in leave THEN "out" ELSE @[p]]]
      /\ bg' = [bg EXCEPT ![b].invited = [team \in Teams |-> @[team] - Freed(leave, b, team)]]
      /\ slot' = [p \in Players |-> IF p \in Found(R) THEN [slot[p] EXCEPT ![T] = NoSlot] ELSE slot[p]]
      /\ IF bg[b].status # "wait leave" /\ R # {}
           THEN /\ scheduled' = scheduled \cup {T}
                /\ freeQueue' = IF b \in Range(freeQueue[T]) THEN freeQueue
                                ELSE [freeQueue EXCEPT ![T] = <<b>> \o @]
           ELSE scheduled' = scheduled /\ freeQueue' = freeQueue
  BY DEF RemovePlayerAtLeave
<1>4. \A team : Freed(leave, b, team) = Cardinality(OfTeam(R, team))
  BY DEF Freed, OfTeam
<1>5. /\ members' \in [BGs -> [Players -> {"out", "in", "away"}]]
      /\ \A c \in BGs, q \in Players :
           members'[c][q] = IF c = b /\ q \in R THEN "out" ELSE members[c][q]
  <2> DEFINE m == [p \in Players |-> IF p \in leave THEN "out" ELSE members[b][p]]
  <2>1. members' = [members EXCEPT ![b] = m]
    BY <1>1, <1>3
  <2>2. m \in [Players -> {"out", "in", "away"}]
    BY <1>1
  <2>3. \A q \in Players : m[q] = IF q \in R THEN "out" ELSE members[b][q]
    BY <1>2
  <2> HIDE DEF m, R
  <2> QED BY <1>1, <2>1, <2>2, <2>3
<1>6. /\ slot' \in [Players -> [Types -> BGs \cup {NoSlot, Waiting}]]
      /\ \A q \in Players, t \in Types :
           slot'[q][t] = IF q \in R /\ where[q] = "world" /\ t = T THEN NoSlot ELSE slot[q][t]
  <2>1. \A q : q \in Found(R) <=> q \in R /\ where[q] = "world"
    BY DEF Found
  <2>2. \A q \in Players : slot'[q] = IF q \in Found(R) THEN [slot[q] EXCEPT ![T] = NoSlot] ELSE slot[q]
    BY <1>3
  <2>3. \A q \in Players : [slot[q] EXCEPT ![T] = NoSlot] \in [Types -> BGs \cup {NoSlot, Waiting}]
    BY <1>1
  <2> HIDE DEF R, T
  <2> QED BY <1>1, <1>3, <2>1, <2>2, <2>3
<1>7. /\ DOMAIN bg' = BGs /\ bg' = [c \in DOMAIN bg' |-> bg'[c]]
      /\ \A c \in BGs :
           bg'[c] = [status |-> bg[c].status, type |-> bg[c].type,
                     invited |-> [team \in Teams |-> bg[c].invited[team] -
                        Cardinality(OfTeam(IF c = b THEN R ELSE {}, team))]]
  <2>1. DOMAIN bg' = BGs /\ bg' = [c \in DOMAIN bg' |-> bg'[c]]
    BY <1>1, <1>3
  <2>2. ASSUME NEW c \in BGs
        PROVE  bg'[c] = [status |-> bg[c].status, type |-> bg[c].type,
                     invited |-> [team \in Teams |-> bg[c].invited[team] -
                        Cardinality(OfTeam(IF c = b THEN R ELSE {}, team))]]
    <3> DEFINE r == bg[c]
    <3>1. r \in [status : Status, type : Types, invited : [Teams -> Nat]]
      BY <1>1
    <3>2. CASE c = b
      <4> DEFINE f == [team \in Teams |-> bg[b].invited[team] - Freed(leave, b, team)]
      <4>1. bg'[b] = [bg[b] EXCEPT !.invited = f]
        BY <1>1, <1>3
      <4>2. f = [team \in Teams |-> bg[c].invited[team] - Cardinality(OfTeam(IF c = b THEN R ELSE {}, team))]
        BY <1>4, <3>2
      <4> HIDE DEF f
      <4>3. [bg[b] EXCEPT !.invited = f] = [status |-> bg[c].status, type |-> bg[c].type, invited |-> f]
        BY <3>1, <3>2
      <4> QED BY <3>2, <4>1, <4>2, <4>3
    <3>3. CASE c # b
      <4>1. bg'[c] = r
        BY <1>1, <1>3, <3>3
      <4>2. \A team \in Teams : r.invited[team] - Cardinality(OfTeam({}, team)) = r.invited[team]
        <5> DEFINE f == r.invited
        <5>1. \A team \in Teams : f[team] \in Nat
          BY <3>1
        <5>2. \A team : Cardinality(OfTeam({}, team)) = 0
          BY CountOne
        <5> HIDE DEF f
        <5>3. \A team \in Teams : f[team] - Cardinality(OfTeam({}, team)) = f[team]
          BY <5>1, <5>2
        <5> QED BY <5>3 DEF f
      <4>3. r.invited = [team \in Teams |-> r.invited[team] - Cardinality(OfTeam({}, team))]
        BY <3>1, <4>2
      <4>4. r.invited = [team \in Teams |-> r.invited[team] - Cardinality(OfTeam(IF c = b THEN R ELSE {}, team))]
        BY <3>3, <4>3
      <4>5. r = [status |-> r.status, type |-> r.type, invited |-> r.invited]
        BY <3>1
      <4> QED BY <4>1, <4>4, <4>5
    <3> QED BY <3>2, <3>3
  <2> QED BY <2>1, <2>2
<1>8. scheduled' \subseteq Types
  BY <1>1, <1>3
<1>9. freeQueue' \in [Types -> Seq(BGs)] /\ FreeInv'
  <2>1. \A c \in BGs : bg'[c].status = bg[c].status /\ bg'[c].type = bg[c].type
    BY <1>7
  <2>2. \A t \in Types : /\ freeQueue[t] \in Seq(BGs)
                         /\ \A i, j \in DOMAIN freeQueue[t] : freeQueue[t][i] = freeQueue[t][j] => i = j
                         /\ \A i \in DOMAIN freeQueue[t] : /\ freeQueue[t][i] \in BGs
                                                           /\ bg[freeQueue[t][i]].status = "running"
                                                           /\ bg[freeQueue[t][i]].type = t
    BY <1>1 DEF FreeInv
  <2>3. CASE freeQueue' = freeQueue
    BY <1>1, <2>1, <2>2, <2>3 DEF FreeInv
  <2>4. CASE /\ bg[b].status # "wait leave" /\ b \notin Range(freeQueue[T])
             /\ freeQueue' = [freeQueue EXCEPT ![T] = <<b>> \o @]
    <3> DEFINE f == freeQueue[T]
               g == <<b>> \o f
    <3>1. bg[b].status = "running"
      BY <1>1, <2>4 DEF Live, Status
    <3>2. f \in Seq(BGs) /\ b \notin Range(f) /\ \A i, j \in DOMAIN f : f[i] = f[j] => i = j
      BY <1>1, <2>2, <2>4
    <3> HIDE DEF f
    <3>3. /\ g \in Seq(BGs)
          /\ \A i, j \in DOMAIN g : g[i] = g[j] => i = j
          /\ \A i \in DOMAIN g : g[i] = b \/ \E j \in DOMAIN f : g[i] = f[j]
      BY <3>2, PutInFront
    <3>4. freeQueue' = [freeQueue EXCEPT ![T] = g]
      BY <2>4 DEF f
    <3> HIDE DEF g, T
    <3>5. freeQueue' \in [Types -> Seq(BGs)]
      BY <1>1, <3>3, <3>4
    <3>6. ASSUME NEW t \in Types
          PROVE  /\ \A i, j \in DOMAIN freeQueue'[t] : freeQueue'[t][i] = freeQueue'[t][j] => i = j
                 /\ \A i \in DOMAIN freeQueue'[t] : /\ bg'[freeQueue'[t][i]].status = "running"
                                                    /\ bg'[freeQueue'[t][i]].type = t
      <4>1. CASE t = T
        <5>1. freeQueue'[t] = g
          BY <1>1, <3>4, <4>1
        <5>2. bg[b].type = t
          BY <4>1 DEF T
        <5>3. \A j \in DOMAIN f : f[j] \in BGs /\ bg[f[j]].status = "running" /\ bg[f[j]].type = t
          BY <2>2, <4>1 DEF f
        <5>4. \A i \in DOMAIN g : g[i] \in BGs /\ bg[g[i]].status = "running" /\ bg[g[i]].type = t
          BY <3>1, <3>3, <5>2, <5>3
        <5> QED BY <2>1, <3>3, <5>1, <5>4
      <4>2. CASE t # T
        <5>1. freeQueue'[t] = freeQueue[t]
          BY <1>1, <3>4, <4>2
        <5> QED BY <2>1, <2>2, <5>1
      <4> QED BY <4>1, <4>2
    <3> QED BY <3>5, <3>6 DEF FreeInv
  <2> QED BY <1>3, <2>3, <2>4
<1> HIDE DEF R
<1> QED BY <1>5, <1>6, <1>7, <1>8, <1>9 DEF BattleLeft, R

-----------------------------------------------------------------------------
(* Updates that are scheduled, and battles that end.                       *)

\* Battlegrounds stay in the queues of free places, and battlegrounds are as
\* they were.
LEMMA FreeStays ==
  ASSUME IInv, UNCHANGED freeQueue, SameBattles
  PROVE  freeQueue' \in [Types -> Seq(BGs)] /\ FreeInv'
<1>1. \A t \in Types : \A i \in DOMAIN freeQueue[t] : freeQueue[t][i] \in BGs
  BY DEF IInv
<1>2. \A b \in BGs : bg'[b].status = bg[b].status /\ bg'[b].type = bg[b].type
  BY DEF SameBattles
<1> QED BY <1>1, <1>2 DEF IInv, FreeInv

\* A sequence of which some are kept has each of them once if it had.
LEMMA KeptOnce ==
  ASSUME NEW f \in Seq(BGs), \A i, j \in DOMAIN f : f[i] = f[j] => i = j, NEW keep
  PROVE  /\ Kept(f, keep) \in Seq(BGs)
         /\ \A i, j \in DOMAIN Kept(f, keep) : Kept(f, keep)[i] = Kept(f, keep)[j] => i = j
         /\ \A i \in DOMAIN Kept(f, keep) : /\ Kept(f, keep)[i] \in keep
                                            /\ \E j \in DOMAIN f : Kept(f, keep)[i] = f[j]
<1> DEFINE k == Kept(f, keep)
<1>1. k \in Seq(BGs) /\ \E at : Placement(k, f, keep, at, Len(f))
  BY KeptPlacement
<1> HIDE DEF k
<1>2. PICK at : Placement(k, f, keep, at, Len(f))
  BY <1>1
<1>3. DOMAIN k = 1..Len(k) /\ DOMAIN f = 1..Len(f)
  BY <1>1
<1>4. /\ at \in [DOMAIN k -> DOMAIN f]
      /\ \A j \in DOMAIN k : k[j] = f[at[j]] /\ k[j] \in keep
      /\ \A i, j \in DOMAIN k : at[i] = at[j] => i = j
  BY <1>2, <1>3 DEF Placement
<1>5. \A i, j \in DOMAIN k : k[i] = k[j] => i = j
  BY <1>4
<1>6. \A i \in DOMAIN k : k[i] \in keep /\ \E j \in DOMAIN f : k[i] = f[j]
  BY <1>4
<1> QED BY <1>1, <1>5, <1>6 DEF k

\* A battleground is taken out of the queues of free places.
LEMMA FreeTakenOut ==
  ASSUME IInv, NEW b \in BGs, OutOfFreeQueue(b),
         \A c \in BGs : c # b => bg'[c].status = bg[c].status /\ bg'[c].type = bg[c].type
  PROVE  freeQueue' \in [Types -> Seq(BGs)] /\ FreeInv'
<1>1. freeQueue' = [t \in Types |-> Kept(freeQueue[t], BGs \ {b})]
  BY DEF OutOfFreeQueue
<1>2. ASSUME NEW t \in Types
      PROVE  /\ freeQueue'[t] \in Seq(BGs)
             /\ \A i, j \in DOMAIN freeQueue'[t] : freeQueue'[t][i] = freeQueue'[t][j] => i = j
             /\ \A i \in DOMAIN freeQueue'[t] : /\ bg'[freeQueue'[t][i]].status = "running"
                                                /\ bg'[freeQueue'[t][i]].type = t
  <2> DEFINE f == freeQueue[t]
             k == Kept(f, BGs \ {b})
  <2>1. /\ f \in Seq(BGs) /\ \A i, j \in DOMAIN f : f[i] = f[j] => i = j
        /\ \A i \in DOMAIN f : bg[f[i]].status = "running" /\ bg[f[i]].type = t
    BY DEF IInv, FreeInv
  <2>2. freeQueue'[t] = k
    BY <1>1
  <2> HIDE DEF f
  <2>3. /\ k \in Seq(BGs)
        /\ \A i, j \in DOMAIN k : k[i] = k[j] => i = j
        /\ \A i \in DOMAIN k : k[i] \in BGs \ {b} /\ \E j \in DOMAIN f : k[i] = f[j]
    BY <2>1, KeptOnce
  <2> HIDE DEF k
  <2>4. \A i \in DOMAIN k : k[i] \in BGs \ {b} /\ bg[k[i]].status = "running" /\ bg[k[i]].type = t
    BY <2>1, <2>3
  <2> QED BY <2>2, <2>3, <2>4
<1> QED BY <1>1, <1>2 DEF FreeInv

\* What is scheduled is of no account.
LEMMA ScheduleOnly ==
  ASSUME IInv, scheduled' \subseteq Types,
         UNCHANGED <<where, slot, bgOf, events, queue, bg, members, offline, freeQueue>>
  PROVE  IInv'
<1>1. KnownInv' /\ QueueInv'
  BY DEF IInv, KnownInv, QueueInv
<1>2. EntryInv' /\ SlotInv' /\ BelongsInv' /\ MembersInv' /\ FreeInv'
  BY DEF IInv, EntryInv, SlotInv, BelongsInv, MembersInv, FreeInv, Live, InSlot, NoEntry
<1>3. CountInv'
  <2>1. \A b : (Live(b)' <=> Live(b)) /\ Holders(b)' = Holders(b)
    BY DEF Live, Holders, Holds
  <2> QED BY <2>1 DEF IInv, CountInv, OfTeam
<1> QED BY <1>1, <1>2, <1>3 DEF IInv

\* A group in which somebody may not join changes no queue.
LEMMA RefusedKeeps ==
  ASSUME IInv, NEW e \in UNION Entries, JoinRefused(e[1], e[2])
  PROVE  IInv'
<1>1. /\ UNCHANGED <<where, slot, bgOf, events, queue, bg, members, offline, freeQueue>>
      /\ scheduled' \subseteq Types
  BY Constants DEF JoinRefused, IInv, KnownInv
<1> QED BY <1>1, ScheduleOnly

\* The end of a battle leaves everybody where he is.
LEMMA EndKeeps ==
  ASSUME IInv, NEW b \in BGs, EndBattle(b)
  PROVE  IInv'
<1>1. /\ UNCHANGED <<where, slot, bgOf, events, queue, scheduled, members, offline>>
      /\ bg[b].status = "running" /\ bg' = [bg EXCEPT ![b].status = "wait leave"]
      /\ OutOfFreeQueue(b)
  BY DEF EndBattle
<1>2. bg \in [BGs -> [status : Status, type : Types, invited : [Teams -> Nat]]]
  BY DEF IInv, KnownInv
<1>3. bg' \in [BGs -> [status : Status, type : Types, invited : [Teams -> Nat]]]
  <2>1. bg' = [bg EXCEPT ![b] = [bg[b] EXCEPT !.status = "wait leave"]]
    BY <1>1
  <2>2. "wait leave" \in Status
    BY DEF Status
  <2> QED BY <1>2, <2>1, <2>2
<1>4. ASSUME NEW c \in BGs
      PROVE  /\ bg'[c].type = bg[c].type /\ bg'[c].invited = bg[c].invited
             /\ bg'[c].status = IF c = b THEN "wait leave" ELSE bg[c].status
  <2>1. bg'[c] = IF c = b THEN [bg[c] EXCEPT !.status = "wait leave"] ELSE bg[c]
    BY <1>1, <1>2
  <2> QED BY <1>2, <2>1
<1>5. \A c : Live(c)' <=> Live(c)
  <2>1. \A c \in BGs : bg'[c].status = "none" <=> bg[c].status = "none"
    <3>1. \A c \in BGs : bg'[c].status = IF c = b THEN "wait leave" ELSE bg[c].status
      BY <1>4
    <3>2. bg[b].status = "running"
      BY <1>1
    <3>3. ASSUME NEW c \in BGs
          PROVE  bg'[c].status = "none" <=> bg[c].status = "none"
      <4>1. CASE c = b
        BY <3>1, <3>2, <4>1
      <4>2. CASE c # b
        BY <3>1, <4>2
      <4> QED BY <4>1, <4>2
    <3> QED BY <3>3
  <2> QED BY <2>1 DEF Live
<1>6. KnownInv' /\ QueueInv'
  BY <1>1, <1>3 DEF IInv, KnownInv, QueueInv
<1>7. freeQueue' \in [Types -> Seq(BGs)] /\ FreeInv'
  BY <1>1, <1>4, FreeTakenOut
<1>8. \A c : Live(c) => bg'[c].type = bg[c].type
  BY <1>4 DEF Live
<1>a. /\ where' = where /\ slot' = slot /\ bgOf' = bgOf /\ events' = events
      /\ queue' = queue /\ members' = members
  BY <1>1
<1>9. EntryInv' /\ MembersInv'
  <2>1. EntryInv'
    BY ONLY <1>a, <1>5, <1>8, IInv DEF IInv, EntryInv
  <2>2. MembersInv'
    BY ONLY <1>a, <1>5, IInv DEF IInv, MembersInv
  <2> QED BY <2>1, <2>2
<1>10. SlotInv' /\ BelongsInv'
  <2>1. SlotInv'
    <3>1. \A q, u : NoEntry(q, u)' <=> NoEntry(q, u)
      BY ONLY <1>a DEF NoEntry
    <3>2. \A q, u : InSlot(q, u)' <=> InSlot(q, u)
      BY ONLY <1>a, <1>5, <1>8 DEF InSlot
    <3> QED BY ONLY <1>a, <3>1, <3>2, IInv DEF IInv, SlotInv
  <2>2. BelongsInv'
    <3>1. \A q, u : NoEntry(q, u)' <=> NoEntry(q, u)
      BY ONLY <1>a DEF NoEntry
    <3>2. BelongsInv
      BY DEF IInv
    <3> QED BY ONLY <1>a, <1>5, <1>8, <3>1, <3>2 DEF BelongsInv
  <2> QED BY <2>1, <2>2
<1>11. CountInv'
  <2>1. \A c : Live(c) => Holders(c)' = Holders(c)
    BY <1>1, <1>8 DEF Holders, Holds
  <2>2. \A c \in BGs : bg'[c].type = bg[c].type /\ bg'[c].invited = bg[c].invited
    BY <1>4
  <2> QED BY <1>5, <2>1, <2>2 DEF IInv, CountInv, OfTeam
<1> QED BY <1>6, <1>7, <1>9, <1>10, <1>11 DEF IInv

-----------------------------------------------------------------------------
(* Joining a queue.                                                        *)

\* Who joins waits from then on.
LEMMA JoinKeeps ==
  ASSUME IInv, NEW e \in UNION Entries, HandleBattlemasterJoinOpcode(e[1], e[2])
  PROVE  IInv'
<1> DEFINE who == e[1]
           t == e[2]
           isPremade == Cardinality(who) > 1 /\ Cardinality(who) >= MinPlayersPerTeam[t]
           team == TeamOf[CHOOSE p \in who : TRUE]
           g == [players |-> who, team |-> team, invited |-> NoBg, time |-> 0]
           l == <<IF isPremade THEN "premade" ELSE "normal", team>>
           old == queue[t]
           new == [old EXCEPT ![l] = Append(@, g)]
<1>1. /\ who \subseteq Players /\ t \in Types /\ who # {}
      /\ Cardinality(who) <= MaxPlayersPerTeam[t]
      /\ \A p, q \in who : TeamOf[p] = TeamOf[q]
  BY Constants
<1>2. /\ \A p \in who : where[p] # "off" /\ slot[p][t] = NoSlot
      /\ scheduled' = scheduled \cup {t}
      /\ UNCHANGED <<where, bgOf, events, bg, members, offline, freeQueue>>
  BY DEF HandleBattlemasterJoinOpcode, MayQueue
<1>3. slot' = [p \in Players |-> IF p \in who THEN [slot[p] EXCEPT ![t] = Waiting] ELSE slot[p]]
  BY DEF HandleBattlemasterJoinOpcode
<1>4. queue' = [queue EXCEPT ![t] = new]
  <2>1. queue' = [queue EXCEPT ![t][l] = Append(@, g)]
    BY DEF HandleBattlemasterJoinOpcode
  <2> HIDE DEF l, g
  <2> QED BY <2>1
<1>5. team \in Teams /\ l \in Lists /\ l[2] = team /\ \A p \in who : TeamOf[p] = team
  <2>1. (CHOOSE p \in who : TRUE) \in who
    BY <1>1
  <2>2. team \in Teams /\ \A p \in who : TeamOf[p] = team
    <3> DEFINE c == CHOOSE p \in who : TRUE
    <3>1. c \in who
      BY <2>1
    <3> HIDE DEF c, who
    <3> QED BY <1>1, <3>1, Constants DEF c
  <2> HIDE DEF team, isPremade
  <2> QED BY <2>2 DEF Lists, Kinds
<1>6. g \in GroupInfo /\ g.team = team /\ g.players = who /\ g.invited = NoBg /\ g.time = 0
  <2> HIDE DEF team, who
  <2> QED BY <1>1, <1>5 DEF GroupInfo
<1>7. \A p \in who : slot[p][t] = NoSlot /\ NoSlot # Waiting /\ NoSlot \notin BGs
  BY <1>2, Constants
<1> HIDE DEF who, t, g, l, team, old
<1>8. \A p \in who : \A b, n : ~EntryIn(old, p, b, n)
  <2> TAKE p \in who
  <2> TAKE b, n
  <2>1. ASSUME EntryIn(queue[t], p, b, n) PROVE FALSE
    <3>1. slot[p][t] # NoSlot
      BY <1>1, <2>1, EntryFacts
    <3> QED BY <1>7, <3>1
  <2> QED BY <2>1 DEF old
<1>9. Well(old, t)
  BY <1>1 DEF IInv, QueueInv, old
<1>10. /\ Well(new, t)
       /\ \A q, b, n : EntryIn(new, q, b, n) <=> EntryIn(old, q, b, n) \/ (q \in who /\ b = NoBg /\ n = 0)
  <2>1. /\ g.team = l[2] /\ \A p \in g.players : TeamOf[p] = l[2]
        /\ Cardinality(g.players) <= MaxPlayersPerTeam[t]
        /\ \A p \in g.players : \A b, n : ~EntryIn(old, p, b, n)
    BY <1>1, <1>5, <1>6, <1>8
  <2>2. /\ Well(new, t)
        /\ \A q, b, n : EntryIn(new, q, b, n) <=>
             EntryIn(old, q, b, n) \/ (q \in g.players /\ b = g.invited /\ n = g.time)
    BY <1>1, <1>5, <1>6, <1>9, <2>1, JoinedEntries
  <2> HIDE DEF new
  <2> QED BY <1>6, <2>2
<1> HIDE DEF new
<1>11. /\ QueueInv'
       /\ \A u \in Types : \A q, b, n : EntryIn(queue'[u], q, b, n) <=>
            EntryIn(queue[u], q, b, n) \/ (u = t /\ q \in who /\ b = NoBg /\ n = 0)
  <2>1. \A u \in Types : queue'[u] = IF u = t THEN new ELSE queue[u]
    BY <1>4 DEF IInv, QueueInv
  <2>2. QueueInv'
    <3>1. new \in [Lists -> Seq(GroupInfo)]
      BY <1>10 DEF Well
    <3>2. queue' \in [Types -> [Lists -> Seq(GroupInfo)]]
      BY <1>4, <3>1 DEF IInv, QueueInv
    <3>3. \A u \in Types : Well(queue'[u], u)
      BY <1>10, <2>1 DEF IInv, QueueInv
    <3> QED BY <3>2, <3>3 DEF QueueInv
  <2> QED BY <1>10, <2>1, <2>2 DEF old
<1>12. /\ slot' \in [Players -> [Types -> BGs \cup {NoSlot, Waiting}]]
       /\ \A q \in Players, u \in Types : slot'[q][u] = IF u = t /\ q \in who THEN Waiting ELSE slot[q][u]
  <2>1. slot \in [Players -> [Types -> BGs \cup {NoSlot, Waiting}]]
    BY DEF IInv, KnownInv
  <2>2. \A q \in Players : slot'[q] = IF q \in who THEN [slot[q] EXCEPT ![t] = Waiting] ELSE slot[q]
    BY <1>3
  <2> QED BY <1>1, <1>3, <2>1, <2>2
<1>13. /\ where' = where /\ bgOf' = bgOf /\ events' = events /\ bg' = bg /\ members' = members
       /\ \A b : Live(b)' <=> Live(b)
  BY <1>2 DEF Live
<1>14. KnownInv'
  BY <1>1, <1>2, <1>12 DEF IInv, KnownInv
<1>15. EntryInv'
  <2> SUFFICES ASSUME NEW u \in Types, NEW p \in Players, NEW b, NEW n, EntryIn(queue'[u], p, b, n)
               PROVE  /\ where'[p] # "off"
                      /\ slot'[p][u] = IF b = NoBg THEN Waiting ELSE b
                      /\ b # NoBg => /\ Live(b)' /\ bg'[b].type = u
                                     /\ [type |-> u, bg |-> b, time |-> n] \in events'[p]
    BY DEF EntryInv
  <2>1. CASE u = t /\ p \in who
    <3>1. b = NoBg
      BY <1>8, <1>11, <2>1 DEF old
    <3> QED BY <1>2, <1>12, <1>13, <2>1, <3>1
  <2>2. CASE ~(u = t /\ p \in who)
    <3>1. EntryIn(queue[u], p, b, n)
      BY <1>11, <2>2
    <3>2. slot'[p][u] = slot[p][u]
      BY <1>12, <2>2
    <3> QED BY <1>13, <3>1, <3>2 DEF IInv, EntryInv
  <2> QED BY <2>1, <2>2
<1>16. /\ \A q \in Players, u \in Types : NoEntry(q, u)' => NoEntry(q, u) /\ ~(u = t /\ q \in who)
       /\ \A q \in Players, u \in Types : NoEntry(q, u) /\ ~(u = t /\ q \in who) => NoEntry(q, u)'
  BY <1>11 DEF NoEntry
<1>17. SlotInv'
  BY <1>12, <1>13, <1>16 DEF IInv, SlotInv, InSlot
<1>18. BelongsInv'
  <2> SUFFICES ASSUME NEW p \in Players, NEW c \in BGs, NEW u \in Types,
                      where'[p] # "off", bgOf'[p] = c, Live(c)', bg'[c].type = u
               PROVE  /\ slot'[p][u] = c
                      /\ NoEntry(p, u)'
                      /\ where'[p] = "world" => members'[c][p] # "out"
    BY DEF BelongsInv
  <2>1. where[p] # "off" /\ bgOf[p] = c /\ Live(c) /\ bg[c].type = u
    BY <1>13
  <2>2. slot[p][u] = c /\ NoEntry(p, u) /\ (where[p] = "world" => members[c][p] # "out")
    BY <2>1 DEF IInv, BelongsInv
  <2>3. ~(u = t /\ p \in who)
    BY <1>7, <2>2
  <2>4. slot'[p][u] = c /\ NoEntry(p, u)'
    BY <1>12, <1>16, <2>2, <2>3
  <2> QED BY <1>13, <2>2, <2>4
<1>19. MembersInv'
  BY <1>13 DEF IInv, MembersInv
<1>20. FreeInv' /\ freeQueue' \in [Types -> Seq(BGs)]
  BY <1>2, <1>13 DEF IInv, FreeInv
<1>21. CountInv'
  <2>1. ASSUME NEW b \in BGs, Live(b) PROVE Holders(b)' = Holders(b)
    <3>1. b # NoBg /\ bg[b].type \in Types
      BY Constants, Facts
    <3>2. \A q, n : EntryIn(queue'[bg[b].type], q, b, n) <=> EntryIn(queue[bg[b].type], q, b, n)
      BY <1>11, <3>1
    <3> QED BY <1>13, <3>2 DEF Holders, Holds
  <2> QED BY <1>13, <2>1 DEF IInv, CountInv, OfTeam
<1> QED BY <1>11, <1>14, <1>15, <1>17, <1>18, <1>19, <1>20, <1>21 DEF IInv

-----------------------------------------------------------------------------
(* Arriving, and deleting a battleground.                                  *)

\* Who belongs to a running battleground and arrives there is a member.
LEMMA ArrivalKeeps ==
  ASSUME IInv, NEW p \in Players, HandleMoveWorldportAck(p)
  PROVE  IInv'
<1>1. /\ where[p] = "far" /\ where' = [where EXCEPT ![p] = "world"]
      /\ members' = IF Arrives(p) THEN [members EXCEPT ![bgOf[p]][p] = "in"] ELSE members
      /\ UNCHANGED <<slot, bgOf, events, queue, scheduled, bg, offline, freeQueue>>
  BY DEF HandleMoveWorldportAck
<1>2. /\ where \in [Players -> {"world", "far", "off"}]
      /\ members \in [BGs -> [Players -> {"out", "in", "away"}]]
      /\ bg \in [BGs -> [status : Status, type : Types, invited : [Teams -> Nat]]]
  BY DEF IInv, KnownInv
<1>3. Arrives(p) <=> Live(bgOf[p])
  <2>1. ASSUME Live(bgOf[p]) PROVE \E t \in Types : slot[p][t] = bgOf[p]
    <3> DEFINE b == bgOf[p]
    <3>1. b \in BGs /\ bg[b].type \in Types /\ where[p] # "off"
      BY <1>1, <2>1, Facts DEF Live
    <3>2. slot[p][bg[b].type] = b
      BY <2>1, <3>1 DEF IInv, BelongsInv
    <3> QED BY <3>1, <3>2
  <2> QED BY <1>1, <2>1 DEF Arrives
<1>4. \A c \in BGs : members[c][p] = "out"
  BY <1>1, <1>2 DEF IInv, MembersInv
<1>5. /\ members' \in [BGs -> [Players -> {"out", "in", "away"}]]
      /\ \A c \in BGs, q \in Players :
           members'[c][q] = IF q = p /\ Live(c) /\ c = bgOf[p] THEN "in" ELSE members[c][q]
  <2>1. CASE Live(bgOf[p])
    <3>1. bgOf[p] \in BGs /\ members' = [members EXCEPT ![bgOf[p]][p] = "in"]
      BY <1>1, <1>3, <2>1 DEF Live
    <3> QED BY <1>2, <2>1, <3>1
  <2>2. CASE ~Live(bgOf[p])
    <3>1. members' = members
      BY <1>1, <1>3, <2>2
    <3> QED BY <1>2, <2>2, <3>1
  <2> QED BY <2>1, <2>2
<1>6. /\ slot' = slot /\ bgOf' = bgOf /\ events' = events /\ queue' = queue /\ bg' = bg
      /\ \A b : Live(b)' <=> Live(b)
  BY <1>1 DEF Live
<1>7. \A q \in Players : where'[q] = IF q = p THEN "world" ELSE where[q]
  BY <1>1, <1>2
<1>8. KnownInv' /\ QueueInv'
  <2>1. where' \in [Players -> {"world", "far", "off"}]
    BY <1>1, <1>2
  <2> QED BY <1>1, <1>5, <2>1 DEF IInv, KnownInv, QueueInv
<1>9. EntryInv'
  <2>1. \A q \in Players : where'[q] = "off" <=> where[q] = "off"
    BY <1>1, <1>7
  <2> QED BY ONLY <1>6, <2>1, IInv DEF IInv, EntryInv
<1>10. \A q, u : NoEntry(q, u)' <=> NoEntry(q, u)
  BY <1>6 DEF NoEntry
<1>11. SlotInv'
  <2>1. \A q \in Players : \A u : InSlot(q, u)' <=> InSlot(q, u)
    BY <1>1, <1>6, <1>7 DEF InSlot
  <2> QED BY <1>6, <1>10, <2>1 DEF IInv, SlotInv
<1>12. BelongsInv'
  <2> SUFFICES ASSUME NEW q \in Players, NEW c \in BGs, NEW u \in Types,
                      where'[q] # "off", bgOf'[q] = c, Live(c)', bg'[c].type = u
               PROVE  /\ slot'[q][u] = c
                      /\ NoEntry(q, u)'
                      /\ where'[q] = "world" => members'[c][q] # "out"
    BY DEF BelongsInv
  <2>1. where[q] # "off" /\ bgOf[q] = c /\ Live(c) /\ bg[c].type = u
    BY <1>1, <1>6, <1>7
  <2>2. slot[q][u] = c /\ NoEntry(q, u) /\ (where[q] = "world" => members[c][q] # "out")
    BY <2>1 DEF IInv, BelongsInv
  <2>3. where'[q] = "world" => members'[c][q] # "out"
    BY <1>5, <1>7, <2>1, <2>2
  <2> QED BY <1>6, <1>10, <2>2, <2>3
<1>13. MembersInv'
  BY <1>5, <1>6, <1>7 DEF IInv, MembersInv
<1>14. FreeInv' /\ freeQueue' \in [Types -> Seq(BGs)]
  BY <1>1, <1>6 DEF IInv, FreeInv
<1>15. CountInv'
  <2>1. ASSUME NEW b \in BGs, Live(b) PROVE Holders(b)' = Holders(b)
    <3>1. ASSUME NEW q \in Players PROVE Holds(q, b)' <=> Holds(q, b)
      <4>1. CASE q # p
        <5>1. where'[q] = where[q] /\ members'[b][q] = members[b][q]
          BY <1>5, <1>7, <4>1
        <5> QED BY <1>6, <5>1 DEF Holds
      <4>2. CASE q = p
        <5>1. /\ where[q] = "far" /\ where'[q] = "world" /\ members[b][q] = "out"
              /\ members'[b][q] = IF b = bgOf[q] THEN "in" ELSE "out"
          BY <1>1, <1>4, <1>5, <1>7, <2>1, <4>2
        <5>2. members'[b][q] # "out" <=> bgOf[q] = b
          BY <5>1
        <5>3. where'[q] # "far"
          BY <5>1
        <5> QED BY <1>6, <5>1, <5>2, <5>3 DEF Holds
      <4> QED BY <4>1, <4>2
    <3> QED BY <3>1 DEF Holders
  <2> QED BY <1>6, <2>1 DEF IInv, CountInv, OfTeam
<1> QED BY <1>8, <1>9, <1>11, <1>12, <1>13, <1>14, <1>15 DEF IInv

\* A battleground is deleted when nobody belongs to it.
LEMMA DeleteKeeps ==
  ASSUME IInv, NEW b \in BGs, DeleteBattle(b)
  PROVE  IInv'
<1>1. /\ Live(b) /\ \A team \in Teams : bg[b].invited[team] = 0
      /\ bg' = [bg EXCEPT ![b] = NoBattle]
      /\ OutOfFreeQueue(b)
      /\ offline' = [offline EXCEPT ![b] = <<>>]
      /\ UNCHANGED <<where, slot, bgOf, events, queue, scheduled, members>>
  BY DEF DeleteBattle
<1>2. /\ bg \in [BGs -> [status : Status, type : Types, invited : [Teams -> Nat]]]
      /\ offline \in [BGs -> Seq(Players)]
  BY DEF IInv, KnownInv
<1>3. NoBattle \in [status : Status, type : Types, invited : [Teams -> Nat]] /\ NoBattle.status = "none"
  <2>1. (CHOOSE t \in Types : TRUE) \in Types
    BY Constants
  <2>2. "none" \in Status
    BY DEF Status
  <2> QED BY <2>1, <2>2 DEF NoBattle
<1>4. \A c \in BGs : bg'[c] = IF c = b THEN NoBattle ELSE bg[c]
  BY <1>1, <1>2
<1>5. \A c : Live(c)' <=> Live(c) /\ c # b
  BY <1>3, <1>4 DEF Live
<1>6. \A p \in Players : ~Holds(p, b)
  <2> TAKE p \in Players
  <2>1. ASSUME Holds(p, b) PROVE FALSE
    <3> DEFINE team == TeamOf[p]
               S == OfTeam(Holders(b), team)
    <3>1. team \in Teams
      BY Constants
    <3>2. Cardinality(S) = 0
      BY <1>1, <3>1 DEF IInv, CountInv
    <3>3. IsFiniteSet(S)
      BY Facts, FinitePlayers
    <3>4. p \in S
      BY <2>1 DEF OfTeam, Holders
    <3> HIDE DEF S
    <3> QED BY <3>2, <3>3, <3>4, FS_EmptySet
  <2> QED BY <2>1
<1>7. ASSUME NEW t \in Types, NEW p, NEW n, EntryIn(queue[t], p, b, n)
      PROVE  FALSE
  <2>1. p \in Players /\ bg[b].type = t
    <3>1. b # NoBg
      BY Constants
    <3> QED BY <1>7, <3>1, EntryFacts
  <2> QED BY <1>6, <1>7, <2>1 DEF Holds
<1>8. /\ where' = where /\ slot' = slot /\ bgOf' = bgOf /\ events' = events
      /\ queue' = queue /\ members' = members
  BY <1>1
<1>9. KnownInv' /\ QueueInv'
  <2>1. bg' \in [BGs -> [status : Status, type : Types, invited : [Teams -> Nat]]]
    BY <1>1, <1>2, <1>3
  <2>2. offline' \in [BGs -> Seq(Players)]
    BY <1>1, <1>2
  <2> QED BY <1>1, <2>1, <2>2 DEF IInv, KnownInv, QueueInv
<1>10. EntryInv'
  <2> SUFFICES ASSUME NEW u \in Types, NEW p \in Players, NEW c, NEW n, EntryIn(queue'[u], p, c, n)
               PROVE  /\ where'[p] # "off"
                      /\ slot'[p][u] = IF c = NoBg THEN Waiting ELSE c
                      /\ c # NoBg => /\ Live(c)' /\ bg'[c].type = u
                                     /\ [type |-> u, bg |-> c, time |-> n] \in events'[p]
    BY DEF EntryInv
  <2>1. EntryIn(queue[u], p, c, n)
    BY <1>8
  <2>2. c # b
    BY <1>7, <2>1
  <2>3. /\ where[p] # "off" /\ slot[p][u] = (IF c = NoBg THEN Waiting ELSE c)
        /\ c # NoBg => /\ c \in BGs /\ Live(c) /\ bg[c].type = u
                       /\ [type |-> u, bg |-> c, time |-> n] \in events[p]
    BY <2>1, EntryFacts
  <2> QED BY <1>4, <1>5, <1>8, <2>2, <2>3
<1>11. \A q, u : NoEntry(q, u)' <=> NoEntry(q, u)
  BY <1>8 DEF NoEntry
<1>12. ASSUME NEW p \in Players, where[p] # "off", bgOf[p] = b PROVE FALSE
  <2>1. bg[b].type \in Types /\ where[p] \in {"world", "far", "off"}
    BY Facts
  <2>2. where[p] = "world" => members[b][p] # "out"
    BY <1>1, <1>12, <2>1 DEF IInv, BelongsInv
  <2> QED BY <1>6, <1>12, <2>1, <2>2 DEF Holds
<1>13. SlotInv'
  <2>1. \A p \in Players, u \in Types : InSlot(p, u) => InSlot(p, u)'
    BY <1>4, <1>5, <1>8, <1>12 DEF InSlot
  <2> QED BY <1>8, <1>11, <2>1 DEF IInv, SlotInv
<1>14. BelongsInv'
  <2> SUFFICES ASSUME NEW p \in Players, NEW c \in BGs, NEW u \in Types,
                      where'[p] # "off", bgOf'[p] = c, Live(c)', bg'[c].type = u
               PROVE  /\ slot'[p][u] = c
                      /\ NoEntry(p, u)'
                      /\ where'[p] = "world" => members'[c][p] # "out"
    BY DEF BelongsInv
  <2>1. where[p] # "off" /\ bgOf[p] = c /\ Live(c) /\ bg[c].type = u
    BY <1>4, <1>5, <1>8
  <2>2. slot[p][u] = c /\ NoEntry(p, u) /\ (where[p] = "world" => members[c][p] # "out")
    BY <2>1 DEF IInv, BelongsInv
  <2> QED BY <1>8, <1>11, <2>2
<1>15. MembersInv'
  <2>1. \A p \in Players : members[b][p] = "out"
    BY <1>6 DEF Holds
  <2> QED BY <1>5, <1>8, <2>1 DEF IInv, MembersInv
<1>16. FreeInv' /\ freeQueue' \in [Types -> Seq(BGs)]
  BY <1>1, <1>4, FreeTakenOut
<1>17. CountInv'
  <2>1. ASSUME NEW c \in BGs, c # b PROVE Holders(c)' = Holders(c)
    BY <1>4, <1>8, <2>1 DEF Holders, Holds
  <2> QED BY <1>4, <1>5, <2>1 DEF IInv, CountInv, OfTeam
<1> QED BY <1>9, <1>10, <1>13, <1>14, <1>15, <1>16, <1>17 DEF IInv

-----------------------------------------------------------------------------
(* Going elsewhere.                                                        *)

\* A battleground that nobody leaves.
LEMMA NobodyLeft ==
  ASSUME IInv, NEW b, members' = members, bg' = bg, slot' = slot, scheduled' = scheduled,
         freeQueue' = freeQueue
  PROVE  BattleLeft(b, {})
<1>1. /\ members \in [BGs -> [Players -> {"out", "in", "away"}]]
      /\ slot \in [Players -> [Types -> BGs \cup {NoSlot, Waiting}]]
      /\ bg \in [BGs -> [status : Status, type : Types, invited : [Teams -> Nat]]]
      /\ scheduled \subseteq Types /\ FreeInv
      /\ freeQueue \in [Types -> Seq(BGs)]
  BY DEF IInv, KnownInv
<1>2. \A team : Cardinality(OfTeam({}, team)) = 0
  BY CountOne
<1>3. ASSUME NEW c \in BGs
      PROVE  bg'[c] = [status |-> bg[c].status, type |-> bg[c].type,
               invited |-> [team \in Teams |-> bg[c].invited[team] - Cardinality(OfTeam({}, team))]]
  <2> DEFINE r == bg[c]
             f == r.invited
             g == [team \in Teams |-> f[team] - Cardinality(OfTeam({}, team))]
  <2>1. r \in [status : Status, type : Types, invited : [Teams -> Nat]]
    BY <1>1
  <2>2. f \in [Teams -> Nat]
    BY <2>1
  <2>3. r = [status |-> r.status, type |-> r.type, invited |-> f]
    BY <2>1
  <2> HIDE DEF f
  <2>4. \A team \in Teams : f[team] - Cardinality(OfTeam({}, team)) = f[team]
    BY <1>2, <2>2
  <2>5. g = f
    BY <2>2, <2>4
  <2>6. r = [status |-> r.status, type |-> r.type, invited |-> g]
    BY <2>3, <2>5
  <2> QED BY <2>6 DEF f
<1>4. FreeInv'
  BY <1>1 DEF FreeInv
<1> QED BY <1>1, <1>3, <1>4 DEF BattleLeft

\* A player in the world leaves the battleground he is in, if any.
LEMMA LeavesCurrent ==
  ASSUME IInv, NEW p \in Players, where[p] = "world", LeaveCurrent(p)
  PROVE  /\ BattleLeft(bgOf[p], IF Live(bgOf[p]) THEN {p} ELSE {})
         /\ \A c \in BGs, q \in Players : members'[c][q] = IF q = p THEN "out" ELSE members[c][q]
<1> DEFINE b == bgOf[p]
<1>1. members \in [BGs -> [Players -> {"out", "in", "away"}]]
  BY DEF IInv, KnownInv
<1>2. CASE Live(b)
  <2>1. b \in BGs /\ bg[b].type \in Types
    BY <1>2, Facts DEF Live
  <2>2. members[b][p] # "out"
    BY <1>2, <2>1 DEF IInv, BelongsInv
  <2>3. Participants({p}, b) = {p} /\ {p} \in SUBSET Players
    BY <2>2 DEF Participants
  <2>4. RemovePlayerAtLeave({p}, b)
    BY <1>2 DEF LeaveCurrent
  <2>5. BattleLeft(b, {p})
    <3> HIDE DEF b
    <3>1. BattleLeft(b, Participants({p}, b))
      BY <1>2, <2>1, <2>3, <2>4, LeftFields
    <3> QED BY <2>3, <3>1
  <2>6. \A c \in BGs : c # b => members[c][p] = "out"
    BY DEF IInv, MembersInv
  <2>7. \A c \in BGs, q \in Players : members'[c][q] = IF q = p THEN "out" ELSE members[c][q]
    <3>1. \A c \in BGs, q \in Players : members'[c][q] = IF c = b /\ q \in {p} THEN "out" ELSE members[c][q]
      BY <2>5 DEF BattleLeft
    <3> HIDE DEF b
    <3> QED BY <2>6, <3>1
  <2> QED BY <1>2, <2>5, <2>7
<1>3. CASE ~Live(b)
  <2>1. members' = members /\ bg' = bg /\ slot' = slot /\ scheduled' = scheduled /\ freeQueue' = freeQueue
    BY <1>3 DEF LeaveCurrent
  <2>2. \A c \in BGs : members[c][p] = "out"
    BY <1>3 DEF IInv, MembersInv
  <2>3. BattleLeft(b, {})
    <3> HIDE DEF b
    <3> QED BY <2>1, NobodyLeft
  <2> QED BY <1>3, <2>1, <2>2, <2>3
<1> QED BY <1>2, <1>3

\* Those who were in a battleground and left have given up their places.
LEMMA LeftLoses ==
  ASSUME IInv, NEW b, NEW R, BattleLeft(b, R), NEW c \in BGs,
         R \subseteq Holders(b),
         Live(c) => Holders(c)' = Holders(c) \ (IF c = b THEN R ELSE {}),
         Live(c) \/ R = {} \/ c # b
  PROVE  Loses(c, IF c = b THEN R ELSE {})
<1> DEFINE L == IF c = b THEN R ELSE {}
<1>1. bg'[c] = [status |-> bg[c].status, type |-> bg[c].type,
                invited |-> [team \in Teams |-> bg[c].invited[team] - Cardinality(OfTeam(L, team))]]
  BY DEF BattleLeft
<1>2. /\ L \subseteq Holders(c)
      /\ Live(c) => Holders(c)' = Holders(c) \ L
      /\ ~Live(c) => L = {}
  OBVIOUS
<1> HIDE DEF L
<1>3. IF Live(c) THEN Holders(c)' = Holders(c) \ L ELSE L = {}
  BY <1>2
<1>4. Loses(c, L)
  BY ONLY <1>1, <1>2, <1>3 DEF Loses
<1> QED BY <1>4 DEF L

\* Who goes to another map leaves the battleground he is in.
LEMMA TeleportKeeps ==
  ASSUME IInv, NEW p \in Players, TeleportTo(p)
  PROVE  IInv'
<1> DEFINE d == bgOf[p]
           R == IF Live(d) THEN {p} ELSE {}
<1>1. /\ where[p] = "world" /\ where' = [where EXCEPT ![p] = "far"]
      /\ LeaveCurrent(p) /\ bgOf' = [bgOf EXCEPT ![p] = NoBg]
      /\ UNCHANGED <<events, queue, offline>>
  BY DEF TeleportTo
<1>2. /\ where \in [Players -> {"world", "far", "off"}]
      /\ bgOf \in [Players -> BGs \cup {NoBg}]
  BY DEF IInv, KnownInv
<1>3. /\ BattleLeft(d, R)
      /\ \A c \in BGs, q \in Players : members'[c][q] = IF q = p THEN "out" ELSE members[c][q]
  BY <1>1, LeavesCurrent
<1>4. /\ \A q \in Players : where'[q] = IF q = p THEN "far" ELSE where[q]
      /\ \A q \in Players : bgOf'[q] = IF q = p THEN NoBg ELSE bgOf[q]
      /\ events' = events /\ queue' = queue
  BY <1>1, <1>2
<1>5. /\ QueueInv'
      /\ \A u \in Types : \A q, b, n : EntryIn(queue'[u], q, b, n) <=> EntryIn(queue[u], q, b, n)
  BY <1>1, QueueStays
<1>6. \A q, u : NoEntry(q, u)' <=> NoEntry(q, u)
  BY <1>4 DEF NoEntry
<1>7. Live(d) => /\ d \in BGs /\ bg[d].type \in Types /\ NoEntry(p, bg[d].type) /\ members[d][p] # "out"
  <2>1. Live(d) => d \in BGs /\ bg[d].type \in Types
    BY Facts DEF Live
  <2> QED BY <1>1, <2>1 DEF IInv, BelongsInv
<1>8. /\ \A q \in Players, u \in Types :
           slot'[q][u] = IF q = p /\ Live(d) /\ u = bg[d].type THEN NoSlot ELSE slot[q][u]
  BY <1>1, <1>3 DEF BattleLeft
<1>9. ASSUME NEW c \in BGs PROVE Loses(c, IF c = d THEN R ELSE {})
  <2>1. R \subseteq Holders(d)
    BY <1>7 DEF Holders, Holds
  <2>2. ASSUME Live(c) PROVE Holders(c)' = Holders(c) \ (IF c = d THEN R ELSE {})
    <3>1. bg'[c].type = bg[c].type /\ bg[c].type \in Types
      BY <1>3, Facts DEF BattleLeft
    <3>2. ASSUME NEW q \in Players, q # p PROVE Holds(q, c)' <=> Holds(q, c)
      <4>1. where'[q] = where[q] /\ bgOf'[q] = bgOf[q] /\ members'[c][q] = members[c][q]
        BY <1>3, <1>4, <3>2
      <4> QED BY <1>4, <3>1, <4>1 DEF Holds
    <3>3. Holds(p, c)' <=> \E n : EntryIn(queue[bg[c].type], p, c, n)
      <4>1. members'[c][p] = "out" /\ bgOf'[p] # c
        BY <1>3, <1>4, Constants
      <4> QED BY <1>4, <3>1, <4>1 DEF Holds
    <3>4. c # d => members[c][p] = "out"
      BY DEF IInv, MembersInv
    <3>5. Holds(p, c)' <=> Holds(p, c) /\ c # d
      <4>1. CASE c = d
        BY <1>7, <2>2, <3>3, <4>1 DEF NoEntry
      <4>2. CASE c # d
        BY <1>1, <3>3, <3>4, <4>2 DEF Holds
      <4> QED BY <4>1, <4>2
    <3> HIDE DEF d
    <3> QED BY <2>2, <3>2, <3>5 DEF Holders
  <2>3. Live(c) \/ R = {} \/ c # d
    OBVIOUS
  <2> HIDE DEF R, d
  <2> QED BY <1>3, <2>1, <2>2, <2>3, LeftLoses
<1>10. /\ CountInv' /\ SameBattles
       /\ bg' \in [BGs -> [status : Status, type : Types, invited : [Teams -> Nat]]]
  <2>1. DOMAIN bg' = BGs /\ bg' = [c \in DOMAIN bg' |-> bg'[c]]
    BY <1>3 DEF BattleLeft
  <2>2. \A c \in BGs : \E L : Loses(c, L)
    BY <1>9
  <2> QED BY <2>1, <2>2, LosesKeeps
<1>11. /\ \A c : Live(c)' <=> Live(c)
       /\ \A c \in BGs : bg'[c].type = bg[c].type
  BY <1>10 DEF SameBattles
<1>12. KnownInv'
  <2>1. /\ members' \in [BGs -> [Players -> {"out", "in", "away"}]] /\ scheduled' \subseteq Types
        /\ slot' \in [Players -> [Types -> BGs \cup {NoSlot, Waiting}]]
    BY <1>3 DEF BattleLeft
  <2>2. where' \in [Players -> {"world", "far", "off"}] /\ bgOf' \in [Players -> BGs \cup {NoBg}]
    BY <1>1, <1>2
  <2> QED BY <1>1, <1>10, <2>1, <2>2 DEF IInv, KnownInv
<1>13. EntryInv'
  <2> SUFFICES ASSUME NEW u \in Types, NEW q \in Players, NEW c, NEW n, EntryIn(queue'[u], q, c, n)
               PROVE  /\ where'[q] # "off"
                      /\ slot'[q][u] = IF c = NoBg THEN Waiting ELSE c
                      /\ c # NoBg => /\ Live(c)' /\ bg'[c].type = u
                                     /\ [type |-> u, bg |-> c, time |-> n] \in events'[q]
    BY DEF EntryInv
  <2>1. EntryIn(queue[u], q, c, n)
    BY <1>4
  <2>2. /\ where[q] # "off" /\ slot[q][u] = (IF c = NoBg THEN Waiting ELSE c)
        /\ c # NoBg => /\ c \in BGs /\ Live(c) /\ bg[c].type = u
                       /\ [type |-> u, bg |-> c, time |-> n] \in events[q]
    BY <2>1, EntryFacts
  <2>3. slot'[q][u] = slot[q][u]
    BY <1>7, <1>8, <2>1 DEF NoEntry
  <2> QED BY <1>4, <1>11, <2>2, <2>3
<1>14. SlotInv'
  <2> SUFFICES ASSUME NEW q \in Players, NEW u \in Types, NoEntry(q, u)'
               PROVE  slot'[q][u] = NoSlot \/ InSlot(q, u)'
    BY DEF SlotInv
  <2>1. slot[q][u] = NoSlot \/ InSlot(q, u)
    BY <1>6 DEF IInv, SlotInv
  <2>2. CASE q = p
    <3>1. InSlot(p, u) => Live(d) /\ u = bg[d].type
      BY DEF InSlot
    <3> QED BY <1>8, <2>1, <2>2, <3>1
  <2>3. CASE q # p
    <3>1. slot'[q] = slot[q] \/ slot'[q][u] = slot[q][u]
      BY <1>8, <2>3
    <3> QED BY <1>4, <1>8, <1>11, <2>1, <2>3 DEF InSlot
  <2> QED BY <2>2, <2>3
<1>15. BelongsInv'
  <2> SUFFICES ASSUME NEW q \in Players, NEW c \in BGs, NEW u \in Types,
                      where'[q] # "off", bgOf'[q] = c, Live(c)', bg'[c].type = u
               PROVE  /\ slot'[q][u] = c
                      /\ NoEntry(q, u)'
                      /\ where'[q] = "world" => members'[c][q] # "out"
    BY DEF BelongsInv
  <2>1. q # p
    BY <1>4, Constants
  <2>2. where[q] # "off" /\ bgOf[q] = c /\ Live(c) /\ bg[c].type = u
    BY <1>4, <1>11, <2>1
  <2>3. slot[q][u] = c /\ NoEntry(q, u) /\ (where[q] = "world" => members[c][q] # "out")
    BY <2>2 DEF IInv, BelongsInv
  <2> QED BY <1>3, <1>4, <1>6, <1>8, <2>1, <2>3
<1>16. MembersInv'
  BY <1>3, <1>4, <1>11 DEF IInv, MembersInv
<1>17. FreeInv' /\ freeQueue' \in [Types -> Seq(BGs)]
  BY <1>3 DEF BattleLeft
<1> QED BY <1>5, <1>10, <1>12, <1>13, <1>14, <1>15, <1>16, <1>17 DEF IInv

-----------------------------------------------------------------------------
(* Entering a battleground.                                                *)

\* Who enters keeps the place to which he was invited, and gives up the one
\* he has in another battleground.
LEMMA EnterKeeps ==
  ASSUME IInv, NEW p \in Players, NEW t \in Types, Enter(p, t)
  PROVE  IInv'
<1> DEFINE d == bgOf[p]
           R == IF Live(d) THEN {p} ELSE {}
<1>0. PICK new, time : new = GroupOf(p, t).invited /\ time = GroupOf(p, t).time
  OBVIOUS
<1>1. /\ where[p] = "world" /\ where' = [where EXCEPT ![p] = "far"]
      /\ Queued(p, t) /\ Live(new)
      /\ queue' = [queue EXCEPT ![t] = Dequeued(t, p)]
      /\ LeaveCurrent(p) /\ bgOf' = [bgOf EXCEPT ![p] = new]
      /\ events' = events /\ offline' = offline
  BY <1>0 DEF Enter
<1>2. /\ where \in [Players -> {"world", "far", "off"}]
      /\ bgOf \in [Players -> BGs \cup {NoBg}]
  BY DEF IInv, KnownInv
<1>3. EntryIn(queue[t], p, new, time)
  <2>1. Well(queue[t], t)
    BY DEF IInv, QueueInv
  <2> QED BY <1>0, <1>1, <2>1, Asked
<1>4. new \in BGs /\ new # NoBg /\ slot[p][t] = new /\ bg[new].type = t
  <2>1. new \in BGs /\ new # NoBg
    BY <1>1, Constants DEF Live
  <2> QED BY <1>3, <2>1, EntryFacts
<1>5. /\ BattleLeft(d, R)
      /\ \A c \in BGs, q \in Players : members'[c][q] = IF q = p THEN "out" ELSE members[c][q]
  BY <1>1, LeavesCurrent
<1>6. /\ \A q \in Players : where'[q] = IF q = p THEN "far" ELSE where[q]
      /\ \A q \in Players : bgOf'[q] = IF q = p THEN new ELSE bgOf[q]
      /\ events' = events
  BY <1>1, <1>2
<1>7. /\ QueueInv'
      /\ \A u \in Types : \A q, b, n :
           EntryIn(queue'[u], q, b, n) <=> EntryIn(queue[u], q, b, n) /\ ~(q = p /\ u = t)
  <2>1. QueueInv' /\ Leaves(p, {t})
    BY <1>1, QueueLeftOne
  <2> QED BY <2>1 DEF Leaves
<1>9. \A u \in Types : \A q : NoEntry(q, u)' <=> NoEntry(q, u) \/ (q = p /\ u = t)
  BY <1>7 DEF NoEntry
<1>10. Live(d) => /\ d \in BGs /\ bg[d].type \in Types /\ NoEntry(p, bg[d].type) /\ members[d][p] # "out"
                  /\ bg[d].type # t
  <2>1. Live(d) => d \in BGs /\ bg[d].type \in Types
    BY Facts DEF Live
  <2>2. Live(d) => NoEntry(p, bg[d].type) /\ members[d][p] # "out"
    BY <1>1, <2>1 DEF IInv, BelongsInv
  <2> QED BY <1>3, <2>1, <2>2 DEF NoEntry
<1>11. /\ \A q \in Players, u \in Types :
            slot'[q][u] = IF q = p /\ Live(d) /\ u = bg[d].type THEN NoSlot ELSE slot[q][u]
  BY <1>1, <1>5 DEF BattleLeft
<1>12. ASSUME NEW c \in BGs PROVE Loses(c, IF c = d THEN R ELSE {})
  <2>1. R \subseteq Holders(d)
    BY <1>10 DEF Holders, Holds
  <2>2. ASSUME Live(c) PROVE Holders(c)' = Holders(c) \ (IF c = d THEN R ELSE {})
    <3>1. bg'[c].type = bg[c].type /\ bg[c].type \in Types /\ c # NoBg
      BY <1>5, Facts, Constants DEF BattleLeft
    <3>2. ASSUME NEW q \in Players, q # p PROVE Holds(q, c)' <=> Holds(q, c)
      <4>1. where'[q] = where[q] /\ bgOf'[q] = bgOf[q] /\ members'[c][q] = members[c][q]
        BY <1>5, <1>6, <3>2
      <4>2. \A n : EntryIn(queue'[bg[c].type], q, c, n) <=> EntryIn(queue[bg[c].type], q, c, n)
        BY <1>7, <3>1, <3>2
      <4> QED BY <3>1, <4>1, <4>2 DEF Holds
    <3>3. Holds(p, c)' <=> \/ \E n : EntryIn(queue[bg[c].type], p, c, n) /\ bg[c].type # t
                           \/ c = new
      <4>1. members'[c][p] = "out" /\ (bgOf'[p] = c <=> c = new) /\ where'[p] = "far"
        BY <1>5, <1>6
      <4>2. \A n : EntryIn(queue'[bg[c].type], p, c, n) <=> EntryIn(queue[bg[c].type], p, c, n) /\ bg[c].type # t
        BY <1>7, <3>1
      <4> QED BY <3>1, <4>1, <4>2 DEF Holds
    <3>4. c # d => members[c][p] = "out"
      BY DEF IInv, MembersInv
    <3>5. \A n : EntryIn(queue[bg[c].type], p, c, n) /\ bg[c].type = t => c = new
      <4>1. PICK m : EntryIn(queue[t], p, new, m)
        BY <1>3
      <4> DEFINE lists == queue[t]
      <4>2. Well(lists, t) /\ EntryIn(lists, p, new, m)
        BY <4>1 DEF IInv, QueueInv
      <4> HIDE DEF lists
      <4>3. \A b, n : EntryIn(lists, p, b, n) => b = new
        BY ONLY t \in Types, <4>2, OneEntry
      <4> QED BY <4>3 DEF lists
    <3>6. c = new => \E n : EntryIn(queue[bg[c].type], p, c, n)
      BY <1>3, <1>4
    <3>7. Holds(p, c)' <=> Holds(p, c) /\ c # d
      <4>1. CASE c = d
        <5>1. c # new
          BY <1>4, <1>10, <2>2, <4>1
        <5>2. \A n : ~EntryIn(queue[bg[c].type], p, c, n)
          BY <1>10, <2>2, <4>1 DEF NoEntry
        <5> QED BY <3>3, <4>1, <5>1, <5>2
      <4>2. CASE c # d
        <5>1. Holds(p, c) <=> \E n : EntryIn(queue[bg[c].type], p, c, n)
          BY <1>1, <3>4, <4>2 DEF Holds
        <5> QED BY <3>3, <3>5, <3>6, <4>2, <5>1
      <4> QED BY <4>1, <4>2
    <3> HIDE DEF d
    <3> QED BY <2>2, <3>2, <3>7 DEF Holders
  <2>3. Live(c) \/ R = {} \/ c # d
    OBVIOUS
  <2> HIDE DEF R, d
  <2> QED BY <1>5, <2>1, <2>2, <2>3, LeftLoses
<1>13. /\ CountInv' /\ SameBattles
       /\ bg' \in [BGs -> [status : Status, type : Types, invited : [Teams -> Nat]]]
  <2>1. DOMAIN bg' = BGs /\ bg' = [c \in DOMAIN bg' |-> bg'[c]]
    BY <1>5 DEF BattleLeft
  <2>2. \A c \in BGs : \E L : Loses(c, L)
    BY <1>12
  <2> QED BY <2>1, <2>2, LosesKeeps
<1>14. /\ \A c : Live(c)' <=> Live(c)
       /\ \A c \in BGs : bg'[c].type = bg[c].type
  BY <1>13 DEF SameBattles
<1>15. KnownInv'
  <2>1. /\ members' \in [BGs -> [Players -> {"out", "in", "away"}]] /\ scheduled' \subseteq Types
        /\ slot' \in [Players -> [Types -> BGs \cup {NoSlot, Waiting}]]
    BY <1>5 DEF BattleLeft
  <2>2. where' \in [Players -> {"world", "far", "off"}] /\ bgOf' \in [Players -> BGs \cup {NoBg}]
    BY <1>1, <1>2, <1>4
  <2> QED BY <1>1, <1>13, <2>1, <2>2 DEF IInv, KnownInv
<1>16. EntryInv'
  <2> SUFFICES ASSUME NEW u \in Types, NEW q \in Players, NEW c, NEW n, EntryIn(queue'[u], q, c, n)
               PROVE  /\ where'[q] # "off"
                      /\ slot'[q][u] = IF c = NoBg THEN Waiting ELSE c
                      /\ c # NoBg => /\ Live(c)' /\ bg'[c].type = u
                                     /\ [type |-> u, bg |-> c, time |-> n] \in events'[q]
    BY DEF EntryInv
  <2>1. EntryIn(queue[u], q, c, n)
    BY <1>7
  <2>2. /\ where[q] # "off" /\ slot[q][u] = (IF c = NoBg THEN Waiting ELSE c)
        /\ c # NoBg => /\ c \in BGs /\ Live(c) /\ bg[c].type = u
                       /\ [type |-> u, bg |-> c, time |-> n] \in events[q]
    BY <2>1, EntryFacts
  <2>3. slot'[q][u] = slot[q][u]
    BY <1>10, <1>11, <2>1 DEF NoEntry
  <2> QED BY <1>6, <1>14, <2>2, <2>3
<1>17. SlotInv'
  <2> SUFFICES ASSUME NEW q \in Players, NEW u \in Types, NoEntry(q, u)'
               PROVE  slot'[q][u] = NoSlot \/ InSlot(q, u)'
    BY DEF SlotInv
  <2>1. CASE q = p /\ u = t
    <3>1. slot'[p][t] = new /\ bgOf'[p] = new /\ where'[p] # "off" /\ Live(new)' /\ bg'[new].type = t
      BY <1>1, <1>4, <1>6, <1>10, <1>11, <1>14
    <3> QED BY <1>4, <2>1, <3>1 DEF InSlot
  <2>2. CASE ~(q = p /\ u = t)
    <3>1. slot[q][u] = NoSlot \/ InSlot(q, u)
      BY <1>9, <2>2 DEF IInv, SlotInv
    <3>2. CASE q = p
      <4>1. InSlot(p, u) => Live(d) /\ u = bg[d].type
        BY DEF InSlot
      <4> QED BY <1>11, <3>1, <3>2, <4>1
    <3>3. CASE q # p
      BY <1>6, <1>11, <1>14, <3>1, <3>3 DEF InSlot
    <3> QED BY <3>2, <3>3
  <2> QED BY <2>1, <2>2
<1>18. BelongsInv'
  <2> SUFFICES ASSUME NEW q \in Players, NEW c \in BGs, NEW u \in Types,
                      where'[q] # "off", bgOf'[q] = c, Live(c)', bg'[c].type = u
               PROVE  /\ slot'[q][u] = c
                      /\ NoEntry(q, u)'
                      /\ where'[q] = "world" => members'[c][q] # "out"
    BY DEF BelongsInv
  <2>1. CASE q = p
    <3>1. c = new /\ u = t /\ where'[p] = "far"
      BY <1>4, <1>6, <1>14, <2>1
    <3> QED BY <1>4, <1>9, <1>10, <1>11, <2>1, <3>1
  <2>2. CASE q # p
    <3>1. where[q] # "off" /\ bgOf[q] = c /\ Live(c) /\ bg[c].type = u
      BY <1>6, <1>14, <2>2
    <3>2. slot[q][u] = c /\ NoEntry(q, u) /\ (where[q] = "world" => members[c][q] # "out")
      BY <3>1 DEF IInv, BelongsInv
    <3> QED BY <1>5, <1>6, <1>9, <1>11, <2>2, <3>2
  <2> QED BY <2>1, <2>2
<1>19. MembersInv'
  BY <1>5, <1>6, <1>14 DEF IInv, MembersInv
<1>20. FreeInv' /\ freeQueue' \in [Types -> Seq(BGs)]
  BY <1>5 DEF BattleLeft
<1> QED BY <1>7, <1>13, <1>15, <1>16, <1>17, <1>18, <1>19, <1>20 DEF IInv

-----------------------------------------------------------------------------
(* Declining, and being too late.                                          *)

\* The battlegrounds after a player gave up invitations by leaving queues.
LEMMA GivenBackBattles ==
  ASSUME IInv, NEW p \in Players, NEW from \in SUBSET Types, bg' = GivesBack(p, from)
  PROVE  /\ DOMAIN bg' = BGs /\ bg' = [c \in DOMAIN bg' |-> bg'[c]]
         /\ \A c \in BGs : /\ Gives(p, from, c) \subseteq Holders(c)
                           /\ ~Live(c) => Gives(p, from, c) = {}
                           /\ bg'[c] = [status |-> bg[c].status, type |-> bg[c].type,
                                invited |-> [team \in Teams |-> bg[c].invited[team] -
                                               Cardinality(OfTeam(Gives(p, from, c), team))]]
<1>1. DOMAIN bg' = BGs /\ bg' = [c \in DOMAIN bg' |-> bg'[c]]
  BY DEF GivesBack
<1>2. ASSUME NEW c \in BGs
      PROVE  /\ Gives(p, from, c) \subseteq Holders(c)
             /\ ~Live(c) => Gives(p, from, c) = {}
             /\ bg'[c] = [status |-> bg[c].status, type |-> bg[c].type,
                                invited |-> [team \in Teams |-> bg[c].invited[team] -
                                               Cardinality(OfTeam(Gives(p, from, c), team))]]
  <2>1. Gives(p, from, c) \subseteq Holders(c) /\ (~Live(c) => Gives(p, from, c) = {})
    BY DEF Gives, Holders, Holds
  <2>2. bg'[c] = GivesBack(p, from)[c]
    OBVIOUS
  <2> DEFINE f == GivesBack(p, from)[c].invited
  <2>3. /\ f = [team \in Teams |-> bg[c].invited[team] - Cardinality(OfTeam(Gives(p, from, c), team))]
        /\ GivesBack(p, from)[c] = [status |-> bg[c].status, type |-> bg[c].type, invited |-> f]
    BY GivenBack
  <2> QED BY <2>1, <2>2, <2>3
<1> QED BY <1>1, <1>2

\* A player who leaves the queue gives back the place he was invited to.
LEMMA DeclineKeeps ==
  ASSUME IInv, NEW p \in Players, NEW t \in Types, where[p] = "world", ~NoEntry(p, t),
         slot' = [slot EXCEPT ![p][t] = NoSlot],
         queue' = [queue EXCEPT ![t] = Dequeued(t, p)],
         bg' = GivesBack(p, {t}),
         scheduled' \subseteq Types,
         events' \in [Players -> SUBSET RemoveEvent],
         \A q \in Players : events'[q] \subseteq events[q],
         \A q \in Players : \A x \in events[q] : x \in events'[q] \/ (q = p /\ x.type = t),
         UNCHANGED <<where, bgOf, members, offline, freeQueue>>
  PROVE  IInv'
<1>1. /\ slot \in [Players -> [Types -> BGs \cup {NoSlot, Waiting}]]
      /\ {t} \in SUBSET Types
  BY DEF IInv, KnownInv
<1>2. \A q \in Players, u \in Types : slot'[q][u] = IF q = p /\ u = t THEN NoSlot ELSE slot[q][u]
  BY <1>1
<1>3. /\ QueueInv'
      /\ \A u \in Types : \A q, b, n :
           EntryIn(queue'[u], q, b, n) <=> EntryIn(queue[u], q, b, n) /\ ~(q = p /\ u = t)
  <2>1. QueueInv' /\ Leaves(p, {t})
    BY QueueLeftOne
  <2> QED BY <2>1 DEF Leaves
<1>4. \A u \in Types : \A q : NoEntry(q, u)' <=> NoEntry(q, u) \/ (q = p /\ u = t)
  BY <1>3 DEF NoEntry
<1>5. where' = where /\ bgOf' = bgOf /\ members' = members
  OBVIOUS
<1>6. /\ DOMAIN bg' = BGs /\ bg' = [c \in DOMAIN bg' |-> bg'[c]]
      /\ \A c \in BGs : /\ Gives(p, {t}, c) \subseteq Holders(c)
                        /\ ~Live(c) => Gives(p, {t}, c) = {}
                        /\ bg'[c] = [status |-> bg[c].status, type |-> bg[c].type,
                                invited |-> [team \in Teams |-> bg[c].invited[team] -
                                               Cardinality(OfTeam(Gives(p, {t}, c), team))]]
  BY <1>1, GivenBackBattles
<1>7. \A c \in BGs : Live(c) /\ bg[c].type = t => members[c][p] = "out"
  <2> TAKE c \in BGs
  <2>1. ASSUME Live(c), bg[c].type = t, members[c][p] # "out" PROVE FALSE
    <3>1. bgOf[p] = c
      BY <2>1 DEF IInv, MembersInv
    <3>2. where[p] # "off"
      OBVIOUS
    <3>3. NoEntry(p, t)
      BY <2>1, <3>1, <3>2 DEF IInv, BelongsInv
    <3> QED BY <3>3
  <2> QED BY <2>1
<1>8. ASSUME NEW c \in BGs PROVE Loses(c, Gives(p, {t}, c))
  <2> DEFINE L == Gives(p, {t}, c)
  <2>1. bg'[c].type = bg[c].type /\ bg[c].type \in Types
    <3> DEFINE f == [team \in Teams |-> bg[c].invited[team] - Cardinality(OfTeam(L, team))]
    <3>1. bg'[c] = [status |-> bg[c].status, type |-> bg[c].type, invited |-> f]
      BY <1>6
    <3> HIDE DEF f, L
    <3> QED BY ONLY <3>1, IInv, Facts
  <2>2. ASSUME Live(c) PROVE Holders(c)' = Holders(c) \ L
    <3>1. ASSUME NEW q \in Players PROVE Holds(q, c)' <=> Holds(q, c) /\ q \notin L
      <4>1. /\ Holds(q, c) <=> \/ \E n : EntryIn(queue[bg[c].type], q, c, n)
                               \/ where[q] = "far" /\ bgOf[q] = c
                               \/ members[c][q] # "out"
            /\ Holds(q, c)' <=> \/ \E n : EntryIn(queue'[bg[c].type], q, c, n)
                                \/ where[q] = "far" /\ bgOf[q] = c
                                \/ members[c][q] # "out"
        BY <1>5, <2>1 DEF Holds
      <4>2. \A n : EntryIn(queue'[bg[c].type], q, c, n) <=>
                     EntryIn(queue[bg[c].type], q, c, n) /\ ~(q = p /\ bg[c].type = t)
        BY <1>3, <2>1
      <4>3. CASE q \in L
        <5>1. q = p /\ bg[c].type = t /\ where[q] = "world"
          BY <4>3 DEF Gives
        <5>2. members[c][q] = "out"
          BY <1>7, <2>2, <5>1
        <5> HIDE DEF L
        <5> QED BY <4>1, <4>2, <4>3, <5>1, <5>2
      <4>4. CASE q \notin L
        <5>1. \A n : ~(EntryIn(queue[bg[c].type], q, c, n) /\ q = p /\ bg[c].type = t)
          BY <2>2, <4>4 DEF Gives
        <5> HIDE DEF L
        <5> QED BY <4>1, <4>2, <4>4, <5>1
      <4> QED BY <4>3, <4>4
    <3> HIDE DEF L
    <3> QED BY <3>1 DEF Holders
  <2>3. IF Live(c) THEN Holders(c)' = Holders(c) \ L ELSE L = {}
    <3>1. ~Live(c) => L = {}
      BY <1>6
    <3> HIDE DEF L
    <3> QED BY <2>2, <3>1
  <2>4. /\ L \subseteq Holders(c)
        /\ bg'[c] = [status |-> bg[c].status, type |-> bg[c].type,
             invited |-> [team \in Teams |-> bg[c].invited[team] - Cardinality(OfTeam(L, team))]]
    BY <1>6
  <2> HIDE DEF L
  <2>5. Loses(c, L)
    BY ONLY <2>3, <2>4 DEF Loses
  <2> QED BY <2>5 DEF L
<1>9. /\ CountInv' /\ SameBattles
      /\ bg' \in [BGs -> [status : Status, type : Types, invited : [Teams -> Nat]]]
  <2>1. \A c \in BGs : \E L : Loses(c, L)
    BY <1>8
  <2> QED BY <1>6, <2>1, LosesKeeps
<1>10. /\ \A c : Live(c)' <=> Live(c)
       /\ \A c \in BGs : bg'[c].type = bg[c].type
  BY <1>9 DEF SameBattles
<1>11. KnownInv'
  <2>1. slot' \in [Players -> [Types -> BGs \cup {NoSlot, Waiting}]]
    BY <1>1
  <2>2. \A q \in Players : IsFiniteSet(events'[q])
    <3> TAKE q \in Players
    <3>1. IsFiniteSet(events[q]) /\ events'[q] \subseteq events[q]
      BY DEF IInv, KnownInv
    <3> QED BY <3>1, FS_Subset
  <2> QED BY <1>9, <2>1, <2>2 DEF IInv, KnownInv
<1>12. EntryInv'
  <2> SUFFICES ASSUME NEW u \in Types, NEW q \in Players, NEW c, NEW n, EntryIn(queue'[u], q, c, n)
               PROVE  /\ where'[q] # "off"
                      /\ slot'[q][u] = IF c = NoBg THEN Waiting ELSE c
                      /\ c # NoBg => /\ Live(c)' /\ bg'[c].type = u
                                     /\ [type |-> u, bg |-> c, time |-> n] \in events'[q]
    BY DEF EntryInv
  <2>1. EntryIn(queue[u], q, c, n) /\ ~(q = p /\ u = t)
    BY <1>3
  <2>2. /\ where[q] # "off" /\ slot[q][u] = (IF c = NoBg THEN Waiting ELSE c)
        /\ c # NoBg => /\ c \in BGs /\ Live(c) /\ bg[c].type = u
                       /\ [type |-> u, bg |-> c, time |-> n] \in events[q]
    BY <2>1, EntryFacts
  <2>3. c # NoBg => [type |-> u, bg |-> c, time |-> n] \in events'[q]
    <3>1. [type |-> u, bg |-> c, time |-> n].type = u
      OBVIOUS
    <3> QED BY <2>1, <2>2, <3>1
  <2> QED BY <1>2, <1>5, <1>10, <2>1, <2>2, <2>3
<1>13. SlotInv'
  <2> SUFFICES ASSUME NEW q \in Players, NEW u \in Types, NoEntry(q, u)'
               PROVE  slot'[q][u] = NoSlot \/ InSlot(q, u)'
    BY DEF SlotInv
  <2>1. CASE q = p /\ u = t
    BY <1>2, <2>1
  <2>2. CASE ~(q = p /\ u = t)
    <3>1. slot[q][u] = NoSlot \/ InSlot(q, u)
      BY <1>4, <2>2 DEF IInv, SlotInv
    <3>2. slot'[q][u] = slot[q][u] /\ where'[q] = where[q] /\ bgOf'[q] = bgOf[q]
      BY <1>2, <1>5, <2>2
    <3>3. \A b : Live(b) => Live(b)' /\ bg'[b].type = bg[b].type
      <4>1. \A b : Live(b) => b \in BGs
        BY DEF Live
      <4> QED BY ONLY <1>10, <4>1
    <3> QED BY ONLY <3>1, <3>2, <3>3 DEF InSlot
  <2> QED BY <2>1, <2>2
<1>14. BelongsInv'
  <2>0. SUFFICES ASSUME NEW q \in Players, NEW c \in BGs, NEW u \in Types,
                        where'[q] # "off", bgOf'[q] = c, Live(c)', bg'[c].type = u
                 PROVE  /\ slot'[q][u] = c
                        /\ NoEntry(q, u)'
                        /\ where'[q] = "world" => members'[c][q] # "out"
    BY DEF BelongsInv
  <2>1. where[q] # "off" /\ bgOf[q] = c /\ Live(c) /\ bg[c].type = u
    BY ONLY <1>5, <1>10, <2>0
  <2>2. slot[q][u] = c /\ NoEntry(q, u) /\ (where[q] = "world" => members[c][q] # "out")
    BY <2>1 DEF IInv, BelongsInv
  <2>3. ~(q = p /\ u = t)
    BY <2>2
  <2> QED BY <1>2, <1>4, <1>5, <2>2, <2>3
<1>15. MembersInv'
  BY <1>5, <1>10 DEF IInv, MembersInv
<1>16. FreeInv' /\ freeQueue' \in [Types -> Seq(BGs)]
  BY <1>9, FreeStays
<1> QED BY <1>3, <1>9, <1>11, <1>12, <1>13, <1>14, <1>15, <1>16 DEF IInv

\* Who declines gives his place back (HandleBattleFieldPortOpcode).
LEMMA LeaveQueueKeeps ==
  ASSUME IInv, NEW p \in Players, NEW t \in Types, LeaveQueue(p, t)
  PROVE  IInv'
<1>1. /\ where[p] = "world" /\ Queued(p, t)
      /\ slot' = [slot EXCEPT ![p][t] = NoSlot]
      /\ queue' = [queue EXCEPT ![t] = Dequeued(t, p)]
      /\ bg' = GivesBack(p, {t})
      /\ scheduled' = scheduled \cup {t}
      /\ UNCHANGED <<where, bgOf, events, members, offline, freeQueue>>
  BY DEF LeaveQueue
<1>2. events \in [Players -> SUBSET RemoveEvent] /\ scheduled \subseteq Types /\ Well(queue[t], t)
  BY DEF IInv, KnownInv, QueueInv
<1>3. ~NoEntry(p, t)
  BY <1>1, <1>2, Asked
<1>4. /\ events' \in [Players -> SUBSET RemoveEvent] /\ scheduled' \subseteq Types
      /\ \A q \in Players : events'[q] \subseteq events[q]
      /\ \A q \in Players : \A x \in events[q] : x \in events'[q] \/ (q = p /\ x.type = t)
  BY <1>1, <1>2
<1> QED BY <1>1, <1>3, <1>4, DeclineKeeps

\* So does who is too late; the timer of another invitation changes nothing
\* (BGQueueRemoveEvent::Execute).
LEMMA RemoveEventKeeps ==
  ASSUME IInv, NEW p \in Players, NEW e \in events[p], RemoveEventExecutes(p, e)
  PROVE  IInv'
<1>1. /\ where[p] = "world"
      /\ events' = [events EXCEPT ![p] = @ \ {e}]
      /\ UNCHANGED <<where, bgOf, members, offline, freeQueue>>
  BY DEF RemoveEventExecutes
<1>2. /\ events \in [Players -> SUBSET RemoveEvent] /\ scheduled \subseteq Types
      /\ \A q \in Players : IsFiniteSet(events[q])
      /\ \A u \in Types : Well(queue[u], u)
  BY DEF IInv, KnownInv, QueueInv
<1>3. e \in RemoveEvent /\ e.type \in Types /\ e = [type |-> e.type, bg |-> e.bg, time |-> e.time]
  <2>1. e \in RemoveEvent
    BY <1>2
  <2> QED BY <2>1 DEF RemoveEvent
<1>4. /\ events' \in [Players -> SUBSET RemoveEvent]
      /\ \A q \in Players : events'[q] = IF q = p THEN events[q] \ {e} ELSE events[q]
  BY <1>1, <1>2
<1> DEFINE t == e.type
<1>5. CASE slot[p][t] # NoSlot /\ IsPlayerInvited(p, e)
  <2>1. /\ slot' = [slot EXCEPT ![p][t] = NoSlot]
        /\ queue' = [queue EXCEPT ![t] = Dequeued(t, p)]
        /\ bg' = GivesBack(p, {t})
        /\ scheduled' = IF Live(e.bg) /\ bg[e.bg].status # "wait leave"
                              THEN scheduled \cup {t} ELSE scheduled
    BY <1>5 DEF RemoveEventExecutes
  <2>2. ~NoEntry(p, t)
    <3>1. Queued(p, t)
      BY <1>5 DEF IsPlayerInvited, InvitedTo
    <3> QED BY <1>2, <1>3, <3>1, Asked
  <2>3. scheduled' \subseteq Types
    BY <1>2, <1>3, <2>1
  <2>4. /\ \A q \in Players : events'[q] \subseteq events[q]
        /\ \A q \in Players : \A x \in events[q] : x \in events'[q] \/ (q = p /\ x.type = t)
    BY <1>4
  <2>5. t \in Types
    BY <1>3
  <2> HIDE DEF t
  <2> QED BY <1>1, <1>4, <2>1, <2>2, <2>3, <2>4, <2>5, DeclineKeeps
<1>6. CASE ~(slot[p][t] # NoSlot /\ IsPlayerInvited(p, e))
  <2>1. UNCHANGED <<slot, queue, bg, scheduled>>
    BY <1>6 DEF RemoveEventExecutes
  <2>2. /\ where' = where /\ slot' = slot /\ bgOf' = bgOf /\ queue' = queue /\ bg' = bg
        /\ members' = members
        /\ \A c : Live(c)' <=> Live(c)
    BY <1>1, <2>1 DEF Live
  <2>3. KnownInv' /\ QueueInv'
    <3>1. \A q \in Players : IsFiniteSet(events'[q])
      <4> TAKE q \in Players
      <4>1. events'[q] \subseteq events[q]
        BY <1>4
      <4> QED BY <1>2, <4>1, FS_Subset
    <3> QED BY <1>1, <1>4, <2>1, <3>1 DEF IInv, KnownInv, QueueInv
  <2>4. EntryInv'
    <3> SUFFICES ASSUME NEW u \in Types, NEW q \in Players, NEW c, NEW n, EntryIn(queue'[u], q, c, n)
                 PROVE  /\ where'[q] # "off"
                        /\ slot'[q][u] = IF c = NoBg THEN Waiting ELSE c
                        /\ c # NoBg => /\ Live(c)' /\ bg'[c].type = u
                                       /\ [type |-> u, bg |-> c, time |-> n] \in events'[q]
      BY DEF EntryInv
    <3>1. EntryIn(queue[u], q, c, n)
      BY <2>2
    <3>2. /\ where[q] # "off" /\ slot[q][u] = (IF c = NoBg THEN Waiting ELSE c) /\ slot[q][u] # NoSlot
          /\ c # NoBg => /\ c \in BGs /\ Live(c) /\ bg[c].type = u
                         /\ [type |-> u, bg |-> c, time |-> n] \in events[q]
          /\ \A b, m : EntryIn(queue[u], q, b, m) => b = c /\ m = n
      BY ONLY IInv, u \in Types, <3>1, EntryFacts
    <3>3. ASSUME q = p, e = [type |-> u, bg |-> c, time |-> n] PROVE FALSE
      <4>1. e.type = u /\ e.bg = c /\ e.time = n
        BY <3>3
      <4>2. /\ Queued(p, u)
            /\ EntryIn(queue[u], p, GroupOf(p, u).invited, GroupOf(p, u).time)
            /\ InvitedTo(p, u, c)
        BY <1>2, <3>1, <3>3, Asked DEF NoEntry
      <4>3. GroupOf(p, u).time = n
        BY <3>2, <3>3, <4>2
      <4>4. IsPlayerInvited(p, e)
        BY <4>1, <4>2, <4>3 DEF IsPlayerInvited
      <4> QED BY <1>6, <3>2, <3>3, <4>1, <4>4
    <3>4. c # NoBg => [type |-> u, bg |-> c, time |-> n] \in events'[q]
      BY <1>4, <3>2, <3>3
    <3> QED BY <2>2, <3>2, <3>4
  <2>5. SlotInv' /\ BelongsInv' /\ MembersInv'
    <3>1. SlotInv'
      BY ONLY <2>2, IInv DEF IInv, SlotInv, InSlot, NoEntry
    <3>2. BelongsInv'
      <4>1. \A q, u : NoEntry(q, u)' <=> NoEntry(q, u)
        BY ONLY <2>2 DEF NoEntry
      <4>2. BelongsInv
        BY DEF IInv
      <4> QED BY ONLY <2>2, <4>1, <4>2 DEF BelongsInv
    <3>3. MembersInv'
      BY ONLY <2>2, IInv DEF IInv, MembersInv
    <3> QED BY <3>1, <3>2, <3>3
  <2>6. FreeInv' /\ freeQueue' \in [Types -> Seq(BGs)]
    BY <1>1, <2>2 DEF IInv, FreeInv
  <2>7. CountInv'
    <3>1. \A c : Holders(c)' = Holders(c)
      BY <2>2 DEF Holders, Holds
    <3> QED BY <2>2, <3>1 DEF IInv, CountInv, OfTeam
  <2> QED BY <2>3, <2>4, <2>5, <2>6, <2>7 DEF IInv
<1> QED BY <1>5, <1>6

-----------------------------------------------------------------------------
(* Logging out.                                                            *)

\* Who logs out waits nowhere; in his battleground he is still a member.
LEMMA LogoutKeeps ==
  ASSUME IInv, NEW p \in Players, LogoutPlayer(p)
  PROVE  IInv'
<1> DEFINE Q == LogoutQueues(p)
<1>1. /\ where[p] # "off" /\ where' = [where EXCEPT ![p] = "off"]
      /\ IF Live(bgOf[p])
           THEN /\ members' = [members EXCEPT ![bgOf[p]][p] = IF Arrives(p) THEN "in" ELSE "away"]
                /\ offline' = [offline EXCEPT ![bgOf[p]] = Append(@, p)]
           ELSE members' = members /\ offline' = offline
      /\ slot' = [slot EXCEPT ![p] = [t \in Types |-> NoSlot]]
      /\ queue' = [t \in Types |-> IF t \in Q THEN Dequeued(t, p) ELSE queue[t]]
      /\ bg' = GivesBack(p, Q)
      /\ events' = [events EXCEPT ![p] = {}]
      /\ bgOf' = bgOf /\ scheduled' = scheduled /\ freeQueue' = freeQueue
  BY DEF LogoutPlayer
<1>2. /\ where \in [Players -> {"world", "far", "off"}]
      /\ slot \in [Players -> [Types -> BGs \cup {NoSlot, Waiting}]]
      /\ members \in [BGs -> [Players -> {"out", "in", "away"}]]
      /\ offline \in [BGs -> Seq(Players)]
      /\ events \in [Players -> SUBSET RemoveEvent]
      /\ \A q \in Players : IsFiniteSet(events[q])
  BY DEF IInv, KnownInv
<1>3. Q \in SUBSET Types /\ \A t \in Types : t \in Q <=> slot[p][t] # NoSlot
  BY DEF LogoutQueues
<1> HIDE DEF Q
<1>4. /\ QueueInv'
      /\ \A u \in Types : \A q, b, n :
           EntryIn(queue'[u], q, b, n) <=> EntryIn(queue[u], q, b, n) /\ q # p
  <2>1. QueueInv' /\ Leaves(p, Q)
    BY <1>1, <1>3, QueueLeft
  <2>2. ASSUME NEW u \in Types, NEW b, NEW n, EntryIn(queue[u], p, b, n) PROVE u \in Q
    BY <1>3, <2>2, EntryFacts
  <2> QED BY <2>1, <2>2 DEF Leaves
<1>5. \A u \in Types : \A q : NoEntry(q, u)' <=> NoEntry(q, u) \/ q = p
  BY <1>4 DEF NoEntry
<1>6. /\ \A q \in Players : where'[q] = IF q = p THEN "off" ELSE where[q]
      /\ \A q \in Players, u \in Types : slot'[q][u] = IF q = p THEN NoSlot ELSE slot[q][u]
      /\ \A q \in Players : events'[q] = IF q = p THEN {} ELSE events[q]
  BY <1>1, <1>2
<1>7. /\ members' \in [BGs -> [Players -> {"out", "in", "away"}]]
      /\ \A c \in BGs, q \in Players :
           members'[c][q] # "out" <=> members[c][q] # "out" \/ (q = p /\ Live(c) /\ c = bgOf[p])
      /\ offline' \in [BGs -> Seq(Players)]
  <2>1. CASE Live(bgOf[p])
    <3> DEFINE v == IF Arrives(p) THEN "in" ELSE "away"
    <3>1. /\ bgOf[p] \in BGs /\ members' = [members EXCEPT ![bgOf[p]][p] = v]
          /\ offline' = [offline EXCEPT ![bgOf[p]] = Append(@, p)]
      BY <1>1, <2>1 DEF Live
    <3>2. v \in {"out", "in", "away"} /\ v # "out"
      OBVIOUS
    <3> HIDE DEF v
    <3>3. members' \in [BGs -> [Players -> {"out", "in", "away"}]]
      BY <1>2, <3>1, <3>2
    <3>4. \A c \in BGs, q \in Players : members'[c][q] = IF q = p /\ c = bgOf[p] THEN v ELSE members[c][q]
      BY <1>2, <3>1
    <3>5. offline' \in [BGs -> Seq(Players)]
      BY <1>2, <3>1
    <3> QED BY <2>1, <3>2, <3>3, <3>4, <3>5
  <2>2. CASE ~Live(bgOf[p])
    <3>1. members' = members /\ offline' = offline
      BY <1>1, <2>2
    <3> QED BY <1>2, <2>2, <3>1
  <2> QED BY <2>1, <2>2
<1>8. /\ DOMAIN bg' = BGs /\ bg' = [c \in DOMAIN bg' |-> bg'[c]]
      /\ \A c \in BGs : /\ Gives(p, Q, c) \subseteq Holders(c)
                        /\ ~Live(c) => Gives(p, Q, c) = {}
                        /\ bg'[c] = [status |-> bg[c].status, type |-> bg[c].type,
                                invited |-> [team \in Teams |-> bg[c].invited[team] -
                                               Cardinality(OfTeam(Gives(p, Q, c), team))]]
  BY <1>1, <1>3, GivenBackBattles
<1>9. \A c \in BGs : Live(c) /\ bgOf[p] = c => NoEntry(p, bg[c].type)
  <2>1. \A c \in BGs : bg[c].type \in Types
    BY Facts
  <2> QED BY <1>1, <2>1 DEF IInv, BelongsInv
<1>10. ASSUME NEW c \in BGs PROVE Loses(c, Gives(p, Q, c))
  <2> DEFINE L == Gives(p, Q, c)
  <2>1. bg'[c].type = bg[c].type /\ bg[c].type \in Types
    <3> DEFINE f == [team \in Teams |-> bg[c].invited[team] - Cardinality(OfTeam(L, team))]
    <3>1. bg'[c] = [status |-> bg[c].status, type |-> bg[c].type, invited |-> f]
      BY <1>8
    <3> HIDE DEF f, L
    <3> QED BY ONLY <3>1, IInv, Facts
  <2>2. ASSUME Live(c) PROVE Holders(c)' = Holders(c) \ L
    <3>1. \A q : q \in L <=> q = p /\ \E n : EntryIn(queue[bg[c].type], p, c, n)
      <4>1. \A n : EntryIn(queue[bg[c].type], p, c, n) => bg[c].type \in Q
        BY <1>3, <2>1, EntryFacts
      <4> QED BY <2>2, <4>1 DEF Gives
    <3>2. ASSUME NEW q \in Players PROVE Holds(q, c)' <=> Holds(q, c) /\ q \notin L
      <4>1. /\ Holds(q, c) <=> \/ \E n : EntryIn(queue[bg[c].type], q, c, n)
                               \/ where[q] = "far" /\ bgOf[q] = c
                               \/ members[c][q] # "out"
            /\ Holds(q, c)' <=> \/ \E n : EntryIn(queue'[bg[c].type], q, c, n)
                                \/ where'[q] = "far" /\ bgOf[q] = c
                                \/ members'[c][q] # "out"
        BY <1>1, <2>1 DEF Holds
      <4>2. \A n : EntryIn(queue'[bg[c].type], q, c, n) <=> EntryIn(queue[bg[c].type], q, c, n) /\ q # p
        BY <1>4, <2>1
      <4>3. CASE q # p
        <5>1. where'[q] = where[q] /\ (members'[c][q] # "out" <=> members[c][q] # "out") /\ q \notin L
          BY <1>6, <1>7, <3>1, <4>3
        <5> HIDE DEF L
        <5> QED BY <4>1, <4>2, <4>3, <5>1
      <4>4. CASE q = p
        <5>1. /\ where'[q] = "off" /\ (members'[c][q] # "out" <=> members[c][q] # "out" \/ c = bgOf[p])
              /\ members[c][q] # "out" => c = bgOf[p]
          BY <1>6, <1>7, <2>2, <4>4 DEF IInv, MembersInv
        <5>2. bgOf[p] = c /\ where[p] = "world" => members[c][p] # "out"
          BY <1>1, <2>1, <2>2 DEF IInv, BelongsInv
        <5>3. where[p] \in {"world", "far"}
          BY <1>1, Facts
        <5>4. bgOf[p] = c => \A n : ~EntryIn(queue[bg[c].type], p, c, n)
          BY <1>9, <2>2 DEF NoEntry
        <5>5. Holds(q, c)' <=> bgOf[p] = c
          BY <4>1, <4>2, <4>4, <5>1
        <5>6. Holds(q, c) <=> (\E n : EntryIn(queue[bg[c].type], p, c, n)) \/ bgOf[p] = c
          BY <4>1, <4>4, <5>1, <5>2, <5>3
        <5> HIDE DEF L
        <5> QED BY <3>1, <4>4, <5>4, <5>5, <5>6
      <4> QED BY <4>3, <4>4
    <3> HIDE DEF L
    <3> QED BY <3>2 DEF Holders
  <2>3. IF Live(c) THEN Holders(c)' = Holders(c) \ L ELSE L = {}
    <3>1. ~Live(c) => L = {}
      BY <1>8
    <3> HIDE DEF L
    <3> QED BY <2>2, <3>1
  <2>4. /\ L \subseteq Holders(c)
        /\ bg'[c] = [status |-> bg[c].status, type |-> bg[c].type,
             invited |-> [team \in Teams |-> bg[c].invited[team] - Cardinality(OfTeam(L, team))]]
    BY <1>8
  <2> HIDE DEF L
  <2>5. Loses(c, L)
    BY ONLY <2>3, <2>4 DEF Loses
  <2> QED BY <2>5 DEF L
<1>11. /\ CountInv' /\ SameBattles
       /\ bg' \in [BGs -> [status : Status, type : Types, invited : [Teams -> Nat]]]
  <2>1. \A c \in BGs : \E L : Loses(c, L)
    BY <1>10
  <2> QED BY <1>8, <2>1, LosesKeeps
<1>12. /\ \A c : Live(c)' <=> Live(c)
       /\ \A c \in BGs : bg'[c].type = bg[c].type
  BY <1>11 DEF SameBattles
<1>13. KnownInv'
  <2>1. slot' \in [Players -> [Types -> BGs \cup {NoSlot, Waiting}]]
    BY <1>1, <1>2
  <2>2. \A q \in Players : IsFiniteSet(events'[q])
    BY <1>2, <1>6, FS_EmptySet
  <2>3. where' \in [Players -> {"world", "far", "off"}] /\ events' \in [Players -> SUBSET RemoveEvent]
    BY <1>1, <1>2
  <2> QED BY <1>1, <1>7, <1>11, <2>1, <2>2, <2>3 DEF IInv, KnownInv
<1>14. EntryInv'
  <2> SUFFICES ASSUME NEW u \in Types, NEW q \in Players, NEW c, NEW n, EntryIn(queue'[u], q, c, n)
               PROVE  /\ where'[q] # "off"
                      /\ slot'[q][u] = IF c = NoBg THEN Waiting ELSE c
                      /\ c # NoBg => /\ Live(c)' /\ bg'[c].type = u
                                     /\ [type |-> u, bg |-> c, time |-> n] \in events'[q]
    BY DEF EntryInv
  <2>1. EntryIn(queue[u], q, c, n) /\ q # p
    BY <1>4
  <2>2. /\ where[q] # "off" /\ slot[q][u] = (IF c = NoBg THEN Waiting ELSE c)
        /\ c # NoBg => /\ c \in BGs /\ Live(c) /\ bg[c].type = u
                       /\ [type |-> u, bg |-> c, time |-> n] \in events[q]
    BY <2>1, EntryFacts
  <2> QED BY <1>6, <1>12, <2>1, <2>2
<1>15. SlotInv'
  <2> SUFFICES ASSUME NEW q \in Players, NEW u \in Types, NoEntry(q, u)'
               PROVE  slot'[q][u] = NoSlot \/ InSlot(q, u)'
    BY DEF SlotInv
  <2>1. CASE q = p
    BY <1>6, <2>1
  <2>2. CASE q # p
    <3>1. slot[q][u] = NoSlot \/ InSlot(q, u)
      BY <1>5, <2>2 DEF IInv, SlotInv
    <3> QED BY <1>1, <1>6, <1>12, <2>2, <3>1 DEF InSlot
  <2> QED BY <2>1, <2>2
<1>16. BelongsInv'
  <2>0. SUFFICES ASSUME NEW q \in Players, NEW c \in BGs, NEW u \in Types,
                        where'[q] # "off", bgOf'[q] = c, Live(c)', bg'[c].type = u
                 PROVE  /\ slot'[q][u] = c
                        /\ NoEntry(q, u)'
                        /\ where'[q] = "world" => members'[c][q] # "out"
    BY DEF BelongsInv
  <2>1. q # p /\ where[q] # "off" /\ bgOf[q] = c /\ Live(c) /\ bg[c].type = u
    BY <1>1, <1>6, <1>12, <2>0
  <2>2. slot[q][u] = c /\ NoEntry(q, u) /\ (where[q] = "world" => members[c][q] # "out")
    BY <2>1 DEF IInv, BelongsInv
  <2> QED BY <1>5, <1>6, <1>7, <2>1, <2>2
<1>17. MembersInv'
  <2>0. SUFFICES ASSUME NEW c \in BGs, NEW q \in Players, members'[c][q] # "out"
                 PROVE  bgOf'[q] = c /\ Live(c)' /\ where'[q] # "far"
    BY DEF MembersInv
  <2>1. members[c][q] # "out" \/ (q = p /\ Live(c) /\ c = bgOf[p])
    BY <1>7, <2>0
  <2>2. members[c][q] # "out" => bgOf[q] = c /\ Live(c) /\ where[q] # "far"
    BY DEF IInv, MembersInv
  <2> QED BY <1>1, <1>6, <1>12, <2>1, <2>2
<1>18. FreeInv' /\ freeQueue' \in [Types -> Seq(BGs)]
  BY <1>1, <1>11, FreeStays
<1> QED BY <1>4, <1>11, <1>13, <1>14, <1>15, <1>16, <1>17, <1>18 DEF IInv

-----------------------------------------------------------------------------
(* Logging in.                                                             *)

\* Who logs in again goes on in his battleground.
LEMMA BackKeeps ==
  ASSUME IInv, NEW p \in Players, NEW b \in BGs, b = bgOf[p], where[p] = "off", Live(b),
         members[b][p] # "out",
         where' = [where EXCEPT ![p] = "world"],
         slot' = [slot EXCEPT ![p][bg[b].type] = b],
         members' = [members EXCEPT ![b][p] = "in"],
         offline' = [offline EXCEPT ![b] = Kept(@, Players \ {p})],
         UNCHANGED <<bgOf, bg, scheduled, freeQueue, events, queue>>
  PROVE  IInv'
<1> DEFINE t == bg[b].type
<1>1. /\ where \in [Players -> {"world", "far", "off"}]
      /\ slot \in [Players -> [Types -> BGs \cup {NoSlot, Waiting}]]
      /\ members \in [BGs -> [Players -> {"out", "in", "away"}]]
      /\ offline \in [BGs -> Seq(Players)]
      /\ t \in Types
  BY Facts DEF KnownInv
<1>2. /\ bgOf' = bgOf /\ bg' = bg /\ events' = events /\ queue' = queue
      /\ \A c : Live(c)' <=> Live(c)
  BY DEF Live
<1>3. /\ \A q \in Players : where'[q] = IF q = p THEN "world" ELSE where[q]
      /\ \A q \in Players, u \in Types : slot'[q][u] = IF q = p /\ u = t THEN b ELSE slot[q][u]
      /\ \A c \in BGs, q \in Players : members'[c][q] # "out" <=> members[c][q] # "out"
  <2>1. slot' = [slot EXCEPT ![p][t] = b]
    OBVIOUS
  <2> HIDE DEF t
  <2>2. \A q \in Players, u \in Types : slot'[q][u] = IF q = p /\ u = t THEN b ELSE slot[q][u]
    BY <1>1, <2>1
  <2>3. \A c \in BGs, q \in Players : members'[c][q] # "out" <=> members[c][q] # "out"
    BY <1>1
  <2> QED BY <1>1, <2>2, <2>3
<1>4. KnownInv' /\ QueueInv'
  <2>1. offline' \in [BGs -> Seq(Players)]
    <3> DEFINE s == offline[b]
               k == Kept(s, Players \ {p})
    <3>1. s \in Seq(Players)
      BY <1>1
    <3>2. offline' = [offline EXCEPT ![b] = k]
      OBVIOUS
    <3> HIDE DEF s
    <3>3. k \in Seq(Players)
      BY <3>1, KeptPlacement
    <3> HIDE DEF k
    <3> QED BY <1>1, <3>2, <3>3
  <2>2. slot' \in [Players -> [Types -> BGs \cup {NoSlot, Waiting}]]
    BY <1>1
  <2>3. members' \in [BGs -> [Players -> {"out", "in", "away"}]] /\ where' \in [Players -> {"world", "far", "off"}]
    BY <1>1
  <2> QED BY <2>1, <2>2, <2>3 DEF IInv, KnownInv, QueueInv
<1>5. \A u \in Types : \A c, n : ~EntryIn(queue[u], p, c, n)
  BY EntryFacts
<1>6. EntryInv'
  <2>0. SUFFICES ASSUME NEW u \in Types, NEW q \in Players, NEW c, NEW n, EntryIn(queue'[u], q, c, n)
                 PROVE  /\ where'[q] # "off"
                        /\ slot'[q][u] = IF c = NoBg THEN Waiting ELSE c
                        /\ c # NoBg => /\ Live(c)' /\ bg'[c].type = u
                                       /\ [type |-> u, bg |-> c, time |-> n] \in events'[q]
    BY DEF EntryInv
  <2>1. EntryIn(queue[u], q, c, n) /\ q # p
    BY <1>2, <1>5, <2>0
  <2>2. /\ where[q] # "off" /\ slot[q][u] = (IF c = NoBg THEN Waiting ELSE c)
        /\ c # NoBg => /\ c \in BGs /\ Live(c) /\ bg[c].type = u
                       /\ [type |-> u, bg |-> c, time |-> n] \in events[q]
    BY <2>1, EntryFacts
  <2> QED BY <1>2, <1>3, <2>1, <2>2
<1>7. \A q, u : NoEntry(q, u)' <=> NoEntry(q, u)
  BY <1>2 DEF NoEntry
<1>8. SlotInv'
  <2>0. SUFFICES ASSUME NEW q \in Players, NEW u \in Types, NoEntry(q, u)'
                 PROVE  slot'[q][u] = NoSlot \/ InSlot(q, u)'
    BY DEF SlotInv
  <2>1. slot[q][u] = NoSlot \/ InSlot(q, u)
    BY <1>7, <2>0 DEF IInv, SlotInv
  <2>2. CASE q = p /\ u = t
    <3>1. slot'[q][u] = b /\ bgOf'[q] = b /\ where'[q] # "off" /\ Live(b)' /\ bg'[b].type = u
      BY <1>2, <1>3, <2>2
    <3> QED BY <3>1 DEF InSlot
  <2>3. CASE q = p /\ u # t
    <3>1. ~InSlot(q, u)
      BY <2>3 DEF InSlot
    <3> HIDE DEF t
    <3> QED BY <1>3, <2>1, <2>3, <3>1
  <2>4. CASE q # p
    <3> HIDE DEF t
    <3> QED BY <1>2, <1>3, <2>1, <2>4 DEF InSlot
  <2> QED BY <2>2, <2>3, <2>4
<1>9. BelongsInv'
  <2>0. SUFFICES ASSUME NEW q \in Players, NEW c \in BGs, NEW u \in Types,
                        where'[q] # "off", bgOf'[q] = c, Live(c)', bg'[c].type = u
                 PROVE  /\ slot'[q][u] = c
                        /\ NoEntry(q, u)'
                        /\ where'[q] = "world" => members'[c][q] # "out"
    BY DEF BelongsInv
  <2>1. bgOf[q] = c /\ Live(c) /\ bg[c].type = u
    BY <1>2, <2>0
  <2>2. CASE q = p
    <3>1. c = b /\ u = t
      BY <2>1, <2>2
    <3>2. NoEntry(q, u)
      BY <1>5, <2>2 DEF NoEntry
    <3> HIDE DEF t
    <3> QED BY <1>3, <1>7, <2>2, <3>1, <3>2
  <2>3. CASE q # p
    <3>1. where[q] # "off" /\ (where'[q] = "world" <=> where[q] = "world") /\ slot'[q][u] = slot[q][u]
      BY <1>3, <2>0, <2>3
    <3>2. slot[q][u] = c /\ NoEntry(q, u) /\ (where[q] = "world" => members[c][q] # "out")
      BY <2>1, <3>1 DEF IInv, BelongsInv
    <3> QED BY <1>3, <1>7, <3>1, <3>2
  <2> QED BY <2>2, <2>3
<1>10. MembersInv'
  <2>0. SUFFICES ASSUME NEW c \in BGs, NEW q \in Players, members'[c][q] # "out"
                 PROVE  bgOf'[q] = c /\ Live(c)' /\ where'[q] # "far"
    BY DEF MembersInv
  <2>1. members[c][q] # "out"
    BY <1>3, <2>0
  <2>2. bgOf[q] = c /\ Live(c) /\ where[q] # "far"
    BY <2>1 DEF IInv, MembersInv
  <2> QED BY <1>2, <1>3, <2>2
<1>11. FreeInv' /\ freeQueue' \in [Types -> Seq(BGs)]
  BY DEF IInv, FreeInv
<1>12. CountInv'
  <2>1. ASSUME NEW c \in BGs PROVE Holders(c)' = Holders(c)
    <3>1. \A q \in Players : where'[q] = "far" <=> where[q] = "far"
      BY <1>3
    <3>2. \A q \in Players : Holds(q, c)' <=> Holds(q, c)
      BY <1>2, <1>3, <3>1 DEF Holds
    <3> QED BY <3>2 DEF Holders
  <2> QED BY <1>2, <2>1 DEF IInv, CountInv, OfTeam
<1> QED BY <1>4, <1>6, <1>8, <1>9, <1>10, <1>11, <1>12 DEF IInv

\* The players in R are removed from a battleground; those in the world go
\* elsewhere, and then belong to none, as may others who are offline.
LEMMA RemovedKeep ==
  ASSUME IInv, NEW b, NEW R \in SUBSET Players, BattleLeft(b, R),
         \A q \in R : b \in BGs /\ members[b][q] # "out",
         QueueInv', queue' = queue, UNCHANGED events,
         offline' \in [BGs -> Seq(Players)],
         where' \in [Players -> {"world", "far", "off"}],
         bgOf' \in [Players -> BGs \cup {NoBg}],
         \A q \in Players : \/ /\ where'[q] = where[q] /\ bgOf'[q] = bgOf[q]
                               /\ q \notin R \/ where[q] = "off"
                            \/ /\ q \in R /\ where[q] = "world"
                               /\ where'[q] = "far" /\ bgOf'[q] = NoBg
                            \/ /\ where[q] = "off" /\ where'[q] = "world" /\ bgOf'[q] = NoBg
                               /\ \A c \in BGs : members'[c][q] = "out"
  PROVE  IInv'
<1>1. /\ \A c \in BGs, q \in Players :
           members'[c][q] = IF c = b /\ q \in R THEN "out" ELSE members[c][q]
      /\ \A q \in Players, t \in Types :
           slot'[q][t] = IF q \in R /\ where[q] = "world" /\ t = bg[b].type THEN NoSlot ELSE slot[q][t]
  BY DEF BattleLeft
<1>2. \A q \in R : /\ b \in BGs /\ bgOf[q] = b /\ Live(b) /\ where[q] # "far"
                   /\ \A u \in Types : where[q] # "off" /\ bg[b].type = u => NoEntry(q, u)
  <2> TAKE q \in R
  <2>1. b \in BGs /\ bgOf[q] = b /\ Live(b) /\ where[q] # "far"
    BY DEF IInv, MembersInv
  <2> QED BY <2>1 DEF IInv, BelongsInv
<1>3. \A q \in Players : where[q] = "off" => \A u \in Types : \A c, n : ~EntryIn(queue[u], q, c, n)
  BY EntryFacts
<1>4. /\ \A u \in Types : \A q, c, n : EntryIn(queue'[u], q, c, n) <=> EntryIn(queue[u], q, c, n)
      /\ \A q, u : NoEntry(q, u)' <=> NoEntry(q, u)
  BY DEF NoEntry
<1>5. ASSUME NEW c \in BGs PROVE Loses(c, IF c = b THEN R ELSE {})
  <2>1. R \subseteq Holders(b)
    BY DEF Holders, Holds
  <2>2. ASSUME Live(c) PROVE Holders(c)' = Holders(c) \ (IF c = b THEN R ELSE {})
    <3>1. bg'[c].type = bg[c].type /\ bg[c].type \in Types /\ c # NoBg
      BY Facts, Constants DEF BattleLeft
    <3>2. ASSUME NEW q \in Players PROVE Holds(q, c)' <=> Holds(q, c) /\ ~(c = b /\ q \in R)
      <4>1. /\ Holds(q, c) <=> \/ \E n : EntryIn(queue[bg[c].type], q, c, n)
                               \/ where[q] = "far" /\ bgOf[q] = c
                               \/ members[c][q] # "out"
            /\ Holds(q, c)' <=> \/ \E n : EntryIn(queue[bg[c].type], q, c, n)
                                \/ where'[q] = "far" /\ bgOf'[q] = c
                                \/ members'[c][q] # "out"
        BY <3>1 DEF Holds
      <4>2. members'[c][q] # "out" <=> members[c][q] # "out" /\ ~(c = b /\ q \in R)
        BY <1>1
      <4>3. (where'[q] = "far" /\ bgOf'[q] = c) <=> (where[q] = "far" /\ bgOf[q] = c)
        BY <3>1
      <4>4. c = b /\ q \in R => \A n : ~EntryIn(queue[bg[c].type], q, c, n)
        BY <1>2, <1>3, <3>1 DEF NoEntry
      <4>5. c = b /\ q \in R => ~(where[q] = "far" /\ bgOf[q] = c)
        BY <1>2
      <4> QED BY ONLY <4>1, <4>2, <4>3, <4>4, <4>5
    <3> QED BY <3>2 DEF Holders
  <2>3. Live(c) \/ R = {} \/ c # b
    BY <1>2
  <2> QED BY <2>1, <2>2, <2>3, LeftLoses
<1>6. /\ CountInv' /\ SameBattles
      /\ bg' \in [BGs -> [status : Status, type : Types, invited : [Teams -> Nat]]]
  <2>1. DOMAIN bg' = BGs /\ bg' = [c \in DOMAIN bg' |-> bg'[c]]
    BY DEF BattleLeft
  <2>2. \A c \in BGs : \E L : Loses(c, L)
    BY <1>5
  <2> QED BY <2>1, <2>2, LosesKeeps
<1>7. /\ \A c : Live(c)' <=> Live(c)
      /\ \A c \in BGs : bg'[c].type = bg[c].type
  BY <1>6 DEF SameBattles
<1>8. KnownInv'
  <2>1. /\ members' \in [BGs -> [Players -> {"out", "in", "away"}]] /\ scheduled' \subseteq Types
        /\ slot' \in [Players -> [Types -> BGs \cup {NoSlot, Waiting}]]
    BY DEF BattleLeft
  <2> QED BY <1>6, <2>1 DEF IInv, KnownInv
<1>9. EntryInv'
  <2>0. SUFFICES ASSUME NEW u \in Types, NEW q \in Players, NEW c, NEW n, EntryIn(queue'[u], q, c, n)
                 PROVE  /\ where'[q] # "off"
                        /\ slot'[q][u] = IF c = NoBg THEN Waiting ELSE c
                        /\ c # NoBg => /\ Live(c)' /\ bg'[c].type = u
                                       /\ [type |-> u, bg |-> c, time |-> n] \in events'[q]
    BY DEF EntryInv
  <2>1. EntryIn(queue[u], q, c, n)
    BY <1>4, <2>0
  <2>2. /\ where[q] # "off" /\ slot[q][u] = (IF c = NoBg THEN Waiting ELSE c)
        /\ c # NoBg => /\ c \in BGs /\ Live(c) /\ bg[c].type = u
                       /\ [type |-> u, bg |-> c, time |-> n] \in events[q]
    BY ONLY IInv, u \in Types, <2>1, EntryFacts
  <2>3. slot'[q][u] = slot[q][u]
    BY <1>1, <1>2, <2>1, <2>2 DEF NoEntry
  <2>4. where'[q] # "off"
    BY <2>2
  <2> QED BY <1>7, <2>2, <2>3, <2>4
<1>10. SlotInv'
  <2>0. SUFFICES ASSUME NEW q \in Players, NEW u \in Types, NoEntry(q, u)'
                 PROVE  slot'[q][u] = NoSlot \/ InSlot(q, u)'
    BY DEF SlotInv
  <2>1. slot[q][u] = NoSlot \/ InSlot(q, u)
    BY <1>4, <2>0 DEF IInv, SlotInv
  <2>2. CASE where[q] = "off"
    BY <1>1, <2>1, <2>2 DEF InSlot
  <2>3. CASE q \in R /\ where[q] = "world"
    <3>1. InSlot(q, u) => u = bg[b].type
      BY <1>2, <2>3 DEF InSlot
    <3> QED BY <1>1, <2>1, <2>3, <3>1
  <2>4. CASE where[q] # "off" /\ ~(q \in R /\ where[q] = "world")
    <3>1. where'[q] = where[q] /\ bgOf'[q] = bgOf[q] /\ slot'[q][u] = slot[q][u]
      BY <1>1, <2>4
    <3> QED BY <1>7, <2>1, <3>1 DEF InSlot
  <2> QED BY <2>2, <2>3, <2>4
<1>11. BelongsInv'
  <2>0. SUFFICES ASSUME NEW q \in Players, NEW c \in BGs, NEW u \in Types,
                        where'[q] # "off", bgOf'[q] = c, Live(c)', bg'[c].type = u
                 PROVE  /\ slot'[q][u] = c
                        /\ NoEntry(q, u)'
                        /\ where'[q] = "world" => members'[c][q] # "out"
    BY DEF BelongsInv
  <2>1. where'[q] = where[q] /\ bgOf[q] = c /\ Live(c) /\ bg[c].type = u /\ where[q] # "off" /\ q \notin R
    BY <1>7, <2>0, Constants
  <2>2. slot[q][u] = c /\ NoEntry(q, u) /\ (where[q] = "world" => members[c][q] # "out")
    <3>1. BelongsInv
      BY DEF IInv
    <3> QED BY ONLY q \in Players, c \in BGs, u \in Types, <2>1, <3>1 DEF BelongsInv
  <2> QED BY <1>1, <1>4, <2>1, <2>2
<1>12. MembersInv'
  <2>0. SUFFICES ASSUME NEW c \in BGs, NEW q \in Players, members'[c][q] # "out"
                 PROVE  bgOf'[q] = c /\ Live(c)' /\ where'[q] # "far"
    BY DEF MembersInv
  <2>1. members[c][q] # "out" /\ ~(c = b /\ q \in R)
    BY <1>1, <2>0
  <2>2. bgOf[q] = c /\ Live(c) /\ where[q] # "far"
    BY <2>1 DEF IInv, MembersInv
  <2>3. q \notin R
    BY <1>2, <2>1, <2>2
  <2> QED BY <1>7, <2>0, <2>2, <2>3
<1>13. FreeInv' /\ freeQueue' \in [Types -> Seq(BGs)]
  BY DEF BattleLeft
<1> QED BY <1>6, <1>8, <1>9, <1>10, <1>11, <1>12, <1>13 DEF IInv

-----------------------------------------------------------------------------
(* Removed by the battleground.                                            *)

\* Or, when it is over, where he came from: either way the state is right.
LEMMA LoginKeeps ==
  ASSUME IInv, NEW p \in Players, LoadFromDB(p)
  PROVE  IInv'
<1>0. PICK b : b = bgOf[p]
  OBVIOUS
<1> DEFINE playerAtBg == Live(b) /\ members[b][p] # "out"
           back == playerAtBg /\ bg[b].status # "wait leave"
<1>1. /\ where[p] = "off" /\ where' = [where EXCEPT ![p] = "world"]
      /\ UNCHANGED <<events, queue>>
  BY DEF LoadFromDB
<1>2. IF back
        THEN /\ slot' = [slot EXCEPT ![p][bg[b].type] = b]
             /\ members' = [members EXCEPT ![b][p] = "in"]
             /\ offline' = [offline EXCEPT ![b] = Kept(@, Players \ {p})]
             /\ UNCHANGED <<bgOf, bg, scheduled, freeQueue>>
        ELSE /\ IF playerAtBg
                  THEN RemovePlayerAtLeave({p}, b)
                  ELSE UNCHANGED <<members, bg, slot, scheduled, freeQueue>>
             /\ bgOf' = [bgOf EXCEPT ![p] = NoBg]
             /\ UNCHANGED offline
  BY <1>0 DEF LoadFromDB
<1>3. CASE back
  <2>1. b \in BGs /\ Live(b) /\ members[b][p] # "out"
    BY <1>3 DEF Live
  <2>2. /\ slot' = [slot EXCEPT ![p][bg[b].type] = b]
        /\ members' = [members EXCEPT ![b][p] = "in"]
        /\ offline' = [offline EXCEPT ![b] = Kept(@, Players \ {p})]
        /\ UNCHANGED <<bgOf, bg, scheduled, freeQueue, events, queue>>
    BY <1>1, <1>2, <1>3
  <2> HIDE DEF back, playerAtBg
  <2> QED BY <1>0, <1>1, <2>1, <2>2, BackKeeps
<1>4. CASE ~back
  <2> DEFINE R == IF playerAtBg THEN {p} ELSE {}
  <2>1. /\ bgOf' = [bgOf EXCEPT ![p] = NoBg] /\ offline' = offline
        /\ IF playerAtBg
             THEN RemovePlayerAtLeave({p}, b)
             ELSE UNCHANGED <<members, bg, slot, scheduled, freeQueue>>
    BY <1>2, <1>4
  <2>2. BattleLeft(b, R)
    <3>1. CASE playerAtBg
      <4>1. b \in BGs /\ Live(b) /\ RemovePlayerAtLeave({p}, b) /\ {p} \in SUBSET Players
        BY <2>1, <3>1 DEF Live
      <4>2. Participants({p}, b) = {p}
        BY <3>1 DEF Participants
      <4>3. BattleLeft(b, Participants({p}, b))
        BY <4>1, LeftFields
      <4> QED BY <3>1, <4>2, <4>3
    <3>2. CASE ~playerAtBg
      <4>1. members' = members /\ bg' = bg /\ slot' = slot /\ scheduled' = scheduled /\ freeQueue' = freeQueue
        BY <2>1, <3>2
      <4>2. BattleLeft(b, {})
        BY <4>1, NobodyLeft
      <4> QED BY <3>2, <4>2
    <3> QED BY <3>1, <3>2
  <2>3. R \in SUBSET Players /\ \A q \in R : b \in BGs /\ members[b][q] # "out"
    BY DEF Live
  <2>4. \A c \in BGs : members'[c][p] = "out"
    <3> TAKE c \in BGs
    <3>1. members'[c][p] = IF c = b /\ p \in R THEN "out" ELSE members[c][p]
      BY <2>2 DEF BattleLeft
    <3>2. members[c][p] # "out" => c = b /\ Live(b)
      BY <1>0 DEF IInv, MembersInv
    <3> QED BY <3>1, <3>2
  <2> HIDE DEF R, playerAtBg, back
  <2>5. /\ where \in [Players -> {"world", "far", "off"}] /\ bgOf \in [Players -> BGs \cup {NoBg}]
        /\ offline \in [BGs -> Seq(Players)]
    BY DEF IInv, KnownInv
  <2>6. /\ where' \in [Players -> {"world", "far", "off"}] /\ bgOf' \in [Players -> BGs \cup {NoBg}]
        /\ offline' \in [BGs -> Seq(Players)]
        /\ where'[p] = "world" /\ bgOf'[p] = NoBg
        /\ \A q \in Players : q # p => where'[q] = where[q] /\ bgOf'[q] = bgOf[q]
    BY <1>1, <2>1, <2>5
  <2>7. \A q \in R : q = p
    BY DEF R
  <2>8. QueueInv' /\ queue' = queue
    BY <1>1, QueueStays
  <2>9. UNCHANGED events
    BY <1>1
  <2>10. \A q \in Players : \/ /\ where'[q] = where[q] /\ bgOf'[q] = bgOf[q]
                               /\ q \notin R \/ where[q] = "off"
                            \/ /\ q \in R /\ where[q] = "world"
                               /\ where'[q] = "far" /\ bgOf'[q] = NoBg
                            \/ /\ where[q] = "off" /\ where'[q] = "world" /\ bgOf'[q] = NoBg
                               /\ \A c \in BGs : members'[c][q] = "out"
    BY <1>1, <2>4, <2>6, <2>7
  <2> QED BY <2>2, <2>3, <2>6, <2>8, <2>9, <2>10, RemovedKeep
<1> QED BY <1>3, <1>4

\* Those expelled were members.
LEMMA ExpelKeeps ==
  ASSUME IInv, NEW b \in BGs, Live(b), NEW leave \in SUBSET Players,
         \A q \in leave : members[b][q] # "out",
         Expel(leave, b), offline' \in [BGs -> Seq(Players)]
  PROVE  IInv'
<1>1. /\ RemovePlayerAtLeave(leave, b)
      /\ bgOf' = [p \in Players |-> IF p \in Found(leave) THEN NoBg ELSE bgOf[p]]
      /\ where' = [p \in Players |-> IF p \in Found(leave) THEN "far" ELSE where[p]]
      /\ UNCHANGED <<events, queue>>
  BY DEF Expel
<1>2. BattleLeft(b, leave)
  <2>1. Participants(leave, b) = leave
    BY DEF Participants
  <2>2. BattleLeft(b, Participants(leave, b))
    BY <1>1, LeftFields
  <2> QED BY <2>1, <2>2
<1>3. \A q : q \in Found(leave) <=> q \in leave /\ where[q] = "world"
  BY DEF Found
<1>4. where \in [Players -> {"world", "far", "off"}] /\ bgOf \in [Players -> BGs \cup {NoBg}]
  BY DEF IInv, KnownInv
<1>5. where' \in [Players -> {"world", "far", "off"}] /\ bgOf' \in [Players -> BGs \cup {NoBg}]
  BY <1>1, <1>4
<1>6. \A q \in leave : where[q] # "far"
  BY DEF IInv, MembersInv
<1>7. \A q \in Players : \/ /\ where'[q] = where[q] /\ bgOf'[q] = bgOf[q]
                            /\ q \notin leave \/ where[q] = "off"
                         \/ /\ q \in leave /\ where[q] = "world"
                            /\ where'[q] = "far" /\ bgOf'[q] = NoBg
                         \/ /\ where[q] = "off" /\ where'[q] = "world" /\ bgOf'[q] = NoBg
                            /\ \A c \in BGs : members'[c][q] = "out"
  <2> TAKE q \in Players
  <2>1. CASE q \in Found(leave)
    BY <1>1, <1>3, <2>1
  <2>2. CASE q \notin Found(leave)
    <3>1. where'[q] = where[q] /\ bgOf'[q] = bgOf[q]
      BY <1>1, <2>2
    <3>2. q \notin leave \/ where[q] = "off"
      BY <1>3, <1>4, <1>6, <2>2
    <3> QED BY <3>1, <3>2
  <2> QED BY <2>1, <2>2
<1>8. QueueInv' /\ queue' = queue
  BY <1>1, QueueStays
<1>9. UNCHANGED events
  BY <1>1
<1> QED BY <1>2, <1>5, <1>7, <1>8, <1>9, RemovedKeep

\* Who was offline for too long is removed.
LEMMA RemoveOfflineKeeps ==
  ASSUME IInv, NEW b \in BGs, RemoveOffline(b)
  PROVE  IInv'
<1> DEFINE p == Head(offline[b])
<1>1. /\ Live(b) /\ offline[b] # <<>> /\ members[b][p] # "out"
      /\ Expel({p}, b) /\ offline' = [offline EXCEPT ![b] = Tail(@)]
  BY DEF RemoveOffline
<1>2. offline \in [BGs -> Seq(Players)]
  BY DEF IInv, KnownInv
<1>3. p \in Players /\ Tail(offline[b]) \in Seq(Players)
  BY <1>1, <1>2
<1>4. offline' \in [BGs -> Seq(Players)]
  BY <1>1, <1>2, <1>3
<1> HIDE DEF p
<1>5. {p} \in SUBSET Players /\ \A q \in {p} : members[b][q] # "out"
  BY <1>1, <1>3
<1> QED BY <1>1, <1>4, <1>5, ExpelKeeps

\* Two minutes after the end all are removed.
LEMMA CloseKeeps ==
  ASSUME IInv, NEW b \in BGs, CloseBattle(b)
  PROVE  IInv'
<1> DEFINE R == {p \in Players : members[b][p] # "out"}
<1>1. Expel(R, b) /\ offline' = offline /\ Live(b)
  BY DEF CloseBattle, Live
<1>2. R \in SUBSET Players /\ \A q \in R : members[b][q] # "out"
  OBVIOUS
<1>3. offline' \in [BGs -> Seq(Players)]
  BY <1>1 DEF IInv, KnownInv
<1> HIDE DEF R
<1> QED BY <1>1, <1>2, <1>3, ExpelKeeps

-----------------------------------------------------------------------------
(* The update of a queue.                                                  *)

\* One sequence after another with nothing in common.
LEMMA OnceInBoth ==
  ASSUME NEW f \in Seq(BGs), NEW g \in Seq(BGs),
         \A i, j \in DOMAIN f : f[i] = f[j] => i = j,
         \A i, j \in DOMAIN g : g[i] = g[j] => i = j,
         \A i \in DOMAIN f, j \in DOMAIN g : f[i] # g[j]
  PROVE  /\ f \o g \in Seq(BGs)
         /\ \A i, j \in DOMAIN (f \o g) : (f \o g)[i] = (f \o g)[j] => i = j
         /\ \A i \in DOMAIN (f \o g) : \/ \E j \in DOMAIN f : (f \o g)[i] = f[j]
                                       \/ \E j \in DOMAIN g : (f \o g)[i] = g[j]
<1> DEFINE h == f \o g
           n == Len(f)
           m == Len(g)
<1>1. /\ h \in Seq(BGs) /\ n \in Nat /\ m \in Nat
      /\ DOMAIN f = 1..n /\ DOMAIN g = 1..m /\ DOMAIN h = 1..(n + m)
  OBVIOUS
<1>2. \A i \in DOMAIN h : h[i] = IF i <= n THEN f[i] ELSE g[i - n]
  OBVIOUS
<1> HIDE DEF h, n, m
<1>3. \A i \in DOMAIN h : i \in Nat /\ (IF i <= n THEN i \in DOMAIN f ELSE i - n \in DOMAIN g)
  BY <1>1
<1>4. \A i, j \in DOMAIN h : h[i] = h[j] => i = j
  <2> TAKE i, j \in DOMAIN h
  <2>1. CASE i <= n /\ j <= n
    BY <1>2, <1>3, <2>1
  <2>2. CASE ~(i <= n) /\ ~(j <= n)
    <3>1. h[i] = h[j] => i - n = j - n
      BY <1>2, <1>3, <2>2
    <3> QED BY <1>1, <1>3, <3>1
  <2>3. CASE i <= n /\ ~(j <= n)
    BY <1>2, <1>3, <2>3
  <2>4. CASE ~(i <= n) /\ j <= n
    BY <1>2, <1>3, <2>4
  <2> QED BY <2>1, <2>2, <2>3, <2>4
<1>5. \A i \in DOMAIN h : (\E j \in DOMAIN f : h[i] = f[j]) \/ \E j \in DOMAIN g : h[i] = g[j]
  BY <1>2, <1>3
<1> QED BY <1>1, <1>4, <1>5 DEF h

\* Those not in use are known to nobody.
LEMMA NewUnknown ==
  ASSUME IInv, NEW t \in Types, NEW b \in NewBGs(t)
  PROVE  /\ b \in BGs /\ ~Live(b) /\ b \notin Range(freeQueue[t])
         /\ \A p \in Players : bgOf[p] # b /\ members[b][p] = "out"
<1>1. b \in BGs /\ ~Live(b) /\ \A p \in Players : bgOf[p] # b
  BY Constants DEF NewBGs
<1>2. \A i \in DOMAIN freeQueue[t] : freeQueue[t][i] # b
  BY <1>1 DEF IInv, FreeInv, Live
<1>3. \A p \in Players : members[b][p] = "out"
  BY <1>1 DEF IInv, MembersInv
<1> QED BY <1>1, <1>2, <1>3 DEF Range

\* Battlegrounds before and after an update that invites inv, of them those
\* in C are new.
BattlesUpdated(t, C, inv) ==
  /\ DOMAIN bg' = BGs /\ bg' = [b \in DOMAIN bg' |-> bg'[b]]
  /\ \A b \in BGs :
       bg'[b] = [status |-> IF b \in C THEN "running" ELSE bg[b].status,
                 type |-> IF b \in C THEN t ELSE bg[b].type,
                 invited |-> [team \in Teams |-> (IF b \in C THEN 0 ELSE bg[b].invited[team])
                                                   + Cardinality(Of(inv, b, team))]]

\* Players and queues before and after it.
PlayersUpdated(t, inv) ==
  /\ \A q \in Players, u \in Types :
       slot'[q][u] = IF u = t /\ inv[q] # NoBg THEN inv[q] ELSE slot[q][u]
  /\ \A q \in Players :
       events'[q] = IF inv[q] # NoBg
                      THEN events[q] \cup {[type |-> t, bg |-> inv[q], time |-> NewTime(inv[q])]}
                      ELSE events[q]
  /\ \A q \in Players, u \in Types : \A b, n :
       EntryIn(queue'[u], q, b, n) <=>
         IF u = t /\ inv[q] # NoBg THEN b = inv[q] /\ n = NewTime(b)
                                   ELSE EntryIn(queue[u], q, b, n)

\* All that an update does.
AfterUpdate(t, C, inv) ==
  /\ C \subseteq NewBGs(t)
  /\ inv \in [Players -> BGs \cup {NoBg}]
  /\ \A q \in Players : inv[q] # NoBg =>
       /\ \E n : EntryIn(queue[t], q, NoBg, n)
       /\ inv[q] \in Range(freeQueue[t]) \cup C
  /\ \A b \in BGs, team \in Teams :
       /\ b \in C => Cardinality(Of(inv, b, team)) <= MaxPlayersPerTeam[t]
       /\ b \in Range(freeQueue[t]) => Cardinality(Of(inv, b, team)) <= GetFreeSlotsForTeam(b, team)
  /\ BattlesUpdated(t, C, inv) /\ PlayersUpdated(t, inv)
  /\ QueueInv'
  /\ slot' \in [Players -> [Types -> BGs \cup {NoSlot, Waiting}]]
  /\ events' \in [Players -> SUBSET RemoveEvent]
  /\ freeQueue' \in [Types -> Seq(BGs)] /\ FreeInv'

\* There is as much room as is free.
LEMMA FreeSlots ==
  ASSUME IInv, NEW b \in BGs, NEW team \in Teams
  PROVE  /\ GetFreeSlotsForTeam(b, team) \in Nat
         /\ Live(b) => bg[b].invited[team] + GetFreeSlotsForTeam(b, team) = MaxPlayersPerTeam[bg[b].type]
<1> DEFINE max == MaxPlayersPerTeam[bg[b].type]
           n == bg[b].invited[team]
<1>1. n \in Nat /\ max \in Nat
  BY Facts, Constants
<1>2. Live(b) => n <= max
  BY DEF IInv, CountInv
<1>3. GetFreeSlotsForTeam(b, team) = IF n < max THEN max - n ELSE 0
  BY DEF GetFreeSlotsForTeam
<1> HIDE DEF n, max
<1>4. /\ GetFreeSlotsForTeam(b, team) \in Nat
      /\ Live(b) => n + GetFreeSlotsForTeam(b, team) = max
  BY <1>1, <1>2, <1>3
<1> QED BY <1>4 DEF n, max

\* An update of a queue does what AfterUpdate says.
LEMMA UpdateFields ==
  ASSUME IInv, NEW t \in Types, UpdateQueue(t),
         \A p \in Players : Queued(p, t) => where[p] = "world"
  PROVE  \E C, inv : AfterUpdate(t, C, inv)
<1> DEFINE F == Range(freeQueue[t])
           room == [b \in BGs |-> [team \in Teams |->
                      IF b \in F THEN GetFreeSlotsForTeam(b, team) ELSE MaxPlayersPerTeam[t]]]
<1>1. /\ Well(queue[t], t) /\ queue \in [Types -> [Lists -> Seq(GroupInfo)]]
      /\ freeQueue \in [Types -> Seq(BGs)]
      /\ \A i, j \in DOMAIN freeQueue[t] : freeQueue[t][i] = freeQueue[t][j] => i = j
  BY DEF IInv, QueueInv, FreeInv
<1>2. \A b \in BGs : NewTime(b) \in Nat
  <2>1. /\ \A u \in Types : queue[u] \in [Lists -> Seq(GroupInfo)]
        /\ DOMAIN events = Players /\ \A p \in Players : IsFiniteSet(events[p])
    BY DEF IInv, QueueInv, KnownInv
  <2> QED BY <2>1, NewTimes
<1>3. \A b \in BGs, team \in Teams : GetFreeSlotsForTeam(b, team) \in Nat
  BY FreeSlots
<1>4. F \subseteq BGs
  BY <1>1 DEF Range
<1>5. \A b \in BGs, team \in Teams : room[b][team] = IF b \in F THEN GetFreeSlotsForTeam(b, team) ELSE MaxPlayersPerTeam[t]
  OBVIOUS
<1>6. \A b \in NewBGs(t) : b \in BGs /\ b \notin F /\ ~Live(b)
  BY NewUnknown
<1> HIDE DEF room, F
<1>7. PICK after, created, inv : Updated(t, after, created, inv, room)
  <2>1. \A b \in Range(freeQueue[t]) : \A team \in Teams : room[b][team] = GetFreeSlotsForTeam(b, team)
    BY <1>4, <1>5 DEF F
  <2>2. \A b \in NewBGs(t) : /\ b \in BGs /\ b \notin Range(freeQueue[t])
                             /\ \A team \in Teams : room[b][team] = MaxPlayersPerTeam[t]
    BY <1>5, <1>6 DEF F
  <2>3. freeQueue[t] \in Seq(BGs)
    BY <1>1
  <2> QED BY <1>1, <1>2, <1>3, <2>1, <2>2, <2>3, UpdateStage
<1> DEFINE C == Range(created)
<1>8. /\ Invites(t, after, created)
      /\ Stage(after, t, inv, F \cup C, room)
      /\ created \in Seq(BGs) /\ C \subseteq NewBGs(t)
      /\ \A i, j \in DOMAIN created : created[i] = created[j] => i = j
  BY <1>7 DEF Updated, F
<1>9. /\ Well(after, t) /\ Invitation(after, queue[t], inv)
      /\ \A q \in Players : inv[q] = NoBg \/ inv[q] \in F \cup C
      /\ \A b \in F \cup C, team \in Teams : Cardinality(Of(inv, b, team)) <= room[b][team]
  BY <1>8 DEF Stage
<1>10. Reached(t, after) = inv
  BY <1>1, <1>9, AllReached
<1>11. /\ queue' = [queue EXCEPT ![t] = after]
       /\ bg' = [b \in BGs |->
            IF b \in C
              THEN [status |-> "running", type |-> t,
                    invited |-> [team \in Teams |-> Cardinality(Of(inv, b, team))]]
              ELSE [bg[b] EXCEPT !.invited = [team \in Teams |-> @[team] + Cardinality(Of(inv, b, team))]]]
       /\ slot' = [p \in Players |->
            IF inv[p] # NoBg THEN [slot[p] EXCEPT ![t] = inv[p]] ELSE slot[p]]
       /\ events' = [p \in Players |->
            IF inv[p] # NoBg
              THEN events[p] \cup {[type |-> t, bg |-> inv[p], time |-> NewTime(inv[p])]}
              ELSE events[p]]
       /\ freeQueue' = [freeQueue EXCEPT
            ![t] = created \o Kept(@, {b \in BGs : Size(b) < 2 * MaxPlayersPerTeam[t]})]
  BY <1>8, <1>10 DEF Invites, Of
<1>12. /\ inv \in [Players -> BGs \cup {NoBg}]
       /\ \A q \in Players : inv[q] # NoBg => \E n : EntryIn(queue[t], q, NoBg, n)
       /\ \A q \in Players : \A b, n : EntryIn(after, q, b, n) <=>
            IF inv[q] = NoBg THEN EntryIn(queue[t], q, b, n) ELSE b = inv[q] /\ n = NewTime(b)
  BY <1>9 DEF Invitation
<1>13. BattlesUpdated(t, C, inv)
  <2> HIDE DEF C
  <2>1. DOMAIN bg' = BGs /\ bg' = [b \in DOMAIN bg' |-> bg'[b]]
    BY <1>11
  <2>2. ASSUME NEW b \in BGs
        PROVE  bg'[b] = [status |-> IF b \in C THEN "running" ELSE bg[b].status,
                 type |-> IF b \in C THEN t ELSE bg[b].type,
                 invited |-> [team \in Teams |-> (IF b \in C THEN 0 ELSE bg[b].invited[team])
                                                   + Cardinality(Of(inv, b, team))]]
    <3> DEFINE f == [team \in Teams |-> Cardinality(Of(inv, b, team))]
               g == [team \in Teams |-> bg[b].invited[team] + Cardinality(Of(inv, b, team))]
               h == [team \in Teams |-> (IF b \in C THEN 0 ELSE bg[b].invited[team])
                                                   + Cardinality(Of(inv, b, team))]
               r == bg[b]
    <3>1. r \in [status : Status, type : Types, invited : [Teams -> Nat]]
      BY DEF IInv, KnownInv
    <3>2. \A team : Cardinality(Of(inv, b, team)) \in Nat
      <4>1. \A team : Of(inv, b, team) \subseteq Players
        BY DEF Of
      <4> QED BY <4>1, FinitePlayers
    <3>3. CASE b \in C
      <4>1. bg'[b] = [status |-> "running", type |-> t, invited |-> f]
        BY <1>11, <3>3
      <4>2. f = h
        <5>1. \A team \in Teams : Cardinality(Of(inv, b, team)) = 0 + Cardinality(Of(inv, b, team))
          BY <3>2
        <5> QED BY <3>3, <5>1
      <4> HIDE DEF f, h
      <4>3. bg'[b] = [status |-> IF b \in C THEN "running" ELSE bg[b].status,
                      type |-> IF b \in C THEN t ELSE bg[b].type, invited |-> h]
        BY <3>3, <4>1, <4>2
      <4> QED BY <4>3 DEF h
    <3>4. CASE b \notin C
      <4>1. bg'[b] = [r EXCEPT !.invited = g]
        BY <1>11, <3>4
      <4>2. g = h
        BY <3>4
      <4> HIDE DEF g, h, r
      <4>3. bg'[b] = [status |-> r.status, type |-> r.type, invited |-> h]
        BY <3>1, <4>1, <4>2
      <4>4. bg'[b] = [status |-> IF b \in C THEN "running" ELSE bg[b].status,
                      type |-> IF b \in C THEN t ELSE bg[b].type, invited |-> h]
        BY <3>4, <4>3 DEF r
      <4> QED BY <4>4 DEF h
    <3> QED BY <3>3, <3>4
  <2> QED BY <2>1, <2>2 DEF BattlesUpdated
<1>14. PlayersUpdated(t, inv) /\ slot' \in [Players -> [Types -> BGs \cup {NoSlot, Waiting}]]
       /\ events' \in [Players -> SUBSET RemoveEvent]
  <2>1. /\ slot \in [Players -> [Types -> BGs \cup {NoSlot, Waiting}]]
        /\ events \in [Players -> SUBSET RemoveEvent]
    BY DEF IInv, KnownInv
  <2>2. \A q \in Players, u \in Types :
          slot'[q][u] = IF u = t /\ inv[q] # NoBg THEN inv[q] ELSE slot[q][u]
    <3>1. \A q \in Players : slot'[q] = IF inv[q] # NoBg THEN [slot[q] EXCEPT ![t] = inv[q]] ELSE slot[q]
      BY <1>11
    <3> QED BY <2>1, <3>1
  <2>3. slot' \in [Players -> [Types -> BGs \cup {NoSlot, Waiting}]]
    <3>1. \A q \in Players : [slot[q] EXCEPT ![t] = inv[q]] \in [Types -> BGs \cup {NoSlot, Waiting}]
                             \/ inv[q] = NoBg
      BY <1>12, <2>1
    <3>2. \A q \in Players : slot'[q] \in [Types -> BGs \cup {NoSlot, Waiting}]
      BY <1>11, <2>1, <3>1
    <3> QED BY <1>11, <3>2
  <2>4. \A q \in Players :
          events'[q] = IF inv[q] # NoBg
                      THEN events[q] \cup {[type |-> t, bg |-> inv[q], time |-> NewTime(inv[q])]}
                      ELSE events[q]
    BY <1>11
  <2>5. events' \in [Players -> SUBSET RemoveEvent]
    <3>1. \A q \in Players : inv[q] # NoBg =>
            [type |-> t, bg |-> inv[q], time |-> NewTime(inv[q])] \in RemoveEvent
      BY <1>2, <1>12 DEF RemoveEvent
    <3>2. \A q \in Players : events'[q] \subseteq RemoveEvent
      BY <2>1, <2>4, <3>1
    <3> QED BY <1>11, <3>2
  <2>6. \A q \in Players, u \in Types : \A b, n :
       EntryIn(queue'[u], q, b, n) <=>
         IF u = t /\ inv[q] # NoBg THEN b = inv[q] /\ n = NewTime(b)
                                   ELSE EntryIn(queue[u], q, b, n)
    <3>1. \A u \in Types : queue'[u] = IF u = t THEN after ELSE queue[u]
      BY <1>1, <1>11
    <3> QED BY <1>12, <3>1
  <2> QED BY <2>2, <2>3, <2>4, <2>5, <2>6 DEF PlayersUpdated
<1>15. QueueInv'
  <2>1. after \in [Lists -> Seq(GroupInfo)]
    BY <1>9 DEF Well
  <2>2. queue' \in [Types -> [Lists -> Seq(GroupInfo)]]
    BY <1>1, <1>11, <2>1
  <2>3. \A u \in Types : queue'[u] = IF u = t THEN after ELSE queue[u]
    BY <1>1, <1>11
  <2>4. \A u \in Types : Well(queue[u], u)
    BY DEF IInv, QueueInv
  <2> QED BY <1>9, <2>2, <2>3, <2>4 DEF QueueInv
<1>16. \A b \in BGs, team \in Teams :
         /\ b \in C => Cardinality(Of(inv, b, team)) <= MaxPlayersPerTeam[t]
         /\ b \in F => Cardinality(Of(inv, b, team)) <= GetFreeSlotsForTeam(b, team)
  <2> TAKE b \in BGs, team \in Teams
  <2>1. b \in C => b \notin F
    BY <1>6, <1>8
  <2> HIDE DEF C
  <2> QED BY <1>5, <1>9, <2>1
<1>17. freeQueue' \in [Types -> Seq(BGs)] /\ FreeInv'
  <2> DEFINE f == freeQueue[t]
             k == Kept(f, {b \in BGs : Size(b) < 2 * MaxPlayersPerTeam[t]})
             new == created \o k
  <2>1. \A u \in Types : /\ freeQueue[u] \in Seq(BGs)
                         /\ \A i, j \in DOMAIN freeQueue[u] : freeQueue[u][i] = freeQueue[u][j] => i = j
                         /\ \A i \in DOMAIN freeQueue[u] : /\ freeQueue[u][i] \in BGs
                                                           /\ bg[freeQueue[u][i]].status = "running"
                                                           /\ bg[freeQueue[u][i]].type = u
    BY DEF IInv, FreeInv
  <2>2. /\ k \in Seq(BGs) /\ \A i, j \in DOMAIN k : k[i] = k[j] => i = j
        /\ \A i \in DOMAIN k : \E j \in DOMAIN f : k[i] = f[j]
    <3>1. f \in Seq(BGs) /\ \A i, j \in DOMAIN f : f[i] = f[j] => i = j
      BY <2>1
    <3> HIDE DEF f
    <3> QED BY <3>1, KeptOnce
  <2>3. freeQueue' = [freeQueue EXCEPT ![t] = new]
    BY <1>11
  <2> HIDE DEF k
  <2>4. \A i \in DOMAIN created : created[i] \in C
    BY DEF Range
  <2>5. \A i \in DOMAIN k : k[i] \in F
    BY <2>2 DEF F, Range
  <2>6. \A i \in DOMAIN created, j \in DOMAIN k : created[i] # k[j]
    BY <1>6, <1>8, <2>4, <2>5
  <2>7. /\ new \in Seq(BGs)
        /\ \A i, j \in DOMAIN new : new[i] = new[j] => i = j
        /\ \A i \in DOMAIN new : \/ \E j \in DOMAIN created : new[i] = created[j]
                                 \/ \E j \in DOMAIN k : new[i] = k[j]
    BY <1>8, <2>2, <2>6, OnceInBoth
  <2> HIDE DEF new, C
  <2>8. \A b \in BGs : /\ bg'[b].status = IF b \in C THEN "running" ELSE bg[b].status
                       /\ bg'[b].type = IF b \in C THEN t ELSE bg[b].type
    <3> TAKE b \in BGs
    <3> DEFINE h == [team \in Teams |-> (IF b \in C THEN 0 ELSE bg[b].invited[team])
                                                   + Cardinality(Of(inv, b, team))]
    <3>1. bg'[b] = [status |-> IF b \in C THEN "running" ELSE bg[b].status,
                    type |-> IF b \in C THEN t ELSE bg[b].type, invited |-> h]
      BY <1>13 DEF BattlesUpdated
    <3> HIDE DEF h
    <3> QED BY ONLY <3>1
  <2>9. \A b \in F : b \in BGs /\ bg[b].status = "running" /\ bg[b].type = t
    BY <2>1 DEF F, Range
  <2>10. \A i \in DOMAIN new : /\ bg'[new[i]].status = "running" /\ bg'[new[i]].type = t
    <3> TAKE i \in DOMAIN new
    <3>1. new[i] \in C \/ new[i] \in F
      BY <2>4, <2>5, <2>7
    <3>2. new[i] \in BGs
      BY <1>4, <1>6, <1>8, <3>1
    <3> QED BY <2>8, <2>9, <3>1, <3>2
  <2>11. ASSUME NEW u \in Types
         PROVE  /\ freeQueue'[u] \in Seq(BGs)
                /\ \A i, j \in DOMAIN freeQueue'[u] : freeQueue'[u][i] = freeQueue'[u][j] => i = j
                /\ \A i \in DOMAIN freeQueue'[u] : /\ bg'[freeQueue'[u][i]].status = "running"
                                                   /\ bg'[freeQueue'[u][i]].type = u
    <3>1. CASE u = t
      <4>1. freeQueue'[u] = new
        BY <1>1, <2>3, <3>1
      <4> QED BY <2>7, <2>10, <3>1, <4>1
    <3>2. CASE u # t
      <4>1. freeQueue'[u] = freeQueue[u]
        BY <1>1, <2>3, <3>2
      <4>2. \A b \in C : b \in BGs /\ ~Live(b)
        BY <1>6, <1>8
      <4>3. \A i \in DOMAIN freeQueue[u] : freeQueue[u][i] \notin C
        BY <2>1, <4>2 DEF Live
      <4> QED BY <2>1, <2>8, <4>1, <4>3
    <3> QED BY <3>1, <3>2
  <2>12. freeQueue' \in [Types -> Seq(BGs)]
    BY <1>1, <2>3, <2>7
  <2> QED BY <2>11, <2>12 DEF FreeInv
<1>18. AfterUpdate(t, C, inv)
  <2>1. \A q \in Players : inv[q] # NoBg => inv[q] \in Range(freeQueue[t]) \cup C
    BY <1>9 DEF F
  <2> HIDE DEF C
  <2> QED BY <1>8, <1>12, <1>13, <1>14, <1>15, <1>16, <1>17, <2>1 DEF AfterUpdate, F
<1> QED BY <1>18

\* What an update changes, in the words of the invariant.
LEMMA AfterFacts ==
  ASSUME IInv, NEW t \in Types, NEW C, NEW inv, AfterUpdate(t, C, inv)
  PROVE  /\ \A b \in BGs : /\ bg'[b].status = IF b \in C THEN "running" ELSE bg[b].status
                           /\ bg'[b].type = IF b \in C THEN t ELSE bg[b].type
                           /\ \A team \in Teams :
                                /\ Cardinality(Of(inv, b, team)) \in Nat
                                /\ bg'[b].invited[team] = (IF b \in C THEN 0 ELSE bg[b].invited[team])
                                                          + Cardinality(Of(inv, b, team))
         /\ bg' \in [BGs -> [status : Status, type : Types, invited : [Teams -> Nat]]]
         /\ \A b : Live(b)' <=> Live(b) \/ b \in C
         /\ \A b \in C : /\ b \in BGs /\ ~Live(b) /\ b \notin Range(freeQueue[t])
                         /\ \A p \in Players : bgOf[p] # b /\ members[b][p] = "out"
         /\ \A b \in Range(freeQueue[t]) : b \in BGs /\ Live(b) /\ bg[b].type = t
         /\ \A q \in Players, u \in Types : NoEntry(q, u)' <=> NoEntry(q, u)
         /\ \A q \in Players : inv[q] # NoBg => ~NoEntry(q, t)
<1>1. BattlesUpdated(t, C, inv) /\ PlayersUpdated(t, inv) /\ C \subseteq NewBGs(t)
  BY DEF AfterUpdate
<1>2. \A b \in C : /\ b \in BGs /\ ~Live(b) /\ b \notin Range(freeQueue[t])
                   /\ \A p \in Players : bgOf[p] # b /\ members[b][p] = "out"
  BY <1>1, NewUnknown
<1>3. ASSUME NEW b \in BGs
      PROVE  /\ bg'[b].status = IF b \in C THEN "running" ELSE bg[b].status
             /\ bg'[b].type = IF b \in C THEN t ELSE bg[b].type
             /\ \A team \in Teams :
                  /\ Cardinality(Of(inv, b, team)) \in Nat
                  /\ bg'[b].invited[team] = (IF b \in C THEN 0 ELSE bg[b].invited[team])
                                            + Cardinality(Of(inv, b, team))
             /\ bg'[b] \in [status : Status, type : Types, invited : [Teams -> Nat]]
  <2> DEFINE h == [team \in Teams |-> (IF b \in C THEN 0 ELSE bg[b].invited[team])
                                                   + Cardinality(Of(inv, b, team))]
  <2>1. bg'[b] = [status |-> IF b \in C THEN "running" ELSE bg[b].status,
                  type |-> IF b \in C THEN t ELSE bg[b].type, invited |-> h]
    BY <1>1 DEF BattlesUpdated
  <2>2. \A team \in Teams : Cardinality(Of(inv, b, team)) \in Nat /\ bg[b].invited[team] \in Nat
    <3>1. \A team : Of(inv, b, team) \subseteq Players
      BY DEF Of
    <3> QED BY <3>1, FinitePlayers, Facts
  <2>3. h \in [Teams -> Nat]
    BY <2>2
  <2>4. \A team \in Teams : h[team] = (IF b \in C THEN 0 ELSE bg[b].invited[team]) + Cardinality(Of(inv, b, team))
    OBVIOUS
  <2>5. /\ (IF b \in C THEN "running" ELSE bg[b].status) \in Status
        /\ (IF b \in C THEN t ELSE bg[b].type) \in Types
    BY Facts DEF Status
  <2> HIDE DEF h
  <2>6. /\ bg'[b].status = (IF b \in C THEN "running" ELSE bg[b].status)
        /\ bg'[b].type = (IF b \in C THEN t ELSE bg[b].type) /\ bg'[b].invited = h
    BY ONLY <2>1
  <2>7. bg'[b] \in [status : Status, type : Types, invited : [Teams -> Nat]]
    BY ONLY <2>1, <2>3, <2>5
  <2> QED BY <2>2, <2>4, <2>6, <2>7
<1>4. bg' \in [BGs -> [status : Status, type : Types, invited : [Teams -> Nat]]]
  <2>1. DOMAIN bg' = BGs /\ bg' = [b \in DOMAIN bg' |-> bg'[b]]
    BY <1>1 DEF BattlesUpdated
  <2> QED BY <1>3, <2>1
<1>5. \A b : Live(b)' <=> Live(b) \/ b \in C
  <2>1. \A b \in BGs : bg'[b].status = IF b \in C THEN "running" ELSE bg[b].status
    BY <1>3
  <2>2. \A b \in BGs : bg'[b].status # "none" <=> bg[b].status # "none" \/ b \in C
    BY ONLY <2>1
  <2>3. \A b \in C : b \in BGs
    BY <1>2
  <2> QED BY ONLY <2>2, <2>3 DEF Live
<1>6. \A b \in Range(freeQueue[t]) : b \in BGs /\ Live(b) /\ bg[b].type = t
  <2>1. \A i \in DOMAIN freeQueue[t] : /\ freeQueue[t][i] \in BGs
                                       /\ bg[freeQueue[t][i]].status = "running"
                                       /\ bg[freeQueue[t][i]].type = t
    BY DEF IInv, FreeInv
  <2> QED BY <2>1 DEF Range, Live
<1>7. \A q \in Players : inv[q] # NoBg => ~NoEntry(q, t)
  BY DEF AfterUpdate, NoEntry
<1>8. \A q \in Players, u \in Types : NoEntry(q, u)' <=> NoEntry(q, u)
  BY <1>1, <1>7 DEF PlayersUpdated, NoEntry
<1> QED BY <1>2, <1>3, <1>4, <1>5, <1>6, <1>7, <1>8

\* Who is invited gets a place that is free.
LEMMA CountUpdated ==
  ASSUME IInv, NEW t \in Types, NEW C, NEW inv, AfterUpdate(t, C, inv),
         UNCHANGED <<where, bgOf, members>>
  PROVE  CountInv'
<1>1. /\ PlayersUpdated(t, inv) /\ inv \in [Players -> BGs \cup {NoBg}]
      /\ \A q \in Players : inv[q] # NoBg => inv[q] \in Range(freeQueue[t]) \cup C
      /\ \A q \in Players : inv[q] # NoBg => \E n : EntryIn(queue[t], q, NoBg, n)
      /\ \A b \in BGs, team \in Teams :
           /\ b \in C => Cardinality(Of(inv, b, team)) <= MaxPlayersPerTeam[t]
           /\ b \in Range(freeQueue[t]) => Cardinality(Of(inv, b, team)) <= GetFreeSlotsForTeam(b, team)
  BY DEF AfterUpdate
<1>2. /\ \A b \in BGs : /\ bg'[b].type = IF b \in C THEN t ELSE bg[b].type
                        /\ \A team \in Teams :
                             /\ Cardinality(Of(inv, b, team)) \in Nat
                             /\ bg'[b].invited[team] = (IF b \in C THEN 0 ELSE bg[b].invited[team])
                                                       + Cardinality(Of(inv, b, team))
      /\ \A b : Live(b)' <=> Live(b) \/ b \in C
      /\ \A b \in C : /\ b \in BGs /\ ~Live(b) /\ b \notin Range(freeQueue[t])
                      /\ \A p \in Players : bgOf[p] # b /\ members[b][p] = "out"
      /\ \A b \in Range(freeQueue[t]) : b \in BGs /\ Live(b) /\ bg[b].type = t
      /\ \A q \in Players : inv[q] # NoBg => ~NoEntry(q, t)
  BY AfterFacts
<1>3. \A q \in Players, u \in Types : \A b, n :
       EntryIn(queue'[u], q, b, n) <=>
         IF u = t /\ inv[q] # NoBg THEN b = inv[q] /\ n = NewTime(b)
                                   ELSE EntryIn(queue[u], q, b, n)
  BY <1>1 DEF PlayersUpdated
<1>4. SUFFICES ASSUME NEW b \in BGs, Live(b)', NEW team \in Teams
               PROVE  /\ bg'[b].invited[team] = Cardinality(OfTeam(Holders(b)', team))
                      /\ bg'[b].invited[team] <= MaxPlayersPerTeam[bg'[b].type]
  BY DEF CountInv, OfTeam
<1>5. b # NoBg /\ bg[b].type \in Types /\ bg'[b].type \in Types
  BY <1>2, Constants, Facts
<1> DEFINE new == Of(inv, b, team)
<1>6. Cardinality(new) \in Nat /\ IsFiniteSet(new)
  <2>1. new \subseteq Players
    BY DEF Of
  <2> QED BY <2>1, FinitePlayers
<1>7. CASE b \in C
  <2>1. bg'[b].type = t /\ ~Live(b)
    BY <1>2, <1>7
  <2>2. ASSUME NEW q \in Players PROVE Holds(q, b)' <=> inv[q] = b
    <3>1. Holds(q, b)' <=> \E n : EntryIn(queue'[t], q, b, n)
      BY <1>2, <1>7, <2>1 DEF Holds
    <3>2. \A n : ~EntryIn(queue[t], q, b, n)
      BY <1>5, <2>1, EntryFacts
    <3>3. \A n : EntryIn(queue'[t], q, b, n) <=> inv[q] = b /\ n = NewTime(b)
      BY <1>3, <1>5, <3>2
    <3> QED BY <3>1, <3>3
  <2>3. OfTeam(Holders(b)', team) = new
    BY <2>2 DEF OfTeam, Holders, Of
  <2>4. bg'[b].invited[team] = Cardinality(new)
    <3>1. bg'[b].invited[team] = 0 + Cardinality(new)
      BY <1>2, <1>7
    <3> HIDE DEF new
    <3> QED BY <1>6, <3>1
  <2>5. Cardinality(new) <= MaxPlayersPerTeam[t]
    BY <1>1, <1>7
  <2> HIDE DEF new
  <2> QED BY <2>1, <2>3, <2>4, <2>5
<1>8. CASE b \notin C
  <2> DEFINE H == Holders(b)
             old == OfTeam(H, team)
  <2>1. Live(b) /\ bg'[b].type = bg[b].type
    BY <1>2, <1>4, <1>8
  <2>2. ASSUME NEW q \in Players PROVE /\ Holds(q, b)' <=> Holds(q, b) \/ inv[q] = b
                                       /\ inv[q] = b => ~Holds(q, b)
    <3>1. inv[q] = b => bg[b].type = t
      BY <1>1, <1>2, <1>5, <1>8
    <3>2. inv[q] # NoBg => \A n : ~EntryIn(queue[t], q, b, n)
      <4>1. ASSUME inv[q] # NoBg, NEW n, EntryIn(queue[t], q, b, n) PROVE FALSE
        <5>1. PICK m : EntryIn(queue[t], q, NoBg, m)
          BY <1>1, <4>1
        <5>2. b = NoBg
          BY <4>1, <5>1, EntryFacts
        <5> QED BY <1>5, <5>2
      <4> QED BY <4>1
    <3>3. inv[q] # NoBg => where[q] # "off"
      <4>1. ASSUME inv[q] # NoBg PROVE where[q] # "off"
        <5>1. PICK m : EntryIn(queue[t], q, NoBg, m)
          BY <1>1, <4>1
        <5> QED BY <5>1, EntryFacts
      <4> QED BY <4>1
    <3>4. inv[q] = b => bgOf[q] # b
      <4>1. ASSUME inv[q] = b, bgOf[q] = b PROVE FALSE
        <5>1. NoEntry(q, t)
          BY <1>5, <2>1, <3>1, <3>3, <4>1 DEF IInv, BelongsInv
        <5> QED BY <1>2, <1>5, <4>1, <5>1
      <4> QED BY <4>1
    <3>5. members[b][q] # "out" => bgOf[q] = b
      BY DEF IInv, MembersInv
    <3>6. /\ Holds(q, b) <=> \/ \E n : EntryIn(queue[bg[b].type], q, b, n)
                             \/ where[q] = "far" /\ bgOf[q] = b
                             \/ members[b][q] # "out"
          /\ Holds(q, b)' <=> \/ \E n : EntryIn(queue'[bg[b].type], q, b, n)
                              \/ where[q] = "far" /\ bgOf[q] = b
                              \/ members[b][q] # "out"
      BY <2>1 DEF Holds
    <3>7. (\E n : EntryIn(queue'[bg[b].type], q, b, n)) <=>
            (\E n : EntryIn(queue[bg[b].type], q, b, n)) \/ inv[q] = b
      <4>1. CASE bg[b].type = t /\ inv[q] # NoBg
        <5>1. \A n : EntryIn(queue'[t], q, b, n) <=> b = inv[q] /\ n = NewTime(b)
          BY <1>3, <4>1
        <5> QED BY <3>2, <4>1, <5>1
      <4>2. CASE ~(bg[b].type = t /\ inv[q] # NoBg)
        <5>1. \A n : EntryIn(queue'[bg[b].type], q, b, n) <=> EntryIn(queue[bg[b].type], q, b, n)
          BY <1>3, <1>5, <4>2
        <5>2. inv[q] # b
          BY <1>5, <3>1, <4>2
        <5> QED BY <5>1, <5>2
      <4> QED BY <4>1, <4>2
    <3>8. Holds(q, b)' <=> Holds(q, b) \/ inv[q] = b
      BY <3>6, <3>7
    <3>9. inv[q] = b => ~Holds(q, b)
      BY <1>5, <3>1, <3>2, <3>4, <3>5, <3>6
    <3> QED BY <3>8, <3>9
  <2>3. OfTeam(Holders(b)', team) = old \cup new /\ old \cap new = {}
    BY <2>2 DEF OfTeam, Holders, Of
  <2>4. IsFiniteSet(old) /\ Cardinality(old) \in Nat
    BY Facts, FinitePlayers
  <2>5. Cardinality(old \cup new) = Cardinality(old) + Cardinality(new)
    <3> HIDE DEF old, new
    <3>1. Cardinality(old \cup new) = Cardinality(old) + Cardinality(new) - Cardinality(old \cap new)
      BY <1>6, <2>4, FS_Union
    <3>2. Cardinality(old \cap new) = 0
      BY <2>3, FS_EmptySet
    <3> QED BY ONLY <1>6, <2>4, <3>1, <3>2
  <2>6. bg[b].invited[team] = Cardinality(old) /\ bg[b].invited[team] <= MaxPlayersPerTeam[bg[b].type]
    BY <2>1 DEF IInv, CountInv
  <2>7. bg'[b].invited[team] = bg[b].invited[team] + Cardinality(new)
    BY <1>2, <1>8
  <2>8. bg[b].invited[team] + Cardinality(new) <= MaxPlayersPerTeam[bg[b].type]
    <3> DEFINE max == MaxPlayersPerTeam[bg[b].type]
               n == bg[b].invited[team]
    <3>1. max \in Nat /\ n \in Nat
      BY <1>5, Facts, Constants
    <3>2. CASE b \in Range(freeQueue[t])
      <4> DEFINE free == GetFreeSlotsForTeam(b, team)
      <4>1. Cardinality(new) <= free /\ free \in Nat /\ n + free = max
        BY <1>1, <2>1, <3>2, FreeSlots
      <4> HIDE DEF free, n, max, new
      <4>2. n + Cardinality(new) <= max
        BY ONLY <1>6, <3>1, <4>1
      <4> QED BY <4>2 DEF n, max
    <3>3. CASE b \notin Range(freeQueue[t])
      <4>1. new = {}
        BY <1>1, <1>5, <1>8, <3>3 DEF Of
      <4>2. Cardinality(new) = 0
        BY <4>1, FS_EmptySet
      <4>3. n + Cardinality(new) = n
        <5> HIDE DEF new, n, max
        <5> QED BY ONLY <3>1, <4>2
      <4> HIDE DEF new
      <4> QED BY <2>6, <4>3
    <3> QED BY <3>2, <3>3
  <2> HIDE DEF old, new
  <2> QED BY <2>1, <2>3, <2>5, <2>6, <2>7, <2>8
<1> QED BY <1>7, <1>8

\* An update invites to free places, and no one who has one.
LEMMA UpdateKeeps ==
  ASSUME IInv, CalmTravel, NEW t \in Types, UpdateScheduled(t)
  PROVE  IInv'
<1>1. /\ \A p \in Players : Queued(p, t) => where[p] = "world"
      /\ scheduled' = scheduled \ {t}
      /\ UNCHANGED <<where, bgOf, members, offline>>
      /\ IF GroupsOf(t) = {}
           THEN UNCHANGED <<slot, events, queue, bg, freeQueue>>
           ELSE UpdateQueue(t)
  BY DEF UpdateScheduled
<1>2. scheduled' \subseteq Types
  BY <1>1 DEF IInv, KnownInv
<1>3. CASE GroupsOf(t) = {}
  <2>1. UNCHANGED <<where, slot, bgOf, events, queue, bg, members, offline, freeQueue>>
    BY <1>1, <1>3
  <2> QED BY <1>2, <2>1, ScheduleOnly
<1>4. CASE UpdateQueue(t)
  <2>1. PICK C, inv : AfterUpdate(t, C, inv)
    BY <1>1, <1>4, UpdateFields
  <2>2. /\ PlayersUpdated(t, inv) /\ inv \in [Players -> BGs \cup {NoBg}]
        /\ \A q \in Players : inv[q] # NoBg => inv[q] \in Range(freeQueue[t]) \cup C
        /\ \A q \in Players : inv[q] # NoBg => \E n : EntryIn(queue[t], q, NoBg, n)
        /\ QueueInv' /\ freeQueue' \in [Types -> Seq(BGs)] /\ FreeInv'
        /\ slot' \in [Players -> [Types -> BGs \cup {NoSlot, Waiting}]]
        /\ events' \in [Players -> SUBSET RemoveEvent]
    BY <2>1 DEF AfterUpdate
  <2>3. /\ \A b \in BGs : bg'[b].type = IF b \in C THEN t ELSE bg[b].type
        /\ bg' \in [BGs -> [status : Status, type : Types, invited : [Teams -> Nat]]]
        /\ \A b : Live(b)' <=> Live(b) \/ b \in C
        /\ \A b \in C : /\ b \in BGs /\ ~Live(b) /\ b \notin Range(freeQueue[t])
                        /\ \A p \in Players : bgOf[p] # b /\ members[b][p] = "out"
        /\ \A b \in Range(freeQueue[t]) : b \in BGs /\ Live(b) /\ bg[b].type = t
        /\ \A q \in Players, u \in Types : NoEntry(q, u)' <=> NoEntry(q, u)
        /\ \A q \in Players : inv[q] # NoBg => ~NoEntry(q, t)
    BY <2>1, AfterFacts
  <2>4. /\ \A q \in Players, u \in Types :
             slot'[q][u] = IF u = t /\ inv[q] # NoBg THEN inv[q] ELSE slot[q][u]
        /\ \A q \in Players :
             events'[q] = IF inv[q] # NoBg
                      THEN events[q] \cup {[type |-> t, bg |-> inv[q], time |-> NewTime(inv[q])]}
                      ELSE events[q]
        /\ \A q \in Players, u \in Types : \A b, n :
             EntryIn(queue'[u], q, b, n) <=>
               IF u = t /\ inv[q] # NoBg THEN b = inv[q] /\ n = NewTime(b)
                                         ELSE EntryIn(queue[u], q, b, n)
    BY <2>2 DEF PlayersUpdated
  <2>5. where' = where /\ bgOf' = bgOf /\ members' = members
    BY <1>1
  <2>6. \A b : Live(b) => b \in BGs /\ Live(b)' /\ bg'[b].type = bg[b].type
    <3>1. \A b : Live(b) => b \in BGs
      BY DEF Live
    <3> QED BY <2>3, <3>1
  <2>7. KnownInv'
    <3>1. \A q \in Players : IsFiniteSet(events'[q])
      <4> TAKE q \in Players
      <4> DEFINE x == [type |-> t, bg |-> inv[q], time |-> NewTime(inv[q])]
      <4>1. IsFiniteSet(events[q])
        BY DEF IInv, KnownInv
      <4>2. IsFiniteSet({x})
        BY FS_Singleton
      <4>3. events'[q] = events[q] \/ events'[q] = events[q] \cup {x}
        BY <2>4
      <4> HIDE DEF x
      <4> QED BY <4>1, <4>2, <4>3, FS_Union
    <3> QED BY <1>1, <1>2, <2>2, <2>3, <3>1 DEF IInv, KnownInv
  <2>8. EntryInv'
    <3>0. SUFFICES ASSUME NEW u \in Types, NEW q \in Players, NEW c, NEW n, EntryIn(queue'[u], q, c, n)
                   PROVE  /\ where'[q] # "off"
                          /\ slot'[q][u] = IF c = NoBg THEN Waiting ELSE c
                          /\ c # NoBg => /\ Live(c)' /\ bg'[c].type = u
                                         /\ [type |-> u, bg |-> c, time |-> n] \in events'[q]
      BY DEF EntryInv
    <3>1. CASE u = t /\ inv[q] # NoBg
      <4>1. c = inv[q] /\ n = NewTime(c)
        BY <2>4, <3>0, <3>1
      <4>2. PICK m : EntryIn(queue[t], q, NoBg, m)
        BY <2>2, <3>1
      <4>3. where[q] # "off"
        BY <4>2, EntryFacts
      <4>4. Live(c)' /\ bg'[c].type = t
        <5>1. CASE c \in C
          BY <2>3, <5>1
        <5>2. CASE c \in Range(freeQueue[t]) /\ c \notin C
          BY <2>3, <5>2
        <5> QED BY <2>2, <3>1, <4>1, <5>1, <5>2
      <4>5. [type |-> t, bg |-> c, time |-> n] \in events'[q]
        BY <2>4, <3>1, <4>1
      <4> QED BY <2>4, <2>5, <3>1, <4>1, <4>3, <4>4, <4>5
    <3>2. CASE ~(u = t /\ inv[q] # NoBg)
      <4>1. EntryIn(queue[u], q, c, n)
        BY <2>4, <3>0, <3>2
      <4>2. /\ where[q] # "off" /\ slot[q][u] = (IF c = NoBg THEN Waiting ELSE c)
            /\ c # NoBg => /\ c \in BGs /\ Live(c) /\ bg[c].type = u
                           /\ [type |-> u, bg |-> c, time |-> n] \in events[q]
        BY ONLY IInv, u \in Types, <4>1, EntryFacts
      <4>3. slot'[q][u] = slot[q][u] /\ events[q] \subseteq events'[q]
        BY <2>4, <3>2
      <4> QED BY <2>5, <2>6, <4>2, <4>3
    <3> QED BY <3>1, <3>2
  <2>9. SlotInv'
    <3>0. SUFFICES ASSUME NEW q \in Players, NEW u \in Types, NoEntry(q, u)'
                   PROVE  slot'[q][u] = NoSlot \/ InSlot(q, u)'
      BY DEF SlotInv
    <3>1. NoEntry(q, u)
      BY <2>3, <3>0
    <3>2. slot[q][u] = NoSlot \/ InSlot(q, u)
      BY <3>1 DEF IInv, SlotInv
    <3>3. slot'[q][u] = slot[q][u]
      BY <2>3, <2>4, <3>1
    <3> QED BY <2>5, <2>6, <3>2, <3>3 DEF InSlot
  <2>10. BelongsInv'
    <3>0. SUFFICES ASSUME NEW q \in Players, NEW c \in BGs, NEW u \in Types,
                          where'[q] # "off", bgOf'[q] = c, Live(c)', bg'[c].type = u
                   PROVE  /\ slot'[q][u] = c
                          /\ NoEntry(q, u)'
                          /\ where'[q] = "world" => members'[c][q] # "out"
      BY DEF BelongsInv
    <3>1. where[q] # "off" /\ bgOf[q] = c /\ Live(c) /\ bg[c].type = u
      BY <2>3, <2>5, <3>0
    <3>2. slot[q][u] = c /\ NoEntry(q, u) /\ (where[q] = "world" => members[c][q] # "out")
      BY <3>1 DEF IInv, BelongsInv
    <3>3. slot'[q][u] = slot[q][u]
      BY <2>3, <2>4, <3>2
    <3> QED BY <2>3, <2>5, <3>2, <3>3
  <2>11. MembersInv'
    <3>0. SUFFICES ASSUME NEW c \in BGs, NEW q \in Players, members'[c][q] # "out"
                   PROVE  bgOf'[q] = c /\ Live(c)' /\ where'[q] # "far"
      BY DEF MembersInv
    <3>1. bgOf[q] = c /\ Live(c) /\ where[q] # "far"
      BY <2>5, <3>0 DEF IInv, MembersInv
    <3> QED BY <2>5, <2>6, <3>1
  <2>12. CountInv'
    <3>1. UNCHANGED <<where, bgOf, members>>
      BY <1>1
    <3> QED BY <2>1, <3>1, CountUpdated
  <2> QED BY <2>2, <2>7, <2>8, <2>9, <2>10, <2>11, <2>12 DEF IInv
<1> QED BY <1>1, <1>3, <1>4

-----------------------------------------------------------------------------
(* The theorems.                                                           *)

\* At the start nobody waits, and no battleground is in use.
LEMMA InitInv == Init => IInv
<1> SUFFICES ASSUME Init PROVE IInv
  OBVIOUS
<1>0. /\ where = [p \in Players |-> "world"]
      /\ slot = [p \in Players |-> [t \in Types |-> NoSlot]]
      /\ bgOf = [p \in Players |-> NoBg]
      /\ events = [p \in Players |-> {}]
      /\ queue = [t \in Types |-> [l \in Lists |-> <<>>]]
      /\ scheduled = {}
      /\ bg = [b \in BGs |-> NoBattle]
      /\ members = [b \in BGs |-> [p \in Players |-> "out"]]
      /\ offline = [b \in BGs |-> <<>>]
      /\ freeQueue = [t \in Types |-> <<>>]
  BY DEF Init
<1>1. /\ NoBattle.status = "none"
      /\ NoBattle \in [status : Status, type : Types, invited : [Teams -> Nat]]
  <2>1. (CHOOSE t \in Types : TRUE) \in Types
    BY Constants
  <2> QED BY <2>1 DEF NoBattle, Status
<1>2. \A b : ~Live(b)
  BY <1>0, <1>1 DEF Live
<1>3. KnownInv
  <2>1. \A p \in Players : events[p] = {} /\ IsFiniteSet(events[p])
    BY <1>0, FS_EmptySet
  <2>2. /\ where \in [Players -> {"world", "far", "off"}]
        /\ bgOf \in [Players -> BGs \cup {NoBg}]
        /\ events \in [Players -> SUBSET RemoveEvent]
        /\ scheduled \subseteq Types
    BY <1>0
  <2>3. /\ slot \in [Players -> [Types -> BGs \cup {NoSlot, Waiting}]]
        /\ members \in [BGs -> [Players -> {"out", "in", "away"}]]
    BY <1>0
  <2>4. bg \in [BGs -> [status : Status, type : Types, invited : [Teams -> Nat]]]
    BY <1>0, <1>1
  <2>5. offline \in [BGs -> Seq(Players)]
    BY <1>0
  <2> QED BY <2>1, <2>2, <2>3, <2>4, <2>5 DEF KnownInv
<1>4. ASSUME NEW t \in Types
      PROVE  /\ queue[t] \in [Lists -> Seq(GroupInfo)] /\ Well(queue[t], t)
             /\ \A p, b, n : ~EntryIn(queue[t], p, b, n)
  <2>1. queue[t] = [l \in Lists |-> <<>>]
    BY <1>0
  <2> DEFINE none == [l \in Lists |-> <<>>]
  <2>2. /\ none \in [Lists -> Seq(GroupInfo)]
        /\ \A l \in Lists : none[l] = <<>> /\ DOMAIN none[l] = {} /\ Range(none[l]) = {}
    BY DEF Range
  <2> HIDE DEF none
  <2>3. RightTeams(none, t) /\ Apart(none)
    BY <2>2 DEF RightTeams, Apart
  <2>4. \A p, b, n : ~EntryIn(none, p, b, n)
    BY <2>2 DEF EntryIn, GroupsIn
  <2>5. Well(none, t)
    BY <2>2, <2>3 DEF Well
  <2>6. queue[t] = none
    BY <2>1 DEF none
  <2> QED BY <2>2, <2>4, <2>5, <2>6
<1>5. QueueInv
  <2>1. queue = [t \in Types |-> queue[t]]
    BY <1>0
  <2>2. queue \in [Types -> [Lists -> Seq(GroupInfo)]]
    BY <1>4, <2>1
  <2> QED BY <1>4, <2>2 DEF QueueInv
<1>6. EntryInv
  BY <1>4 DEF EntryInv
<1>7. SlotInv
  BY <1>0 DEF SlotInv
<1>8. BelongsInv
  BY <1>2 DEF BelongsInv
<1>9. MembersInv
  BY <1>0 DEF MembersInv
<1>10. freeQueue \in [Types -> Seq(BGs)] /\ FreeInv
  BY <1>0 DEF FreeInv
<1>11. CountInv
  BY <1>2 DEF CountInv
<1> QED BY <1>3, <1>5, <1>6, <1>7, <1>8, <1>9, <1>10, <1>11 DEF IInv

\* Every step keeps it: each handler, event and update has its lemma.
LEMMA NextKeeps ==
  ASSUME IInv, CalmTravel, [Next]_vars
  PROVE  IInv'
<1>1. CASE \E e \in UNION Entries : HandleBattlemasterJoinOpcode(e[1], e[2])
  BY <1>1, JoinKeeps
<1>2. CASE \E e \in UNION Entries : JoinRefused(e[1], e[2])
  BY <1>2, RefusedKeeps
<1>3. CASE \E p \in Players, t \in Types : Enter(p, t)
  BY <1>3, EnterKeeps
<1>4. CASE \E p \in Players, t \in Types : LeaveQueue(p, t)
  BY <1>4, LeaveQueueKeeps
<1>5. CASE \E p \in Players : \E e \in events[p] : RemoveEventExecutes(p, e)
  BY <1>5, RemoveEventKeeps
<1>6. CASE \E p \in Players : HandleMoveWorldportAck(p)
  BY <1>6, ArrivalKeeps
<1>7. CASE \E p \in Players : TeleportTo(p)
  BY <1>7, TeleportKeeps
<1>8. CASE \E p \in Players : LogoutPlayer(p)
  BY <1>8, LogoutKeeps
<1>9. CASE \E p \in Players : LoadFromDB(p)
  BY <1>9, LoginKeeps
<1>10. CASE \E t \in Types : UpdateScheduled(t)
  BY <1>10, UpdateKeeps
<1>11. CASE \E b \in BGs : DeleteBattle(b)
  BY <1>11, DeleteKeeps
<1>12. CASE \E b \in BGs : RemoveOffline(b)
  BY <1>12, RemoveOfflineKeeps
<1>13. CASE \E b \in BGs : EndBattle(b)
  BY <1>13, EndKeeps
<1>14. CASE \E b \in BGs : CloseBattle(b)
  BY <1>14, CloseKeeps
<1>15. CASE UNCHANGED vars
  <2>1. UNCHANGED <<where, slot, bgOf, events, queue, bg, members, offline, freeQueue>>
        /\ scheduled' \subseteq Types
    BY <1>15 DEF vars, IInv, KnownInv
  <2> QED BY <2>1, ScheduleOnly
<1> QED BY <1>1, <1>2, <1>3, <1>4, <1>5, <1>6, <1>7, <1>8, <1>9, <1>10, <1>11, <1>12, <1>13,
           <1>14, <1>15 DEF Next

\* The inductive invariant holds, when no queue is updated while one who waits
\* is between two maps, where InviteGroupToBG would not find him.
THEOREM Inductive == ASSUME CalmTravel PROVE Spec => []IInv
<1>1. Init => IInv
  BY InitInv
<1>2. IInv /\ [Next]_vars => IInv'
  BY NextKeeps
<1> QED BY <1>1, <1>2, PTL DEF Spec

\* The state has its type: no count of invited players becomes negative
\* (TypeOK).
THEOREM TypeCorrect == ASSUME CalmTravel PROVE Spec => []TypeOK
<1>1. IInv => TypeOK
  BY DEF IInv, KnownInv, QueueInv, TypeOK
<1> QED BY <1>1, Inductive, PTL

\* Who has a place, as the properties count them.
LEMMA PlacesAreHeld ==
  ASSUME IInv, NEW b \in BGs, Live(b), NEW team
  PROVE  PlacesTaken(b, team) = OfTeam(Holders(b), team)
<1> DEFINE t == bg[b].type
<1>1. t \in Types
  BY DEF IInv, KnownInv
<1>2. Well(queue[t], t)
  BY <1>1 DEF IInv, QueueInv
<1>3. GroupsOf(t) = GroupsIn(queue[t])
  BY DEF GroupsOf, GroupsIn
<1>4. \A g \in GroupsOf(t) : g \in GroupInfo /\ \A p \in g.players : TeamOf[p] = g.team
  <2> DEFINE lists == queue[t]
  <2> HIDE DEF lists
  <2>1. t \in Types /\ Well(lists, t)
    BY <1>1, <1>2 DEF lists
  <2> HIDE DEF t
  <2>2. \A g \in GroupsIn(lists) : g \in GroupInfo /\ \A p \in g.players : TeamOf[p] = g.team
    BY <2>1, OneGroup
  <2> QED BY <1>3, <2>2 DEF lists
<1>5. \A p : p \in InvitedIn(b, team) <=> TeamOf[p] = team /\ \E n : EntryIn(queue[t], p, b, n)
  <2>1. \A p : p \in InvitedIn(b, team) <=>
          \E g \in GroupsOf(t) : g.invited = b /\ g.team = team /\ p \in g.players
    BY DEF InvitedIn
  <2>2. \A p : (\E n : EntryIn(queue[t], p, b, n)) <=>
          \E g \in GroupsOf(t) : g.invited = b /\ p \in g.players
    BY <1>3 DEF EntryIn
  <2> QED BY <1>4, <2>1, <2>2
<1>6. \A p \in InvitedIn(b, team) : p \in Players
  <2>1. \A g \in GroupsOf(t) : g.players \subseteq Players
    BY <1>4, GroupFields
  <2> QED BY <2>1 DEF InvitedIn
<1>7. \A p : p \in PlacesTaken(b, team) <=>
        p \in InvitedIn(b, team) \/
        (p \in Players /\ TeamOf[p] = team /\ (OnTheWay(p, b) \/ members[b][p] # "out"))
  BY DEF PlacesTaken
<1>8. \A p : p \in OfTeam(Holders(b), team) <=>
        p \in Players /\ TeamOf[p] = team /\
        ((\E n : EntryIn(queue[t], p, b, n)) \/ (where[p] = "far" /\ bgOf[p] = b)
         \/ members[b][p] # "out")
  BY DEF OfTeam, Holders, Holds
<1>9. \A p : OnTheWay(p, b) \/ members[b][p] # "out" <=>
             (where[p] = "far" /\ bgOf[p] = b) \/ members[b][p] # "out"
  BY DEF OnTheWay
<1> QED BY <1>5, <1>6, <1>7, <1>8, <1>9

\* The count of invited players, which the queue, the handlers and the
\* battleground change in turn, is always that of the places taken
\* (InvitedCounted).
THEOREM CountIsPlaces == ASSUME CalmTravel PROVE Spec => []InvitedCounted
<1>1. IInv => InvitedCounted
  BY PlacesAreHeld DEF IInv, CountInv, InvitedCounted
<1> QED BY <1>1, Inductive, PTL

\* However many groups an update invites to however many battlegrounds, no
\* team gets more places than its battleground has (NoTeamOverfull).
THEOREM TeamsFit == ASSUME CalmTravel PROVE Spec => []NoTeamOverfull
<1>1. IInv => NoTeamOverfull
  BY PlacesAreHeld DEF IInv, CountInv, NoTeamOverfull
<1> QED BY <1>1, Inductive, PTL

\* Every slot of a player has its group in the queue, or its battleground,
\* through joining, answers, timers, travel, logout and login
\* (SlotsMatchQueue).
THEOREM SlotsMatch == ASSUME CalmTravel PROVE Spec => []SlotsMatchQueue
<1>1. ASSUME IInv PROVE SlotsMatchQueue
  <2>1. ASSUME NEW p \in Players, NEW t \in Types
        PROVE  LET groups == {g \in GroupsOf(t) : p \in g.players} IN
               /\ Cardinality(groups) <= 1
               /\ slot[p][t] = NoSlot => groups = {}
               /\ slot[p][t] = Waiting => \E g \in groups : g.invited = NoBg
               /\ slot[p][t] \in BGs =>
                    /\ Live(slot[p][t]) /\ bg[slot[p][t]].type = t
                    /\ \/ \E g \in groups : g.invited = slot[p][t]
                       \/ groups = {} /\ bgOf[p] = slot[p][t]
    <3> DEFINE groups == {g \in GroupsOf(t) : p \in g.players}
               lists == queue[t]
    <3>1. Well(lists, t) /\ GroupsOf(t) = GroupsIn(lists)
      BY <1>1 DEF IInv, QueueInv, GroupsOf, GroupsIn
    <3> HIDE DEF lists
    <3>2. \A g, h \in groups : g = h
      BY <3>1, OneGroup
    <3>3. Cardinality({}) = 0 /\ \A g : Cardinality({g}) = 1
      BY FS_EmptySet, FS_Singleton
    <3>4. \A g \in groups : EntryIn(queue[t], p, g.invited, g.time)
      BY <3>1 DEF EntryIn, lists
    <3>5. groups = {} => NoEntry(p, t)
      BY <3>1 DEF EntryIn, lists, NoEntry
    <3> HIDE DEF groups
    <3>6. CASE groups = {}
      <4>1. slot[p][t] = NoSlot \/ InSlot(p, t)
        BY <1>1, <3>5, <3>6 DEF IInv, SlotInv
      <4>2. slot[p][t] = Waiting => slot[p][t] # NoSlot /\ ~InSlot(p, t)
        BY Constants DEF InSlot
      <4>3. slot[p][t] \in BGs => slot[p][t] # NoSlot
        BY Constants
      <4>4. InSlot(p, t) => /\ Live(slot[p][t]) /\ bg[slot[p][t]].type = t
                            /\ bgOf[p] = slot[p][t]
        BY DEF InSlot
      <4>5. /\ Cardinality(groups) <= 1
            /\ slot[p][t] = NoSlot => groups = {}
            /\ slot[p][t] = Waiting => \E g \in groups : g.invited = NoBg
            /\ slot[p][t] \in BGs =>
                 /\ Live(slot[p][t]) /\ bg[slot[p][t]].type = t
                 /\ \/ \E g \in groups : g.invited = slot[p][t]
                    \/ groups = {} /\ bgOf[p] = slot[p][t]
        BY <3>3, <3>6, <4>1, <4>2, <4>3, <4>4
      <4> QED BY <4>5 DEF groups
    <3>7. CASE groups # {}
      <4>0. PICK g \in groups : TRUE
        BY <3>7
      <4>1. groups = {g}
        BY <3>2, <4>0
      <4>2. EntryIn(queue[t], p, g.invited, g.time)
        BY <3>4, <4>1
      <4> DEFINE c == g.invited
                 n == g.time
      <4>3. EntryIn(queue[t], p, c, n)
        BY <4>2
      <4> HIDE DEF c, n
      <4>4. /\ c \in BGs \cup {NoBg}
            /\ slot[p][t] = (IF c = NoBg THEN Waiting ELSE c) /\ slot[p][t] # NoSlot
            /\ c # NoBg => Live(c) /\ bg[c].type = t
        BY <1>1, <4>3, EntryFacts
      <4>5. c = NoBg => slot[p][t] \notin BGs
        BY <4>4, Constants
      <4>6. slot[p][t] = Waiting => c = NoBg
        BY <4>4, Constants
      <4>7. g.invited = c /\ Cardinality(groups) = 1
        BY <3>3, <4>1 DEF c
      <4>8. /\ Cardinality(groups) <= 1
            /\ slot[p][t] = NoSlot => groups = {}
            /\ slot[p][t] = Waiting => \E h \in groups : h.invited = NoBg
            /\ slot[p][t] \in BGs =>
                 /\ Live(slot[p][t]) /\ bg[slot[p][t]].type = t
                 /\ \E h \in groups : h.invited = slot[p][t]
        BY <4>1, <4>4, <4>5, <4>6, <4>7
      <4> QED BY <4>8 DEF groups
    <3> QED BY <3>6, <3>7
  <2>2. ASSUME NEW p \in Players, where[p] = "off", NEW t \in Types
        PROVE  ~Queued(p, t)
    <3>1. Well(queue[t], t)
      BY <1>1 DEF IInv, QueueInv
    <3>2. \A c, n : ~EntryIn(queue[t], p, c, n)
      BY <1>1, <2>2, EntryFacts
    <3> QED BY <3>1, <3>2, Asked DEF NoEntry
  <2>3. \A p \in Players, b \in BGs : members[b][p] # "out" => bgOf[p] = b
    BY <1>1 DEF IInv, MembersInv
  <2> QED BY <2>1, <2>2, <2>3 DEF SlotsMatchQueue
<1> QED BY <1>1, Inductive, PTL

\* Who is invited has the timer of this invitation, so that his place is not
\* kept for ever (InvitationTimed).
THEOREM InvitationsTimed == ASSUME CalmTravel PROVE Spec => []InvitationTimed
<1>1. ASSUME IInv PROVE InvitationTimed
  <2> SUFFICES ASSUME NEW t \in Types, NEW g \in GroupsOf(t), NEW p \in g.players,
                      g.invited # NoBg
               PROVE  [type |-> t, bg |-> g.invited, time |-> g.time] \in events[p]
    BY DEF InvitationTimed
  <2> DEFINE c == g.invited
             n == g.time
  <2>1. EntryIn(queue[t], p, c, n)
    BY DEF GroupsOf, GroupsIn, EntryIn
  <2>2. c # NoBg
    OBVIOUS
  <2> HIDE DEF c, n
  <2>3. [type |-> t, bg |-> c, time |-> n] \in events[p]
    BY <1>1, <2>1, <2>2, EntryFacts
  <2> QED BY <2>3 DEF c, n
<1> QED BY <1>1, Inductive, PTL

\* Timers only go when they run out, or with the whole player.
LEMMA TimersGone ==
  ASSUME IInv, [Next]_vars, NEW p \in Players, where'[p] # "off"
  PROVE  \/ events[p] \subseteq events'[p]
         \/ \E e \in events[p] : RemoveEventExecutes(p, e)
<1>0. events \in [Players -> SUBSET RemoveEvent] /\ where \in [Players -> {"world", "far", "off"}]
  BY DEF IInv, KnownInv
<1>1. CASE \E e \in UNION Entries : HandleBattlemasterJoinOpcode(e[1], e[2])
  BY <1>1 DEF HandleBattlemasterJoinOpcode
<1>2. CASE \E e \in UNION Entries : JoinRefused(e[1], e[2])
  BY <1>2 DEF JoinRefused
<1>3. CASE \E q \in Players, t \in Types : Enter(q, t)
  BY <1>3 DEF Enter
<1>4. CASE \E q \in Players, t \in Types : LeaveQueue(q, t)
  BY <1>4 DEF LeaveQueue
<1>5. CASE \E q \in Players : \E e \in events[q] : RemoveEventExecutes(q, e)
  <2>1. PICK q \in Players : \E e \in events[q] : RemoveEventExecutes(q, e)
    BY <1>5
  <2>2. CASE q = p
    BY <2>1, <2>2
  <2>3. CASE q # p
    <3>1. PICK e \in events[q] : events' = [events EXCEPT ![q] = @ \ {e}]
      BY <2>1 DEF RemoveEventExecutes
    <3>2. events'[p] = events[p]
      BY <1>0, <2>3, <3>1
    <3> QED BY <3>2
  <2> QED BY <2>2, <2>3
<1>6. CASE \E q \in Players : HandleMoveWorldportAck(q)
  BY <1>6 DEF HandleMoveWorldportAck
<1>7. CASE \E q \in Players : TeleportTo(q)
  BY <1>7 DEF TeleportTo
<1>8. CASE \E q \in Players : LogoutPlayer(q)
  <2>1. PICK q \in Players : LogoutPlayer(q)
    BY <1>8
  <2>2. where' = [where EXCEPT ![q] = "off"] /\ events' = [events EXCEPT ![q] = {}]
    BY <2>1 DEF LogoutPlayer
  <2>3. q # p
    BY <1>0, <2>2
  <2>4. events'[p] = events[p]
    BY <1>0, <2>2, <2>3
  <2> QED BY <2>4
<1>9. CASE \E q \in Players : LoadFromDB(q)
  BY <1>9 DEF LoadFromDB
<1>10. CASE \E t \in Types : UpdateScheduled(t)
  <2>1. PICK t \in Types : UpdateScheduled(t)
    BY <1>10
  <2>2. CASE GroupsOf(t) = {}
    BY <2>1, <2>2 DEF UpdateScheduled
  <2>3. CASE GroupsOf(t) # {}
    <3>1. UpdateQueue(t)
      BY <2>1, <2>3 DEF UpdateScheduled
    <3>2. PICK after, created : Invites(t, after, created)
      BY <3>1 DEF UpdateQueue
    <3>3. events' = [q \in Players |->
            IF Reached(t, after)[q] # NoBg
              THEN events[q] \cup {[type |-> t, bg |-> Reached(t, after)[q],
                                    time |-> NewTime(Reached(t, after)[q])]}
              ELSE events[q]]
      BY <3>2 DEF Invites
    <3>4. events[p] \subseteq events'[p]
      BY <3>3
    <3> QED BY <3>4
  <2> QED BY <2>2, <2>3
<1>11. CASE \E b \in BGs : DeleteBattle(b)
  BY <1>11 DEF DeleteBattle
<1>12. CASE \E b \in BGs : RemoveOffline(b)
  BY <1>12 DEF RemoveOffline, Expel
<1>13. CASE \E b \in BGs : EndBattle(b)
  BY <1>13 DEF EndBattle
<1>14. CASE \E b \in BGs : CloseBattle(b)
  BY <1>14 DEF CloseBattle, Expel
<1>15. CASE UNCHANGED vars
  BY <1>15 DEF vars
<1> QED BY <1>1, <1>2, <1>3, <1>4, <1>5, <1>6, <1>7, <1>8, <1>9, <1>10, <1>11, <1>12, <1>13,
           <1>14, <1>15 DEF Next

\* A timer takes a player out of the queue only when it is that of his
\* invitation (OnlyOwnTimerRemoves).
THEOREM OwnTimerOnly == ASSUME CalmTravel PROVE Spec => OnlyOwnTimerRemoves
<1> DEFINE Body == \A t \in Types : \A g \in GroupsOf(t) : \A p \in g.players :
       (g.invited # NoBg /\ ~Queued(p, t)' /\ where'[p] = "world") =>
         events[p] \ events'[p] \subseteq
           {[type |-> t, bg |-> g.invited, time |-> g.time]}
<1>1. IInv /\ [Next]_vars => [Body]_vars
  <2> SUFFICES ASSUME IInv, [Next]_vars,
                      NEW t \in Types, NEW g \in GroupsOf(t), NEW p \in g.players,
                      ~Queued(p, t)', where'[p] = "world"
               PROVE  events[p] \ events'[p] \subseteq
                        {[type |-> t, bg |-> g.invited, time |-> g.time]}
    OBVIOUS
  <2>1. Well(queue[t], t) /\ GroupsOf(t) = GroupsIn(queue[t])
    BY DEF IInv, QueueInv, GroupsOf, GroupsIn
  <2>2. EntryIn(queue[t], p, g.invited, g.time)
    BY <2>1 DEF EntryIn
  <2>3. p \in Players
    BY <2>2, EntryFacts
  <2>4. Queued(p, t)
    BY DEF Queued
  <2>5. CASE events[p] \subseteq events'[p]
    BY <2>5
  <2>6. ASSUME NEW e \in events[p], RemoveEventExecutes(p, e)
        PROVE  events[p] \ events'[p] \subseteq
                 {[type |-> t, bg |-> g.invited, time |-> g.time]}
    <3>1. /\ events \in [Players -> SUBSET RemoveEvent]
          /\ queue \in [Types -> [Lists -> Seq(GroupInfo)]]
      BY DEF IInv, KnownInv, QueueInv
    <3>2. events'[p] = events[p] \ {e} /\ e \in RemoveEvent
      BY <2>3, <2>6, <3>1 DEF RemoveEventExecutes
    <3>3. queue'[t] # queue[t]
      BY <2>4 DEF Queued, GroupsOf
    <3>4. /\ IsPlayerInvited(p, e)
          /\ queue' = [queue EXCEPT ![e.type] = Dequeued(e.type, p)]
      BY <2>6, <3>3 DEF RemoveEventExecutes
    <3>5. e.type = t
      BY <3>1, <3>3, <3>4
    <3>6. e.bg = GroupOf(p, t).invited /\ e.time = GroupOf(p, t).time
      BY <3>4, <3>5 DEF IsPlayerInvited, InvitedTo
    <3> DEFINE c == GroupOf(p, t).invited
               n == GroupOf(p, t).time
               d == g.invited
               m == g.time
               lists == queue[t]
    <3>7. EntryIn(lists, p, c, n) /\ EntryIn(lists, p, d, m) /\ Well(lists, t)
      BY <2>1, <2>2, <2>4, Asked
    <3> HIDE DEF c, n, d, m, lists
    <3>8. c = d /\ n = m
      BY <3>7, OneEntry
    <3>9. e = [type |-> e.type, bg |-> e.bg, time |-> e.time]
      BY <3>2 DEF RemoveEvent
    <3>10. e = [type |-> t, bg |-> g.invited, time |-> g.time]
      BY <3>5, <3>6, <3>8, <3>9 DEF c, n, d, m
    <3> QED BY <3>2, <3>10
  <2> QED BY <2>3, <2>5, <2>6, TimersGone
<1> HIDE DEF Body
<1>2. Spec => [][Body]_vars
  BY <1>1, Inductive, PTL DEF Spec
<1> QED BY <1>2 DEF Body, OnlyOwnTimerRemoves

=============================================================================
