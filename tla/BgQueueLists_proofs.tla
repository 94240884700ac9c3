------------------------- MODULE BgQueueLists_proofs --------------------------
(***************************************************************************)
(* Lemmas about the queues of BgQueue, for any players, types and          *)
(* battlegrounds: what it means to leave a queue, that a player is in one  *)
(* group at most and stays so, and that an update, however many groups and *)
(* battlegrounds there are, invites nobody twice and to no battleground more *)
(* of a team than it has room for.                                         *)
(***************************************************************************)
EXTENDS BgQueue, FiniteSetTheorems, TLAPS

-----------------------------------------------------------------------------
(* Numbers, and functions defined by recursion.                            *)

\* Of natural numbers one is the least.
LEMMA Least ==
  ASSUME NEW n \in Nat, NEW B, B \subseteq 0..n, B # {}
  PROVE  \E m \in B : \A k \in B : m <= k
<1>1. IsFiniteSet(0..n) /\ \A k \in 0..n : IsFiniteSet(0..k)
  BY FS_Interval
<1> DEFINE D == {0..k : k \in B}
<1>2. PICK k \in B : TRUE
  OBVIOUS
<1>3. IsWellFoundedOn(StrictSubsetOrdering(0..n), SUBSET (0..n))
  <2>1. SUBSET (0..n) = FiniteSubsetsOf(0..n)
    BY <1>1, FS_Subset DEF FiniteSubsetsOf
  <2> QED BY <2>1, FS_StrictSubsetOrderingWellFounded
<1>4. D # {} /\ D \subseteq SUBSET (0..n)
  BY <1>2
<1>5. PICK T \in D : \A U \in D : ~ (<<U, T>> \in StrictSubsetOrdering(0..n))
  BY <1>3, <1>4, WFMin, Zenon
<1>6. PICK m \in B : T = 0..m
  BY <1>5
<1>7. ASSUME NEW j \in B, ~(m <= j) PROVE FALSE
  <2>1. j \in Nat /\ m \in Nat /\ j < m /\ m <= n /\ j <= n
    BY <1>6, <1>7
  <2>2. 0..j \subseteq 0..m /\ m \in 0..m /\ m \notin 0..j
    BY <2>1
  <2>3. 0..j \in SUBSET (0..n) /\ 0..m \in SUBSET (0..n)
    BY <2>1
  <2>4. <<0..j, T>> \in StrictSubsetOrdering(0..n)
    BY <1>6, <2>2, <2>3 DEF StrictSubsetOrdering
  <2> QED BY <1>5, <1>7, <2>4
<1> QED BY <1>7

\* A set of numbers that has 0 and with each number the next one.
LEMMA Upwards ==
  ASSUME NEW n \in Nat, NEW G, 0 \in G, \A i \in 1..n : i - 1 \in G => i \in G
  PROVE  \A i \in 0..n : i \in G
<1> DEFINE B == {i \in 0..n : i \notin G}
<1>1. SUFFICES ASSUME B # {} PROVE FALSE
  OBVIOUS
<1>2. PICK m \in B : \A k \in B : m <= k
  <2>1. B \subseteq 0..n
    OBVIOUS
  <2> HIDE DEF B
  <2> QED BY <1>1, <2>1, Least
<1>3. m \in 1..n /\ m \notin G
  BY <1>2
<1>4. m - 1 \in 0..n /\ ~(m <= m - 1)
  BY <1>3
<1>5. m - 1 \in G
  BY <1>2, <1>4
<1> QED BY <1>3, <1>5

\* A function defined by recursion on a number exists.
Stepwise(step, n, V) == step \in [1..n -> [V -> V]]
Recursive(g, step, n, V, A) ==
  /\ g \in [0..n -> V] /\ g[0] = A
  /\ \A i \in 1..n : g[i] = step[i][g[i - 1]]

\* Defined by recursion on a number, a function exists.
LEMMA Recursion ==
  ASSUME NEW n \in Nat, NEW V, NEW A \in V, NEW step, Stepwise(step, n, V)
  PROVE  \E g : Recursive(g, step, n, V, A)
<1>0. step \in [1..n -> [V -> V]]
  BY DEF Stepwise
<1> DEFINE Good(m) == \E g \in [0..m -> V] :
                        g[0] = A /\ \A i \in 1..m : g[i] = step[i][g[i - 1]]
           G == {m \in 0..n : Good(m)}
<1>1. 0 \in G
  <2> DEFINE g == [i \in 0..0 |-> A]
  <2>1. g \in [0..0 -> V] /\ g[0] = A /\ 1..0 = {}
    OBVIOUS
  <2>2. Good(0)
    BY <2>1
  <2> HIDE DEF Good
  <2> QED BY <2>2
<1>2. ASSUME NEW m \in 1..n, m - 1 \in G
      PROVE  m \in G
  <2>1. PICK g \in [0..(m - 1) -> V] :
          g[0] = A /\ \A i \in 1..(m - 1) : g[i] = step[i][g[i - 1]]
    BY <1>2
  <2> DEFINE h == [i \in 0..m |-> IF i = m THEN step[m][g[m - 1]] ELSE g[i]]
  <2>2. step[m][g[m - 1]] \in V
    BY <1>0, <2>1
  <2>3. \A i \in 0..m : i # m => i \in 0..(m - 1)
    OBVIOUS
  <2>4. h \in [0..m -> V] /\ h[0] = A
    BY <2>1, <2>2, <2>3
  <2>5. ASSUME NEW i \in 1..m PROVE h[i] = step[i][h[i - 1]]
    <3>1. CASE i = m
      BY <3>1
    <3>2. CASE i # m
      <4>1. i \in 1..(m - 1) /\ i - 1 \in 0..m /\ i - 1 # m /\ i \in 0..m
        BY <3>2
      <4>2. h[i] = g[i] /\ h[i - 1] = g[i - 1]
        BY <3>2, <4>1
      <4> QED BY <2>1, <4>1, <4>2
    <3> QED BY <3>1, <3>2
  <2>6. Good(m)
    BY <2>4, <2>5
  <2> HIDE DEF Good
  <2> QED BY <2>6
<1>3. n \in 0..n
  OBVIOUS
<1> HIDE DEF G
<1>4. \A i \in 0..n : i \in G
  BY <1>1, <1>2, Upwards
<1> QED BY <1>3, <1>4 DEF G, Recursive

\* Two functions that start the same and go on the same.
Alike(f, g, n) ==
  f[0] = g[0] /\ \A i \in 1..n : f[i - 1] = g[i - 1] => f[i] = g[i]

\* Such functions are the same.
LEMMA SameSteps ==
  ASSUME NEW n \in Nat, NEW f, NEW g, Alike(f, g, n)
  PROVE  \A i \in 0..n : f[i] = g[i]
<1> DEFINE G == {i \in 0..n : f[i] = g[i]}
<1>1. 0 \in G /\ \A i \in 1..n : i - 1 \in G => i \in G
  BY DEF Alike
<1>2. \A i \in 0..n : i \in G
  <2> HIDE DEF G
  <2> QED BY <1>1, Upwards
<1> QED BY <1>2

-----------------------------------------------------------------------------
(* The elements of a sequence that are kept.                               *)

\* The steps by which elements are kept.
KeptBy(g, S, s, keep) ==
  /\ g \in [0..Len(s) -> Seq(S)]
  /\ g[0] = <<>> /\ Kept(s, keep) = g[Len(s)]
  /\ \A i \in 1..Len(s) :
       g[i] = IF s[i] \in keep THEN Append(g[i - 1], s[i]) ELSE g[i - 1]

\* What Kept computes it computes step by step.
LEMMA KeptSteps ==
  ASSUME NEW S, NEW s \in Seq(S), NEW keep
  PROVE  \E g : KeptBy(g, S, s, keep)
<1> DEFINE n == Len(s)
           V == Seq(S)
           Def(f) == f = [i \in 0..n |-> IF i = 0 THEN <<>>
                            ELSE IF s[i] \in keep THEN Append(f[i - 1], s[i]) ELSE f[i - 1]]
           step == [i \in 1..n |-> [v \in V |-> IF s[i] \in keep THEN Append(v, s[i]) ELSE v]]
           Steps(g) == g[0] = <<>> /\ \A i \in 1..n : g[i] = step[i][g[i - 1]]
<1>1. n \in Nat /\ <<>> \in V /\ \A i \in 1..n : s[i] \in S
  OBVIOUS
<1>2. step \in [1..n -> [V -> V]]
  BY <1>1
<1>3. PICK g \in [0..n -> V] : Steps(g)
  <2>1. Stepwise(step, n, V)
    BY <1>2 DEF Stepwise
  <2>2. \E g : Recursive(g, step, n, V, <<>>)
    <3> HIDE DEF step, V, n
    <3> QED BY ONLY <2>1, <1>1, Recursion
  <2> HIDE DEF step, V, n
  <2> QED BY <2>2 DEF Recursive
<1>4. \A i \in 1..n : g[i] = IF s[i] \in keep THEN Append(g[i - 1], s[i]) ELSE g[i - 1]
  <2> TAKE i \in 1..n
  <2>1. g[i] = step[i][g[i - 1]]
    <3> HIDE DEF step
    <3> QED BY <1>3
  <2>2. i - 1 \in 0..n
    BY <1>1
  <2>3. g[i - 1] \in V
    <3> HIDE DEF V, Steps
    <3> QED BY <1>3, <2>2
  <2>4. step[i] = [v \in V |-> IF s[i] \in keep THEN Append(v, s[i]) ELSE v]
    OBVIOUS
  <2> HIDE DEF step, V
  <2> QED BY <2>1, <2>3, <2>4
<1>5. Def(g)
  <2> DEFINE h == [i \in 0..n |-> IF i = 0 THEN <<>>
                     ELSE IF s[i] \in keep THEN Append(g[i - 1], s[i]) ELSE g[i - 1]]
  <2>1. \A i \in 0..n : h[i] = g[i]
    <3> TAKE i \in 0..n
    <3>1. CASE i = 0
      <4> HIDE DEF step
      <4> QED BY <1>3, <3>1
    <3>2. CASE i # 0
      <4>1. i \in 1..n
        BY <3>2
      <4> HIDE DEF n
      <4> QED BY <1>4, <4>1, <3>2
    <3> QED BY <3>1, <3>2
  <2> HIDE DEF V
  <2>2. h = g
    BY <1>3, <2>1
  <2> QED BY <2>2
<1> DEFINE f == CHOOSE c : Def(c)
<1>6. Def(f)
  <2> HIDE DEF Def
  <2> QED BY <1>5
<1>7. Kept(s, keep) = f[n]
  BY DEF Kept
<1> HIDE DEF f
<1>8. /\ f[0] = <<>>
      /\ \A i \in 1..n : f[i] = IF s[i] \in keep THEN Append(f[i - 1], s[i]) ELSE f[i - 1]
  <2>1. \A i \in 0..n : f[i] = IF i = 0 THEN <<>>
                     ELSE IF s[i] \in keep THEN Append(f[i - 1], s[i]) ELSE f[i - 1]
    BY <1>6
  <2> QED BY <1>1, <2>1
<1>9. \A i \in 0..n : f[i] = g[i]
  <2>1. \A i \in 1..n : f[i - 1] = g[i - 1] => f[i] = g[i]
    BY <1>4, <1>8
  <2>2. f[0] = g[0]
    <3> HIDE DEF step
    <3> QED BY <1>3, <1>8
  <2>3. n \in Nat
    BY <1>1
  <2> HIDE DEF Def, n
  <2>4. Alike(f, g, n)
    BY ONLY <2>1, <2>2 DEF Alike
  <2> QED BY ONLY <2>3, <2>4, SameSteps
<1>10. n \in 0..n
  BY <1>1
<1>11. Kept(s, keep) = g[n]
  <2> HIDE DEF n
  <2> QED BY <1>7, <1>9, <1>10
<1>12. g[0] = <<>>
  <2> HIDE DEF step
  <2> QED BY <1>3
<1> QED BY <1>3, <1>4, <1>11, <1>12 DEF KeptBy

\* What is kept stands, in places of its own, for all that keep has.
Placement(r, s, keep, at, n) ==
  /\ at \in [1..Len(r) -> 1..n]
  /\ \A j \in 1..Len(r) : r[j] = s[at[j]] /\ r[j] \in keep
  /\ \A j, k \in 1..Len(r) : at[j] = at[k] => j = k
  /\ \A i \in 1..n : s[i] \in keep => \E j \in 1..Len(r) : at[j] = i

\* Kept leaves exactly the elements to keep, each of them once.
LEMMA KeptPlacement ==
  ASSUME NEW S, NEW s \in Seq(S), NEW keep
  PROVE  /\ Kept(s, keep) \in Seq(S)
         /\ \E at : Placement(Kept(s, keep), s, keep, at, Len(s))
<1>0. PICK g : KeptBy(g, S, s, keep)
  BY KeptSteps
<1>1. /\ g \in [0..Len(s) -> Seq(S)]
      /\ g[0] = <<>> /\ Kept(s, keep) = g[Len(s)]
      /\ \A i \in 1..Len(s) :
           g[i] = IF s[i] \in keep THEN Append(g[i - 1], s[i]) ELSE g[i - 1]
  BY <1>0 DEF KeptBy
<1> DEFINE n == Len(s)
           Good(i) == \E at : Placement(g[i], s, keep, at, i)
           G == {i \in 0..n : Good(i)}
<1>2. n \in Nat
  OBVIOUS
<1>3. 0 \in G
  <2> DEFINE at == [j \in 1..0 |-> 0]
  <2>1. 1..0 = {} /\ Len(g[0]) = 0
    BY <1>1
  <2>2. Placement(g[0], s, keep, at, 0)
    BY <2>1 DEF Placement
  <2>3. Good(0)
    BY <2>2
  <2> HIDE DEF Good
  <2> QED BY <1>2, <2>3
<1>4. ASSUME NEW i \in 1..n, i - 1 \in G
      PROVE  i \in G
  <2>1. PICK at : Placement(g[i - 1], s, keep, at, i - 1)
    BY <1>4
  <2> DEFINE r == g[i - 1]
             q == g[i]
  <2>2. r \in Seq(S) /\ q \in Seq(S) /\ s[i] \in S /\ i \in Nat /\ Len(r) \in Nat
    BY <1>1, <1>2
  <2>3. q = IF s[i] \in keep THEN Append(r, s[i]) ELSE r
    BY <1>1
  <2>4. Placement(r, s, keep, at, i - 1)
    BY <2>1
  <2> HIDE DEF r, q
  <2>5. CASE s[i] \notin keep
    <3>1. Placement(q, s, keep, at, i)
      BY <2>2, <2>3, <2>4, <2>5 DEF Placement
    <3>2. Good(i)
      BY <3>1 DEF q
    <3> HIDE DEF Good
    <3> QED BY <3>2
  <2>6. CASE s[i] \in keep
    <3> DEFINE new == [j \in 1..(Len(r) + 1) |-> IF j = Len(r) + 1 THEN i ELSE at[j]]
    <3>1. /\ Len(q) = Len(r) + 1 /\ q[Len(r) + 1] = s[i]
          /\ \A j \in 1..Len(r) : q[j] = r[j]
      BY <2>2, <2>3, <2>6
    <3>2. /\ at \in [1..Len(r) -> 1..(i - 1)]
          /\ \A j \in 1..Len(r) : r[j] = s[at[j]] /\ r[j] \in keep
          /\ \A j, k \in 1..Len(r) : at[j] = at[k] => j = k
          /\ \A m \in 1..(i - 1) : s[m] \in keep => \E j \in 1..Len(r) : at[j] = m
      BY <2>4 DEF Placement
    <3>3. /\ new[Len(r) + 1] = i
          /\ \A j \in 1..Len(r) : new[j] = at[j] /\ at[j] \in 1..(i - 1)
      <4>1. \A j \in 1..Len(r) : at[j] \in 1..(i - 1)
        BY <3>2
      <4>2. \A j \in 1..Len(r) : j # Len(r) + 1 /\ j \in 1..(Len(r) + 1)
        BY <2>2
      <4>3. Len(r) + 1 \in 1..(Len(r) + 1)
        BY <2>2
      <4>4. \A j \in 1..(Len(r) + 1) : new[j] = IF j = Len(r) + 1 THEN i ELSE at[j]
        OBVIOUS
      <4> HIDE DEF new
      <4> QED BY <4>1, <4>2, <4>3, <4>4
    <3>4. \A j \in 1..Len(q) : j = Len(r) + 1 \/ j \in 1..Len(r)
      BY <2>2, <3>1
    <3>5. new \in [1..Len(q) -> 1..i]
      BY <2>2, <3>1, <3>2
    <3> HIDE DEF new
    <3>6. \A j \in 1..Len(q) : q[j] = s[new[j]] /\ q[j] \in keep
      BY <2>6, <3>1, <3>2, <3>3, <3>4
    <3>7. \A j, k \in 1..Len(q) : new[j] = new[k] => j = k
      BY <2>2, <3>2, <3>3, <3>4
    <3>8. \A m \in 1..i : s[m] \in keep => \E j \in 1..Len(q) : new[j] = m
      <4>1. \A m \in 1..i : m = i \/ m \in 1..(i - 1)
        BY <2>2
      <4>2. Len(r) + 1 \in 1..Len(q) /\ \A j \in 1..Len(r) : j \in 1..Len(q)
        BY <2>2, <3>1
      <4> QED BY <3>2, <3>3, <4>1, <4>2
    <3>9. Placement(q, s, keep, new, i)
      BY <3>5, <3>6, <3>7, <3>8 DEF Placement
    <3>10. Good(i)
      BY <3>9 DEF q
    <3> HIDE DEF Good
    <3> QED BY <3>10
  <2> QED BY <2>5, <2>6
<1>5. n \in G
  <2>1. \A i \in 0..n : i \in G
    <3> HIDE DEF G
    <3> QED BY <1>2, <1>3, <1>4, Upwards
  <2> QED BY <1>2, <2>1
<1> QED BY <1>1, <1>2, <1>5

-----------------------------------------------------------------------------
(* The groups of a queue, and the entries of its players.                  *)

\* The groups of a queue.
GroupsIn(lists) == UNION {Range(lists[l]) : l \in Lists}

\* A list holds groups of its team only, none larger than a team of the type.
RightTeams(lists, t) ==
  \A l \in Lists : \A i \in DOMAIN lists[l] :
    /\ lists[l][i].team = l[2]
    /\ \A p \in lists[l][i].players : TeamOf[p] = l[2]
    /\ Cardinality(lists[l][i].players) <= MaxPlayersPerTeam[t]

\* A player is in one place of the lists.
Apart(lists) ==
  \A k, l \in Lists : \A i \in DOMAIN lists[k], j \in DOMAIN lists[l] :
    lists[k][i].players \cap lists[l][j].players # {} => k = l /\ i = j

\* A queue that is well made.
Well(lists, t) ==
  lists \in [Lists -> Seq(GroupInfo)] /\ RightTeams(lists, t) /\ Apart(lists)

\* What the lists say of a player: to where he is invited, and when.
EntryIn(lists, p, b, n) ==
  \E g \in GroupsIn(lists) : p \in g.players /\ g.invited = b /\ g.time = n

\* The assumption, in the parts that proofs use.
LEMMA Constants ==
  /\ IsFiniteSet(Players) /\ IsFiniteSet(Types) /\ Types # {}
  /\ TeamOf \in [Players -> Teams]
  /\ NoBg \notin BGs /\ NoSlot \notin BGs /\ Waiting \notin BGs /\ NoSlot # Waiting
  /\ InstancesOf \in [Types -> SUBSET BGs]
  /\ MinPlayersPerTeam \in [Types -> Nat \ {0}]
  /\ MaxPlayersPerTeam \in [Types -> Nat]
  /\ \A t \in Types : MinPlayersPerTeam[t] <= MaxPlayersPerTeam[t]
  /\ \A e \in UNION Entries :
       /\ e[1] \subseteq Players /\ e[2] \in Types /\ e[1] # {}
       /\ Cardinality(e[1]) <= MaxPlayersPerTeam[e[2]]
       /\ \A p, q \in e[1] : TeamOf[p] = TeamOf[q]
<1>1. \A e \in UNION Entries : e \in (SUBSET Players) \X Types
  BY BgAssumption
<1>2. ASSUME NEW e \in UNION Entries
      PROVE  /\ e[1] \subseteq Players /\ e[2] \in Types /\ e[1] # {}
             /\ Cardinality(e[1]) <= MaxPlayersPerTeam[e[2]]
             /\ \A p, q \in e[1] : TeamOf[p] = TeamOf[q]
  <2>1. e[1] \subseteq Players /\ e[2] \in Types
    BY <1>1
  <2>2. /\ Cardinality(e[1]) \in 1..MaxPlayersPerTeam[e[2]]
        /\ \A p, q \in e[1] : TeamOf[p] = TeamOf[q]
    BY BgAssumption
  <2>3. e[1] # {}
    BY <2>2, FS_EmptySet
  <2> QED BY <2>1, <2>2, <2>3, BgAssumption
<1>3. NoBg \notin BGs /\ NoSlot \notin BGs /\ Waiting \notin BGs
  BY BgAssumption
<1>4. NoSlot # Waiting
  BY DEF NoSlot, Waiting
<1> QED BY <1>2, <1>3, <1>4, BgAssumption

\* The groups are those at the places of the lists.
LEMMA GroupPlaces ==
  ASSUME NEW lists \in [Lists -> Seq(GroupInfo)]
  PROVE  /\ \A g : g \in GroupsIn(lists) <=>
              \E l \in Lists : \E i \in DOMAIN lists[l] : g = lists[l][i]
         /\ \A l \in Lists : /\ DOMAIN lists[l] = 1..Len(lists[l])
                             /\ \A i \in DOMAIN lists[l] : lists[l][i] \in GroupInfo
<1>1. \A l \in Lists : lists[l] \in Seq(GroupInfo)
  OBVIOUS
<1>2. \A l \in Lists : /\ DOMAIN lists[l] = 1..Len(lists[l])
                       /\ \A i \in DOMAIN lists[l] : lists[l][i] \in GroupInfo
  BY <1>1
<1>3. \A g : g \in GroupsIn(lists) <=> \E l \in Lists : g \in Range(lists[l])
  BY DEF GroupsIn
<1>4. \A l \in Lists : \A g : g \in Range(lists[l]) <=> \E i \in DOMAIN lists[l] : g = lists[l][i]
  BY DEF Range
<1> QED BY <1>2, <1>3, <1>4

\* A group of a list has players, all in the game.
LEMMA GroupFields ==
  ASSUME NEW g \in GroupInfo
  PROVE  /\ g.players \subseteq Players /\ g.players # {} /\ g.team \in Teams
         /\ g.invited \in BGs \cup {NoBg} /\ g.time \in Nat
         /\ IsFiniteSet(g.players)
<1>1. /\ g.players \subseteq Players /\ g.players # {} /\ g.team \in Teams
      /\ g.invited \in BGs \cup {NoBg} /\ g.time \in Nat
  BY DEF GroupInfo
<1>2. IsFiniteSet(g.players)
  BY <1>1, Constants, FS_Subset
<1> QED BY <1>1, <1>2

\* A player is in one group only.
LEMMA OneGroup ==
  ASSUME NEW lists, NEW t \in Types, Well(lists, t)
  PROVE  /\ \A g, h \in GroupsIn(lists) : g.players \cap h.players # {} => g = h
         /\ \A g \in GroupsIn(lists) : /\ g \in GroupInfo
                                       /\ \A p \in g.players : TeamOf[p] = g.team
                                       /\ Cardinality(g.players) <= MaxPlayersPerTeam[t]
<1>1. lists \in [Lists -> Seq(GroupInfo)]
  BY DEF Well
<1>2. /\ \A g : g \in GroupsIn(lists) <=>
              \E l \in Lists : \E i \in DOMAIN lists[l] : g = lists[l][i]
      /\ \A l \in Lists : \A i \in DOMAIN lists[l] : lists[l][i] \in GroupInfo
  BY <1>1, GroupPlaces
<1>3. ASSUME NEW g \in GroupsIn(lists), NEW h \in GroupsIn(lists), g.players \cap h.players # {}
      PROVE  g = h
  BY <1>2, <1>3 DEF Well, Apart
<1>4. ASSUME NEW g \in GroupsIn(lists)
      PROVE  /\ g \in GroupInfo
             /\ \A p \in g.players : TeamOf[p] = g.team
             /\ Cardinality(g.players) <= MaxPlayersPerTeam[t]
  BY <1>2 DEF Well, RightTeams
<1> QED BY <1>3, <1>4

\* The entry of a player is one.
LEMMA OneEntry ==
  ASSUME NEW lists, NEW t \in Types, Well(lists, t),
         NEW p, NEW b, NEW n, NEW c, NEW m,
         EntryIn(lists, p, b, n), EntryIn(lists, p, c, m)
  PROVE  /\ b = c /\ n = m /\ b \in BGs \cup {NoBg} /\ n \in Nat /\ p \in Players
<1>1. PICK g \in GroupsIn(lists) : p \in g.players /\ g.invited = b /\ g.time = n
  BY DEF EntryIn
<1>2. PICK h \in GroupsIn(lists) : p \in h.players /\ h.invited = c /\ h.time = m
  BY DEF EntryIn
<1>3. g = h /\ g \in GroupInfo
  BY <1>1, <1>2, OneGroup
<1> QED BY <1>1, <1>2, <1>3, GroupFields

\* Lists made from others by leaving out groups and players, or by changing
\* what is not about who is in a group, are well made if those are.
PlacedFrom(new, old, at) ==
  /\ new \in [Lists -> Seq(GroupInfo)]
  /\ \A l \in Lists : \A i \in DOMAIN new[l] :
       /\ at[l][i] \in DOMAIN old[l]
       /\ new[l][i].players \subseteq old[l][at[l][i]].players
       /\ new[l][i].team = old[l][at[l][i]].team
  /\ \A l \in Lists : \A i, j \in DOMAIN new[l] : at[l][i] = at[l][j] => i = j

\* Lists are well made when they are made so from others that are.
LEMMA WellFrom ==
  ASSUME NEW t \in Types, NEW old, Well(old, t), NEW new, NEW at, PlacedFrom(new, old, at)
  PROVE  Well(new, t)
<1>0. /\ new \in [Lists -> Seq(GroupInfo)]
      /\ \A l \in Lists : \A i \in DOMAIN new[l] :
           /\ at[l][i] \in DOMAIN old[l]
           /\ new[l][i].players \subseteq old[l][at[l][i]].players
           /\ new[l][i].team = old[l][at[l][i]].team
      /\ \A l \in Lists : \A i, j \in DOMAIN new[l] : at[l][i] = at[l][j] => i = j
  BY DEF PlacedFrom
<1>1. old \in [Lists -> Seq(GroupInfo)] /\ RightTeams(old, t) /\ Apart(old)
  BY DEF Well
<1>2. Apart(new)
  <2> SUFFICES ASSUME NEW k \in Lists, NEW l \in Lists,
                      NEW i \in DOMAIN new[k], NEW j \in DOMAIN new[l],
                      new[k][i].players \cap new[l][j].players # {}
               PROVE  k = l /\ i = j
    BY DEF Apart
  <2>1. /\ at[k][i] \in DOMAIN old[k] /\ at[l][j] \in DOMAIN old[l]
        /\ old[k][at[k][i]].players \cap old[l][at[l][j]].players # {}
    BY <1>0
  <2>2. k = l /\ at[k][i] = at[l][j]
    BY <1>1, <2>1 DEF Apart
  <2> QED BY <1>0, <2>2
<1>3. RightTeams(new, t)
  <2> SUFFICES ASSUME NEW l \in Lists, NEW i \in DOMAIN new[l]
               PROVE  /\ new[l][i].team = l[2]
                      /\ \A p \in new[l][i].players : TeamOf[p] = l[2]
                      /\ Cardinality(new[l][i].players) <= MaxPlayersPerTeam[t]
    BY DEF RightTeams
  <2> DEFINE g == new[l][i]
             h == old[l][at[l][i]]
  <2>1. /\ g.players \subseteq h.players /\ g.team = h.team
        /\ h.team = l[2] /\ (\A p \in h.players : TeamOf[p] = l[2])
        /\ Cardinality(h.players) <= MaxPlayersPerTeam[t]
    BY <1>0, <1>1 DEF RightTeams
  <2>2. h \in GroupInfo /\ g \in GroupInfo
    BY <1>0, <1>1, GroupPlaces
  <2>3. IsFiniteSet(h.players) /\ IsFiniteSet(g.players)
    BY <2>2, GroupFields
  <2> HIDE DEF g, h
  <2>4. Cardinality(g.players) <= Cardinality(h.players)
    BY <2>1, <2>3, FS_Subset
  <2>5. /\ Cardinality(g.players) \in Nat /\ Cardinality(h.players) \in Nat
        /\ MaxPlayersPerTeam[t] \in Nat
    BY <2>3, FS_CardinalityType, Constants
  <2>6. Cardinality(g.players) <= MaxPlayersPerTeam[t]
    BY <2>1, <2>4, <2>5
  <2> QED BY <2>1, <2>6 DEF g
<1> QED BY <1>0, <1>2, <1>3 DEF Well

-----------------------------------------------------------------------------
(* Leaving a queue.                                                        *)

\* Where the groups that Without leaves were.
LEMMA WithoutPlacement ==
  ASSUME NEW list \in Seq(GroupInfo), NEW p
  PROVE  /\ Without(list, p) \in Seq(GroupInfo)
         /\ \E at : Placement(Without(list, p),
                [i \in DOMAIN list |-> [list[i] EXCEPT !.players = @ \ {p}]],
                GroupInfo, at, Len(list))
<1> DEFINE S == [players : SUBSET Players, team : Teams,
                 invited : BGs \cup {NoBg}, time : Nat]
           s == [i \in DOMAIN list |-> [list[i] EXCEPT !.players = @ \ {p}]]
<1>1. DOMAIN list = 1..Len(list) /\ Len(list) \in Nat
  OBVIOUS
<1>2. \A i \in DOMAIN list : s[i] \in S
  <2> TAKE i \in DOMAIN list
  <2>1. list[i] \in GroupInfo
    OBVIOUS
  <2>2. list[i] \in S
    BY <2>1 DEF GroupInfo
  <2>3. [list[i] EXCEPT !.players = @ \ {p}] \in S
    BY <2>2
  <2> QED BY <2>3
<1> HIDE DEF S
<1>3. s \in Seq(S) /\ Len(s) = Len(list)
  BY <1>1, <1>2
<1>4. Without(list, p) = Kept(s, GroupInfo)
  BY DEF Without
<1> HIDE DEF s
<1>5. /\ Kept(s, GroupInfo) \in Seq(S)
      /\ \E at : Placement(Kept(s, GroupInfo), s, GroupInfo, at, Len(s))
  BY <1>3, KeptPlacement
<1>6. PICK at : Placement(Kept(s, GroupInfo), s, GroupInfo, at, Len(s))
  BY <1>5
<1> DEFINE r == Kept(s, GroupInfo)
<1>7. \A j \in 1..Len(r) : r[j] \in GroupInfo
  BY <1>6 DEF Placement
<1>8. r \in Seq(GroupInfo)
  <2>1. r \in Seq(S)
    BY <1>5
  <2> HIDE DEF r
  <2> QED BY <1>7, <2>1
<1> QED BY <1>3, <1>4, <1>6, <1>8 DEF s

\* Without p a list has the other groups, and of his group the others.
LeftBy(new, old, p, at) ==
  /\ \A i \in DOMAIN new : /\ at[i] \in DOMAIN old
                           /\ new[i] = [old[at[i]] EXCEPT !.players = @ \ {p}]
  /\ \A i, j \in DOMAIN new : at[i] = at[j] => i = j
  /\ \A k \in DOMAIN old : old[k].players \ {p} # {} => \E i \in DOMAIN new : at[i] = k

\* Without leaves of each group the players but p, unless there are none.
LEMMA WithoutLeft ==
  ASSUME NEW list \in Seq(GroupInfo), NEW p
  PROVE  Without(list, p) \in Seq(GroupInfo) /\ \E at : LeftBy(Without(list, p), list, p, at)
<1> DEFINE s == [i \in DOMAIN list |-> [list[i] EXCEPT !.players = @ \ {p}]]
           r == Without(list, p)
<1>1. r \in Seq(GroupInfo)
  BY WithoutPlacement
<1>2. PICK at : Placement(r, s, GroupInfo, at, Len(list))
  BY WithoutPlacement
<1>3. DOMAIN list = 1..Len(list) /\ DOMAIN r = 1..Len(r)
  BY <1>1
<1>4. \A i \in DOMAIN list : s[i] = [list[i] EXCEPT !.players = @ \ {p}]
  OBVIOUS
<1> HIDE DEF r, s
<1>5. \A i \in DOMAIN r : at[i] \in DOMAIN list /\ r[i] = [list[at[i]] EXCEPT !.players = @ \ {p}]
  BY <1>2, <1>3, <1>4 DEF Placement
<1>6. \A i, j \in DOMAIN r : at[i] = at[j] => i = j
  BY <1>2, <1>3 DEF Placement
<1>7. ASSUME NEW k \in DOMAIN list, list[k].players \ {p} # {}
      PROVE  \E i \in DOMAIN r : at[i] = k
  <2>1. list[k] \in GroupInfo
    BY <1>3
  <2>2. [list[k] EXCEPT !.players = @ \ {p}] \in GroupInfo
    BY <1>7, <2>1 DEF GroupInfo
  <2>3. s[k] \in GroupInfo
    BY <1>4, <2>2
  <2> QED BY <1>2, <1>3, <2>3 DEF Placement
<1>8. LeftBy(r, list, p, at)
  BY <1>5, <1>6, <1>7 DEF LeftBy
<1> QED BY <1>1, <1>8 DEF r

\* Who leaves a queue loses his entry; the others keep theirs.
LEMMA DequeuedEntries ==
  ASSUME NEW t \in Types, NEW p, Well(queue[t], t)
  PROVE  /\ Well(Dequeued(t, p), t)
         /\ \A q, b, n : EntryIn(Dequeued(t, p), q, b, n) <=> q # p /\ EntryIn(queue[t], q, b, n)
<1> DEFINE old == queue[t]
           new == Dequeued(t, p)
<1>1. old \in [Lists -> Seq(GroupInfo)]
  BY DEF Well
<1>2. \A l \in Lists : new[l] = Without(old[l], p)
  BY DEF Dequeued
<1>3. \A l \in Lists : new[l] \in Seq(GroupInfo) /\ \E a : LeftBy(new[l], old[l], p, a)
  BY <1>1, <1>2, WithoutLeft
<1>4. new \in [Lists -> Seq(GroupInfo)]
  BY <1>3 DEF Dequeued
<1> DEFINE at == [l \in Lists |-> CHOOSE a : LeftBy(new[l], old[l], p, a)]
<1>5. \A l \in Lists : LeftBy(new[l], old[l], p, at[l])
  <2> HIDE DEF new, old
  <2> QED BY <1>3
<1>6. Well(old, t)
  OBVIOUS
<1> HIDE DEF new, old, at
<1>7. /\ \A g : g \in GroupsIn(old) <=>
              \E l \in Lists : \E i \in DOMAIN old[l] : g = old[l][i]
      /\ \A l \in Lists : \A i \in DOMAIN old[l] : old[l][i] \in GroupInfo
  BY <1>1, GroupPlaces
<1>8. \A g : g \in GroupsIn(new) <=>
              \E l \in Lists : \E i \in DOMAIN new[l] : g = new[l][i]
  BY <1>4, GroupPlaces
<1>9. ASSUME NEW g \in GroupInfo
      PROVE  LET h == [g EXCEPT !.players = @ \ {p}] IN
             /\ h.players = g.players \ {p} /\ h.team = g.team
             /\ h.invited = g.invited /\ h.time = g.time
  BY DEF GroupInfo
<1>10. \A l \in Lists : \A i \in DOMAIN new[l] :
         /\ at[l][i] \in DOMAIN old[l]
         /\ new[l][i].players = old[l][at[l][i]].players \ {p}
         /\ new[l][i].team = old[l][at[l][i]].team
         /\ new[l][i].invited = old[l][at[l][i]].invited
         /\ new[l][i].time = old[l][at[l][i]].time
  <2> TAKE l \in Lists
  <2> TAKE i \in DOMAIN new[l]
  <2> DEFINE g == old[l][at[l][i]]
  <2>1. at[l][i] \in DOMAIN old[l] /\ new[l][i] = [g EXCEPT !.players = @ \ {p}]
    BY <1>5 DEF LeftBy
  <2>2. g \in GroupInfo
    BY <1>7, <2>1
  <2> HIDE DEF g
  <2>3. /\ new[l][i].players = g.players \ {p} /\ new[l][i].team = g.team
        /\ new[l][i].invited = g.invited /\ new[l][i].time = g.time
    BY <1>9, <2>1, <2>2
  <2> QED BY <2>1, <2>3 DEF g
<1>11. Well(new, t)
  <2>1. \A l \in Lists : \A i, j \in DOMAIN new[l] : at[l][i] = at[l][j] => i = j
    BY <1>5 DEF LeftBy
  <2>2. \A l \in Lists : \A i \in DOMAIN new[l] :
            /\ at[l][i] \in DOMAIN old[l]
            /\ new[l][i].players \subseteq old[l][at[l][i]].players
            /\ new[l][i].team = old[l][at[l][i]].team
    BY <1>10
  <2>3. PlacedFrom(new, old, at)
    BY <1>4, <2>1, <2>2 DEF PlacedFrom
  <2> QED BY <1>6, <2>3, WellFrom
<1>12. ASSUME NEW q, NEW b, NEW n, EntryIn(new, q, b, n)
       PROVE  q # p /\ EntryIn(old, q, b, n)
  <2>1. PICK h \in GroupsIn(new) : q \in h.players /\ h.invited = b /\ h.time = n
    BY <1>12 DEF EntryIn
  <2>2. PICK l \in Lists : \E i \in DOMAIN new[l] : h = new[l][i]
    BY <1>8, <2>1
  <2>20. PICK i \in DOMAIN new[l] : h = new[l][i]
    BY <2>2
  <2> DEFINE g == old[l][at[l][i]]
  <2>3. g \in GroupsIn(old) /\ h.players = g.players \ {p} /\ g.invited = b /\ g.time = n
    BY <1>7, <1>10, <2>1, <2>20
  <2> HIDE DEF g
  <2> QED BY <2>1, <2>3 DEF EntryIn
<1>13. ASSUME NEW q, NEW b, NEW n, EntryIn(old, q, b, n), q # p
       PROVE  EntryIn(new, q, b, n)
  <2>1. PICK g \in GroupsIn(old) : q \in g.players /\ g.invited = b /\ g.time = n
    BY <1>13 DEF EntryIn
  <2>2. PICK l \in Lists : \E k \in DOMAIN old[l] : g = old[l][k]
    BY <1>7, <2>1
  <2>20. PICK k \in DOMAIN old[l] : g = old[l][k]
    BY <2>2
  <2>3. old[l][k].players \ {p} # {}
    BY <1>13, <2>1, <2>20
  <2>4. PICK i \in DOMAIN new[l] : at[l][i] = k
    BY <1>5, <2>3 DEF LeftBy
  <2> DEFINE h == new[l][i]
  <2>5. h \in GroupsIn(new) /\ h.players = g.players \ {p} /\ h.invited = b /\ h.time = n
    BY <1>8, <1>10, <2>1, <2>20, <2>4
  <2> HIDE DEF h
  <2> QED BY <1>13, <2>1, <2>5 DEF EntryIn
<1> QED BY <1>11, <1>12, <1>13 DEF new, old

\* A group that joins at the end of a list.
LEMMA JoinedEntries ==
  ASSUME NEW t \in Types, NEW old, Well(old, t), NEW l \in Lists, NEW g \in GroupInfo,
         g.team = l[2], \A p \in g.players : TeamOf[p] = l[2],
         Cardinality(g.players) <= MaxPlayersPerTeam[t],
         \A p \in g.players : \A b, n : ~EntryIn(old, p, b, n)
  PROVE  LET new == [old EXCEPT ![l] = Append(@, g)] IN
         /\ Well(new, t)
         /\ \A q, b, n : EntryIn(new, q, b, n) <=>
              EntryIn(old, q, b, n) \/ (q \in g.players /\ b = g.invited /\ n = g.time)
<1> DEFINE new == [old EXCEPT ![l] = Append(@, g)]
<1>1. old \in [Lists -> Seq(GroupInfo)] /\ RightTeams(old, t) /\ Apart(old)
  BY DEF Well
<1>2. old[l] \in Seq(GroupInfo) /\ Len(old[l]) \in Nat
  BY <1>1
<1> DEFINE m == Len(old[l]) + 1
<1>3. /\ Append(old[l], g) \in Seq(GroupInfo)
      /\ DOMAIN Append(old[l], g) = 1..m
      /\ Append(old[l], g)[m] = g
      /\ \A i \in DOMAIN old[l] : Append(old[l], g)[i] = old[l][i]
      /\ \A i \in 1..m : i = m \/ i \in DOMAIN old[l]
      /\ m \notin DOMAIN old[l]
  BY <1>2
<1>4. new[l] = Append(old[l], g) /\ \A k \in Lists : k # l => new[k] = old[k]
  BY <1>1
<1>5. new \in [Lists -> Seq(GroupInfo)]
  BY <1>1, <1>3
<1> HIDE DEF new, m
<1>6. /\ \A h : h \in GroupsIn(old) <=>
              \E k \in Lists : \E i \in DOMAIN old[k] : h = old[k][i]
      /\ \A k \in Lists : \A i \in DOMAIN old[k] : old[k][i] \in GroupInfo
  BY <1>1, GroupPlaces
<1>7. \A h : h \in GroupsIn(new) <=>
              \E k \in Lists : \E i \in DOMAIN new[k] : h = new[k][i]
  BY <1>5, GroupPlaces
<1>8. \A k \in Lists : \A i \in DOMAIN new[k] :
        \/ k = l /\ i = m /\ new[k][i] = g
        \/ i \in DOMAIN old[k] /\ new[k][i] = old[k][i]
  BY <1>3, <1>4
<1>9. /\ \A k \in Lists : \A i \in DOMAIN old[k] : i \in DOMAIN new[k] /\ new[k][i] = old[k][i]
      /\ m \in DOMAIN new[l] /\ new[l][m] = g
  <2>1. m \in 1..m
    BY <1>2 DEF m
  <2>2. \A i \in DOMAIN old[l] : i \in 1..m
    BY <1>2 DEF m
  <2> QED BY <1>3, <1>4, <2>1, <2>2
<1>10. \A h \in GroupsIn(old) : h.players \cap g.players = {}
  BY DEF EntryIn
<1>11. \A k \in Lists : \A i \in DOMAIN old[k] : old[k][i].players \cap g.players = {}
  BY <1>6, <1>10
<1>12. Well(new, t)
  <2>1. RightTeams(new, t)
    BY <1>1, <1>8 DEF RightTeams
  <2>2. ASSUME NEW k \in Lists, NEW j \in Lists, NEW u \in DOMAIN new[k], NEW v \in DOMAIN new[j],
               new[k][u].players \cap new[j][v].players # {}
        PROVE  k = j /\ u = v
    <3>1. \/ k = l /\ u = m /\ new[k][u] = g
          \/ u \in DOMAIN old[k] /\ new[k][u] = old[k][u]
      BY <1>8
    <3>2. \/ j = l /\ v = m /\ new[j][v] = g
          \/ v \in DOMAIN old[j] /\ new[j][v] = old[j][v]
      BY <1>8
    <3>3. CASE u \in DOMAIN old[k] /\ new[k][u] = old[k][u] /\ v \in DOMAIN old[j] /\ new[j][v] = old[j][v]
      BY <1>1, <2>2, <3>3 DEF Apart
    <3> QED BY <1>11, <2>2, <3>1, <3>2, <3>3
  <2>3. Apart(new)
    BY <2>2 DEF Apart
  <2> QED BY <1>5, <2>1, <2>3 DEF Well
<1>13. \A h : h \in GroupsIn(new) <=> h \in GroupsIn(old) \/ h = g
  BY <1>6, <1>7, <1>8, <1>9
<1>14. \A q, b, n : EntryIn(new, q, b, n) <=>
              EntryIn(old, q, b, n) \/ (q \in g.players /\ b = g.invited /\ n = g.time)
  BY <1>13 DEF EntryIn
<1> QED BY <1>12, <1>14 DEF new

-----------------------------------------------------------------------------
(* Times and invitations.                                                  *)

\* As many times as there are, one more is not among them.
LEMMA Unused ==
  ASSUME NEW used, IsFiniteSet(used)
  PROVE  \E n \in 1..(Cardinality(used) + 1) : n \notin used
<1> DEFINE m == Cardinality(used)
<1>1. m \in Nat
  BY FS_CardinalityType
<1>2. SUFFICES ASSUME 1..(m + 1) \subseteq used PROVE FALSE
  OBVIOUS
<1>3. IsFiniteSet(1..(m + 1)) /\ Cardinality(1..(m + 1)) = m + 1
  <2>1. 1 \in Int /\ m + 1 \in Int /\ ~(1 > m + 1) /\ (m + 1) - 1 + 1 = m + 1
    BY <1>1
  <2> HIDE DEF m
  <2> QED BY <2>1, FS_Interval
<1>4. Cardinality(1..(m + 1)) <= m
  BY <1>2, FS_Subset
<1> HIDE DEF m
<1> QED BY <1>1, <1>3, <1>4

\* What a function makes of finitely many is finite.
LEMMA FiniteImage ==
  ASSUME NEW S, IsFiniteSet(S), NEW f, NEW T, \A y \in T : \E x \in S : f[x] = y
  PROVE  IsFiniteSet(T)
<1> DEFINE D == {x \in S : f[x] \in T}
           h == [x \in D |-> f[x]]
<1>1. IsFiniteSet(D)
  BY FS_Subset
<1>2. h \in Surjection(D, T)
  BY DEF Surjection
<1> HIDE DEF h, D
<1> QED BY <1>1, <1>2, FS_Surjection

\* The lists have finitely many groups.
LEMMA FiniteGroups ==
  ASSUME NEW lists \in [Lists -> Seq(GroupInfo)]
  PROVE  IsFiniteSet(GroupsIn(lists))
<1>1. IsFiniteSet(Lists)
  <2>1. \A x, y : IsFiniteSet({x, y})
    <3> TAKE x, y
    <3>1. IsFiniteSet({x} \cup {y})
      BY FS_Singleton, FS_Union
    <3>2. {x} \cup {y} = {x, y}
      OBVIOUS
    <3> QED BY <3>1, <3>2
  <2>2. IsFiniteSet(Kinds) /\ IsFiniteSet(Teams)
    BY <2>1 DEF Kinds, Teams
  <2> QED BY <2>2, FS_Product DEF Lists
<1>2. \A l \in Lists : IsFiniteSet(Range(lists[l]))
  <2> TAKE l \in Lists
  <2>1. DOMAIN lists[l] = 1..Len(lists[l]) /\ Len(lists[l]) \in Nat
    OBVIOUS
  <2>2. IsFiniteSet(DOMAIN lists[l])
    BY <2>1, FS_Interval
  <2>3. \A y \in Range(lists[l]) : \E i \in DOMAIN lists[l] : lists[l][i] = y
    BY DEF Range
  <2> QED BY <2>2, <2>3, FiniteImage
<1> DEFINE R == {Range(lists[l]) : l \in Lists}
<1>3. IsFiniteSet(R)
  <2> DEFINE f == [l \in Lists |-> Range(lists[l])]
  <2>1. \A y \in R : \E l \in Lists : f[l] = y
    OBVIOUS
  <2> HIDE DEF f, R
  <2> QED BY <1>1, <2>1, FiniteImage
<1>4. \A r \in R : IsFiniteSet(r)
  BY <1>2
<1> HIDE DEF R
<1>5. IsFiniteSet(UNION R)
  BY <1>3, <1>4, FS_UNION
<1> QED BY <1>5 DEF R, GroupsIn

\* There always is another time.
LEMMA NewTimes ==
  ASSUME \A t \in Types : queue[t] \in [Lists -> Seq(GroupInfo)],
         DOMAIN events = Players, \A p \in Players : IsFiniteSet(events[p]),
         NEW b
  PROVE  NewTime(b) \in Nat
<1> DEFINE E == {e \in UNION Range(events) : e.bg = b}
           G == {h \in UNION {GroupsOf(t) : t \in Types} : h.invited = b}
           used == {e.time : e \in E} \cup {g.time : g \in G}
<1>1. IsFiniteSet(E)
  <2>1. \A x \in Range(events) : \E p \in Players : events[p] = x
    BY DEF Range
  <2>2. IsFiniteSet(Range(events)) /\ \A x \in Range(events) : IsFiniteSet(x)
    BY <2>1, Constants, FiniteImage
  <2>3. IsFiniteSet(UNION Range(events))
    BY <2>2, FS_UNION
  <2> QED BY <2>3, FS_Subset
<1>2. IsFiniteSet(G)
  <2> DEFINE R == {GroupsOf(t) : t \in Types}
  <2>1. \A t \in Types : GroupsOf(t) = GroupsIn(queue[t])
    BY DEF GroupsOf, GroupsIn
  <2>2. \A x \in R : IsFiniteSet(x)
    BY <2>1, FiniteGroups
  <2> DEFINE f == [t \in Types |-> GroupsOf(t)]
  <2>3. \A x \in R : \E t \in Types : f[t] = x
    OBVIOUS
  <2> HIDE DEF R, f
  <2>4. IsFiniteSet(R)
    BY <2>3, Constants, FiniteImage
  <2>5. IsFiniteSet(UNION R)
    BY <2>2, <2>4, FS_UNION
  <2> QED BY <2>5, FS_Subset DEF R
<1>3. IsFiniteSet({e.time : e \in E}) /\ IsFiniteSet({g.time : g \in G})
  <2> DEFINE T == {e.time : e \in E}
             U == {g.time : g \in G}
             f == [e \in E |-> e.time]
             h == [g \in G |-> g.time]
  <2>1. (\A y \in T : \E e \in E : f[e] = y) /\ (\A y \in U : \E g \in G : h[g] = y)
    <3> HIDE DEF E, G
    <3> QED OBVIOUS
  <2>2. IsFiniteSet(T)
    <3> HIDE DEF E, G, T, f
    <3> QED BY <1>1, <2>1, FiniteImage
  <2>3. IsFiniteSet(U)
    <3> HIDE DEF E, G, U, h
    <3> QED BY <1>2, <2>1, FiniteImage
  <2> HIDE DEF E, G
  <2> QED BY <2>2, <2>3
<1>4. IsFiniteSet(used)
  <2> HIDE DEF E, G
  <2> QED BY <1>3, FS_Union
<1>5. NewTime(b) = CHOOSE n \in 1..(Cardinality(used) + 1) : n \notin used
  BY DEF NewTime
<1> HIDE DEF used
<1>6. NewTime(b) \in 1..(Cardinality(used) + 1)
  BY <1>4, <1>5, Unused
<1> QED BY <1>6

\* Who are invited, and to where, when lists change from old to new.
Invitation(new, old, inv) ==
  /\ inv \in [Players -> BGs \cup {NoBg}]
  /\ \A q \in Players : inv[q] # NoBg => \E n : EntryIn(old, q, NoBg, n)
  /\ \A q \in Players : \A b, n : EntryIn(new, q, b, n) <=>
       IF inv[q] = NoBg THEN EntryIn(old, q, b, n) ELSE b = inv[q] /\ n = NewTime(b)
  /\ \A g \in GroupsIn(new) : \A q \in g.players : inv[q] = NoBg => g \in GroupsIn(old)

\* One who is invited after others.
InvitedAfter(inv, more) == [q \in Players |-> IF more[q] = NoBg THEN inv[q] ELSE more[q]]

\* Invitations after others are invitations, to different players.
LEMMA InvitationsCompose ==
  ASSUME NEW t \in Types, NEW old, NEW mid, NEW new, Well(old, t), Well(mid, t), Well(new, t),
         NEW inv, NEW more, Invitation(mid, old, inv), Invitation(new, mid, more)
  PROVE  /\ Invitation(new, old, InvitedAfter(inv, more))
         /\ \A q \in Players : inv[q] = NoBg \/ more[q] = NoBg
<1> DEFINE both == InvitedAfter(inv, more)
<1>1. /\ inv \in [Players -> BGs \cup {NoBg}]
      /\ \A q \in Players : inv[q] # NoBg => \E n : EntryIn(old, q, NoBg, n)
      /\ \A q \in Players : \A b, n : EntryIn(mid, q, b, n) <=>
           IF inv[q] = NoBg THEN EntryIn(old, q, b, n) ELSE b = inv[q] /\ n = NewTime(b)
      /\ \A g \in GroupsIn(mid) : \A q \in g.players : inv[q] = NoBg => g \in GroupsIn(old)
  BY DEF Invitation
<1>2. /\ more \in [Players -> BGs \cup {NoBg}]
      /\ \A q \in Players : more[q] # NoBg => \E n : EntryIn(mid, q, NoBg, n)
      /\ \A q \in Players : \A b, n : EntryIn(new, q, b, n) <=>
           IF more[q] = NoBg THEN EntryIn(mid, q, b, n) ELSE b = more[q] /\ n = NewTime(b)
      /\ \A g \in GroupsIn(new) : \A q \in g.players : more[q] = NoBg => g \in GroupsIn(mid)
  BY DEF Invitation
<1>3. \A q \in Players : inv[q] = NoBg \/ more[q] = NoBg
  BY <1>1, <1>2
<1>4. \A q \in Players : both[q] = IF more[q] = NoBg THEN inv[q] ELSE more[q]
  BY DEF InvitedAfter
<1>5. both \in [Players -> BGs \cup {NoBg}]
  BY <1>1, <1>2 DEF InvitedAfter
<1> HIDE DEF both
<1>6. \A q \in Players : both[q] # NoBg => \E n : EntryIn(old, q, NoBg, n)
  BY <1>1, <1>2, <1>3, <1>4
<1>7. \A q \in Players : \A b, n : EntryIn(new, q, b, n) <=>
        IF both[q] = NoBg THEN EntryIn(old, q, b, n) ELSE b = both[q] /\ n = NewTime(b)
  BY <1>1, <1>2, <1>3, <1>4
<1>8. \A g \in GroupsIn(new) : \A q \in g.players : both[q] = NoBg => g \in GroupsIn(old)
  <2>1. \A g \in GroupsIn(new) : \A q \in g.players : q \in Players
    BY OneGroup, GroupFields
  <2> QED BY <1>1, <1>2, <1>4, <2>1
<1>9. Invitation(new, old, both)
  BY <1>5, <1>6, <1>7, <1>8 DEF Invitation
<1> QED BY <1>3, <1>9 DEF both

\* InviteGroups in each list, of groups that wait.
InGroups(q, lists, groups) == \E l \in Lists : \E i \in groups[l] : q \in lists[l][i].players
InvitedNow(lists, groups, b) ==
  [q \in Players |-> IF InGroups(q, lists, groups) THEN b ELSE NoBg]
Chosen(groups, lists) ==
  \A l \in Lists : \A i \in groups[l] : i \in DOMAIN lists[l] /\ lists[l][i].invited = NoBg

\* InviteGroups invites the players of the groups, and nobody else.
LEMMA GroupsInvited ==
  ASSUME NEW t \in Types, NEW old, Well(old, t), NEW b \in BGs, NewTime(b) \in Nat,
         NEW groups, Chosen(groups, old),
         NEW new \in [Lists -> Seq(GroupInfo)],
         \A l \in Lists : new[l] = InviteGroups(old[l], groups[l], b)
  PROVE  Well(new, t) /\ Invitation(new, old, InvitedNow(old, groups, b))
<1> DEFINE inv == InvitedNow(old, groups, b)
           moved(g) == [g EXCEPT !.invited = b, !.time = NewTime(b)]
<1>1. old \in [Lists -> Seq(GroupInfo)] /\ Apart(old)
  BY DEF Well
<1>2. /\ \A g : g \in GroupsIn(old) <=>
              \E l \in Lists : \E i \in DOMAIN old[l] : g = old[l][i]
      /\ \A l \in Lists : \A i \in DOMAIN old[l] : old[l][i] \in GroupInfo
  BY <1>1, GroupPlaces
<1>3. \A g : g \in GroupsIn(new) <=>
              \E l \in Lists : \E i \in DOMAIN new[l] : g = new[l][i]
  BY GroupPlaces
<1>4. \A l \in Lists :
        /\ DOMAIN new[l] = DOMAIN old[l]
        /\ \A i \in DOMAIN old[l] : new[l][i] = IF i \in groups[l] THEN moved(old[l][i]) ELSE old[l][i]
  BY DEF InviteGroups
<1>5. \A g \in GroupInfo : /\ moved(g).players = g.players /\ moved(g).team = g.team
                           /\ moved(g).invited = b /\ moved(g).time = NewTime(b)
  BY DEF GroupInfo
<1> HIDE DEF moved
<1>6. \A l \in Lists : \A i \in DOMAIN old[l] :
        /\ new[l][i].players = old[l][i].players /\ new[l][i].team = old[l][i].team
        /\ i \notin groups[l] => new[l][i] = old[l][i]
        /\ i \in groups[l] => new[l][i].invited = b /\ new[l][i].time = NewTime(b)
  BY <1>2, <1>4, <1>5
<1>7. Well(new, t)
  <2> DEFINE at == [l \in Lists |-> [i \in DOMAIN new[l] |-> i]]
  <2>1. \A l \in Lists : \A i \in DOMAIN new[l] : at[l][i] = i
    OBVIOUS
  <2> HIDE DEF at
  <2>2. PlacedFrom(new, old, at)
    BY <1>4, <1>6, <2>1 DEF PlacedFrom
  <2> QED BY <2>2, WellFrom
<1>8. inv \in [Players -> BGs \cup {NoBg}]
      /\ \A q \in Players : inv[q] = IF InGroups(q, old, groups) THEN b ELSE NoBg
  BY DEF InvitedNow
<1>9. b # NoBg
  BY Constants
<1> HIDE DEF inv
<1>10. ASSUME NEW q \in Players, inv[q] # NoBg
       PROVE  \E n : EntryIn(old, q, NoBg, n)
  <2>1. InGroups(q, old, groups)
    BY <1>8, <1>10
  <2>2. PICK l \in Lists : \E i \in groups[l] : q \in old[l][i].players
    BY <2>1 DEF InGroups
  <2>3. PICK i \in groups[l] : q \in old[l][i].players
    BY <2>2
  <2>4. old[l][i].invited = NoBg /\ old[l][i] \in GroupsIn(old)
    BY <1>2, <2>3 DEF Chosen
  <2> QED BY <2>3, <2>4 DEF EntryIn
<1>11. ASSUME NEW q \in Players, NEW l \in Lists, NEW i \in DOMAIN old[l], q \in old[l][i].players
       PROVE  inv[q] = IF i \in groups[l] THEN b ELSE NoBg
  <2>1. ASSUME InGroups(q, old, groups) PROVE i \in groups[l]
    <3>1. PICK k \in Lists : \E j \in groups[k] : q \in old[k][j].players
      BY <2>1 DEF InGroups
    <3>2. PICK j \in groups[k] : q \in old[k][j].players
      BY <3>1
    <3>3. j \in DOMAIN old[k]
      BY DEF Chosen
    <3>4. k = l /\ j = i
      BY <1>1, <1>11, <3>2, <3>3 DEF Apart
    <3> QED BY <3>4
  <2>2. i \in groups[l] => InGroups(q, old, groups)
    BY <1>11 DEF InGroups
  <2> QED BY <1>8, <2>1, <2>2
<1>12. ASSUME NEW q \in Players, NEW c, NEW n
       PROVE  EntryIn(new, q, c, n) <=>
                IF inv[q] = NoBg THEN EntryIn(old, q, c, n) ELSE c = inv[q] /\ n = NewTime(c)
  <2>1. ASSUME EntryIn(new, q, c, n)
        PROVE  IF inv[q] = NoBg THEN EntryIn(old, q, c, n) ELSE c = inv[q] /\ n = NewTime(c)
    <3>1. PICK g \in GroupsIn(new) : q \in g.players /\ g.invited = c /\ g.time = n
      BY <2>1 DEF EntryIn
    <3>2. PICK l \in Lists : \E i \in DOMAIN new[l] : g = new[l][i]
      BY <1>3, <3>1
    <3>3. PICK i \in DOMAIN new[l] : g = new[l][i]
      BY <3>2
    <3>4. i \in DOMAIN old[l] /\ q \in old[l][i].players
      BY <1>4, <1>6, <3>1, <3>3
    <3>5. inv[q] = IF i \in groups[l] THEN b ELSE NoBg
      BY <1>11, <3>4
    <3>6. CASE i \in groups[l]
      BY <1>6, <1>9, <3>1, <3>3, <3>4, <3>5, <3>6
    <3>7. CASE i \notin groups[l]
      <4>1. new[l][i] = old[l][i] /\ old[l][i] \in GroupsIn(old) /\ inv[q] = NoBg
        BY <1>2, <1>6, <3>4, <3>5, <3>7
      <4> QED BY <3>1, <3>3, <4>1 DEF EntryIn
    <3> QED BY <3>6, <3>7
  <2>2. ASSUME IF inv[q] = NoBg THEN EntryIn(old, q, c, n) ELSE c = inv[q] /\ n = NewTime(c)
        PROVE  EntryIn(new, q, c, n)
    <3>1. \E m, d : EntryIn(old, q, d, m) /\ (inv[q] = NoBg => d = c /\ m = n)
      BY <1>10, <2>2
    <3>2. PICK g \in GroupsIn(old) : q \in g.players /\ (inv[q] = NoBg => g.invited = c /\ g.time = n)
      BY <3>1 DEF EntryIn
    <3>3. PICK l \in Lists : \E i \in DOMAIN old[l] : g = old[l][i]
      BY <1>2, <3>2
    <3>4. PICK i \in DOMAIN old[l] : g = old[l][i]
      BY <3>3
    <3>5. inv[q] = IF i \in groups[l] THEN b ELSE NoBg
      BY <1>11, <3>2, <3>4
    <3> DEFINE h == new[l][i]
    <3>6. h \in GroupsIn(new) /\ q \in h.players
      BY <1>3, <1>4, <1>6, <3>2, <3>4
    <3>7. h.invited = c /\ h.time = n
      BY <1>6, <1>9, <2>2, <3>2, <3>4, <3>5
    <3> HIDE DEF h
    <3> QED BY <3>6, <3>7 DEF EntryIn
  <2> QED BY <2>1, <2>2
<1>13. ASSUME NEW g \in GroupsIn(new), NEW q \in g.players, inv[q] = NoBg
       PROVE  g \in GroupsIn(old)
  <2>1. PICK l \in Lists : \E i \in DOMAIN new[l] : g = new[l][i]
    BY <1>3
  <2>2. PICK i \in DOMAIN new[l] : g = new[l][i]
    BY <2>1
  <2>3. i \in DOMAIN old[l] /\ q \in old[l][i].players
    BY <1>4, <1>6, <2>2
  <2>4. q \in Players
    BY <1>2, <2>3, GroupFields
  <2>5. i \notin groups[l]
    BY <1>9, <1>11, <1>13, <2>3, <2>4
  <2> QED BY <1>2, <1>6, <2>2, <2>3, <2>5
<1>14. Invitation(new, old, inv)
  BY <1>8, <1>10, <1>12, <1>13 DEF Invitation
<1> QED BY <1>7, <1>14 DEF inv

-----------------------------------------------------------------------------
(* Selection pools.                                                        *)

\* What Pool takes from the first places of a list.
PoolStep(list, desired, enough, i, before) ==
  IF /\ before.count < enough
     /\ list[i].invited = NoBg
     /\ before.count + Cardinality(list[i].players) <= desired
    THEN [groups |-> before.groups \cup {i},
          count |-> before.count + Cardinality(list[i].players)]
    ELSE before
PoolBy(g, list, have, desired, enough) ==
  /\ g[0] = [groups |-> {}, count |-> have]
  /\ \A i \in 1..Len(list) : g[i] = PoolStep(list, desired, enough, i, g[i - 1])
  /\ Pool(list, have, desired, enough) = g[Len(list)]

\* What Pool computes it computes step by step.
LEMMA PoolSteps ==
  ASSUME NEW list \in Seq(GroupInfo), NEW have \in Nat, NEW desired \in Nat, NEW enough \in Nat
  PROVE  \E g : PoolBy(g, list, have, desired, enough)
<1> DEFINE n == Len(list)
           V == [groups : SUBSET (1..n), count : Nat]
           A == [groups |-> {}, count |-> have]
           Def(f) == f = [i \in 0..n |->
             IF i = 0 THEN [groups |-> {}, count |-> have]
             ELSE LET before == f[i - 1]
                      size == Cardinality(list[i].players)
                  IN IF /\ before.count < enough
                        /\ list[i].invited = NoBg
                        /\ before.count + size <= desired
                       THEN [groups |-> before.groups \cup {i}, count |-> before.count + size]
                       ELSE before]
           step == [i \in 1..n |-> [v \in V |-> PoolStep(list, desired, enough, i, v)]]
<1>1. n \in Nat /\ A \in V
  OBVIOUS
<1>2. ASSUME NEW i \in 1..n, NEW v \in V
      PROVE  PoolStep(list, desired, enough, i, v) \in V
  <2>1. list[i] \in GroupInfo
    OBVIOUS
  <2>2. Cardinality(list[i].players) \in Nat
    BY <2>1, GroupFields, FS_CardinalityType
  <2> DEFINE size == Cardinality(list[i].players)
             w == [groups |-> v.groups \cup {i}, count |-> v.count + size]
  <2>3. v.groups \cup {i} \in SUBSET (1..n) /\ v.count + size \in Nat
    BY <2>2
  <2>4. w \in V
    <3> HIDE DEF n, size
    <3> QED BY <2>3
  <2>5. PoolStep(list, desired, enough, i, v) = w \/ PoolStep(list, desired, enough, i, v) = v
    BY DEF PoolStep
  <2> HIDE DEF w, V
  <2> QED BY <2>4, <2>5
<1>3. step \in [1..n -> [V -> V]]
  <2> HIDE DEF V, n
  <2> QED BY <1>2
<1>4. Stepwise(step, n, V)
  BY <1>3 DEF Stepwise
<1>5. PICK g : Recursive(g, step, n, V, A)
  <2> HIDE DEF step, V, n, A
  <2> QED BY ONLY <1>4, <1>1, Recursion
<1>6. /\ g \in [0..n -> V] /\ g[0] = A
      /\ \A i \in 1..n : g[i] = step[i][g[i - 1]]
  <2> HIDE DEF step, V, n, A
  <2> QED BY <1>5 DEF Recursive
<1>7. \A i \in 1..n : g[i] = PoolStep(list, desired, enough, i, g[i - 1])
  <2> TAKE i \in 1..n
  <2>1. g[i] = step[i][g[i - 1]]
    <3> HIDE DEF step
    <3> QED BY <1>6
  <2>2. i - 1 \in 0..n
    BY <1>1
  <2>3. g[i - 1] \in V
    <3> HIDE DEF V, A
    <3> QED BY <1>6, <2>2
  <2>4. step[i] = [v \in V |-> PoolStep(list, desired, enough, i, v)]
    OBVIOUS
  <2> HIDE DEF step, V
  <2> QED BY <2>1, <2>3, <2>4
<1>8. Def(g)
  <2> DEFINE h == [i \in 0..n |->
             IF i = 0 THEN [groups |-> {}, count |-> have]
             ELSE LET before == g[i - 1]
                      size == Cardinality(list[i].players)
                  IN IF /\ before.count < enough
                        /\ list[i].invited = NoBg
                        /\ before.count + size <= desired
                       THEN [groups |-> before.groups \cup {i}, count |-> before.count + size]
                       ELSE before]
  <2>1. \A i \in 0..n : h[i] = g[i]
    <3> TAKE i \in 0..n
    <3>1. CASE i = 0
      <4> HIDE DEF step, V
      <4> QED BY <1>6, <3>1
    <3>2. CASE i # 0
      <4>1. i \in 1..n
        BY <3>2
      <4>2. h[i] = PoolStep(list, desired, enough, i, g[i - 1])
        BY <3>2 DEF PoolStep
      <4> HIDE DEF n, h
      <4> QED BY <1>7, <4>1, <4>2
    <3> QED BY <3>1, <3>2
  <2>3. h = g
    <3>1. DOMAIN h = 0..n /\ h = [i \in 0..n |-> h[i]]
      OBVIOUS
    <3>2. DOMAIN g = 0..n /\ g = [i \in 0..n |-> g[i]]
      <4> HIDE DEF V
      <4> QED BY <1>6
    <3> HIDE DEF h
    <3> QED BY <2>1, <3>1, <3>2
  <2> QED BY <2>3
<1> DEFINE f == CHOOSE c : Def(c)
<1>9. Def(f)
  <2> HIDE DEF Def
  <2> QED BY <1>8
<1>10. Pool(list, have, desired, enough) = f[n]
  BY DEF Pool
<1> HIDE DEF f
<1>11. /\ f[0] = A
       /\ \A i \in 1..n : f[i] = PoolStep(list, desired, enough, i, f[i - 1])
  <2>1. f[0] = A
    BY <1>1, <1>9
  <2>2. ASSUME NEW i \in 1..n PROVE f[i] = PoolStep(list, desired, enough, i, f[i - 1])
    <3>1. i # 0 /\ i \in 0..n
      OBVIOUS
    <3> QED BY <1>9, <3>1 DEF PoolStep
  <2> QED BY <2>1, <2>2
<1>12. PoolBy(f, list, have, desired, enough)
  BY <1>10, <1>11 DEF PoolBy
<1> QED BY <1>12

\* The players of the groups at some places.
PlayersAt(list, groups) == UNION {list[i].players : i \in groups}

\* Pool takes groups that wait, and not more players than are desired.
LEMMA PoolFits ==
  ASSUME NEW list \in Seq(GroupInfo), NEW have \in Nat, NEW desired \in Nat, NEW enough \in Nat,
         \A i, j \in DOMAIN list : list[i].players \cap list[j].players # {} => i = j,
         have <= desired
  PROVE  LET groups == Pool(list, have, desired, enough).groups IN
         /\ \A i \in groups : i \in DOMAIN list /\ list[i].invited = NoBg
         /\ IsFiniteSet(PlayersAt(list, groups))
         /\ have + Cardinality(PlayersAt(list, groups)) <= desired
<1> DEFINE n == Len(list)
           Good(v, i) == /\ \A j \in v.groups : j \in 1..i /\ list[j].invited = NoBg
                         /\ IsFiniteSet(PlayersAt(list, v.groups))
                         /\ v.count = have + Cardinality(PlayersAt(list, v.groups))
                         /\ v.count <= desired
<1>1. PICK g : PoolBy(g, list, have, desired, enough)
  BY PoolSteps
<1> DEFINE G == {i \in 0..n : Good(g[i], i)}
<1>2. n \in Nat /\ DOMAIN list = 1..n
  OBVIOUS
<1>3. 0 \in G
  <2>1. g[0].groups = {} /\ g[0].count = have
    BY <1>1 DEF PoolBy
  <2>2. PlayersAt(list, {}) = {}
    BY DEF PlayersAt
  <2>3. IsFiniteSet({}) /\ Cardinality({}) = 0
    BY FS_EmptySet
  <2>4. have = have + 0
    OBVIOUS
  <2>5. Good(g[0], 0)
    BY <2>1, <2>2, <2>3, <2>4
  <2> HIDE DEF Good
  <2> QED BY <1>2, <2>5
<1>4. ASSUME NEW i \in 1..n, i - 1 \in G
      PROVE  i \in G
  <2> DEFINE v == g[i - 1]
             w == g[i]
             players == list[i].players
             size == Cardinality(players)
  <2>1. Good(v, i - 1)
    <3> HIDE DEF Good
    <3> QED BY <1>4
  <2>2. w = PoolStep(list, desired, enough, i, v)
    BY <1>1 DEF PoolBy
  <2>3. i \in Nat /\ \A j \in 1..(i - 1) : j \in 1..i /\ j # i /\ j \in DOMAIN list /\ i \in DOMAIN list
    BY <1>2
  <2>4. list[i] \in GroupInfo
    OBVIOUS
  <2>5. IsFiniteSet(players) /\ size \in Nat
    BY <2>4, GroupFields, FS_CardinalityType
  <2> HIDE DEF v, w
  <2>6. Good(w, i)
    <3>1. CASE w = v
      BY <2>1, <2>3, <3>1
    <3>2. CASE w # v
      <4>1. /\ list[i].invited = NoBg /\ v.count + size <= desired
            /\ w.groups = v.groups \cup {i} /\ w.count = v.count + size
        BY <2>2, <3>2 DEF PoolStep
      <4> DEFINE old == PlayersAt(list, v.groups)
      <4>2. PlayersAt(list, w.groups) = old \cup players
        BY <4>1 DEF PlayersAt
      <4>3. old \cap players = {}
        <5>1. ASSUME NEW q \in old, q \in players PROVE FALSE
          <6>1. PICK j \in v.groups : q \in list[j].players
            BY DEF PlayersAt
          <6>2. j \in 1..(i - 1)
            BY <2>1
          <6>3. j = i
            BY <2>3, <5>1, <6>1, <6>2
          <6> QED BY <2>3, <6>2, <6>3
        <5> QED BY <5>1
      <4>4. IsFiniteSet(old) /\ v.count = have + Cardinality(old)
        BY <2>1
      <4> HIDE DEF old, players
      <4>5. /\ IsFiniteSet(old \cup players)
            /\ Cardinality(old \cup players) = Cardinality(old) + size - Cardinality(old \cap players)
        BY <2>5, <4>4, FS_Union
      <4>6. Cardinality(old) \in Nat /\ Cardinality(old \cap players) = 0
        BY <4>3, <4>4, FS_CardinalityType, FS_EmptySet
      <4> HIDE DEF size
      <4>7. v.count + size = have + (Cardinality(old) + size - 0)
        BY ONLY <2>5, <4>4, <4>6, have \in Nat
      <4>8. \A j \in w.groups : j \in 1..i /\ list[j].invited = NoBg
        <5>1. i \in 1..i
          BY <2>3
        <5> QED BY <2>1, <2>3, <4>1, <5>1
      <4> QED BY <4>1, <4>2, <4>5, <4>6, <4>7, <4>8
    <3> QED BY <3>1, <3>2
  <2>7. Good(g[i], i)
    BY <2>6 DEF w
  <2> HIDE DEF Good
  <2> QED BY <2>7
<1>5. n \in G
  <2>1. \A i \in 0..n : i \in G
    <3> HIDE DEF G, n
    <3> QED BY <1>2, <1>3, <1>4, Upwards
  <2> HIDE DEF G
  <2> QED BY <1>2, <2>1
<1>6. Good(g[n], n)
  <2> HIDE DEF Good
  <2> QED BY <1>5
<1>7. Pool(list, have, desired, enough) = g[n]
  BY <1>1 DEF PoolBy
<1> QED BY <1>2, <1>6, <1>7

-----------------------------------------------------------------------------
(* Invitations to one battleground.                                        *)

\* The four lists.
LEMMA FourLists ==
  /\ \A l \in Lists : l[1] \in Kinds /\ l[2] \in Teams /\ l = <<l[1], l[2]>>
  /\ \A l \in Lists : l[1] = "premade" \/ l[1] = "normal"
  /\ \A k \in Kinds, team \in Teams :
       <<k, team>> \in Lists /\ <<k, team>>[1] = k /\ <<k, team>>[2] = team
  /\ "premade" \in Kinds /\ "normal" \in Kinds /\ "premade" # "normal"
BY DEF Lists, Kinds

\* Those of a team who are invited to a battleground.
Of(inv, b, team) == {q \in Players : inv[q] = b /\ TeamOf[q] = team}

\* Those of a team who are invited are in the groups chosen from its lists.
LEMMA InvitedOfTeam ==
  ASSUME NEW t \in Types, NEW old, Well(old, t), NEW b \in BGs,
         NEW groups, Chosen(groups, old), NEW team \in Teams
  PROVE  /\ Of(InvitedNow(old, groups, b), b, team) \subseteq
              PlayersAt(old[<<"premade", team>>], groups[<<"premade", team>>]) \cup
              PlayersAt(old[<<"normal", team>>], groups[<<"normal", team>>])
         /\ \A q \in Players : InvitedNow(old, groups, b)[q] \in {NoBg, b}
<1> DEFINE inv == InvitedNow(old, groups, b)
<1>1. \A q \in Players : inv[q] = IF InGroups(q, old, groups) THEN b ELSE NoBg
  BY DEF InvitedNow
<1> HIDE DEF inv
<1>2. ASSUME NEW q \in Players, inv[q] = b, TeamOf[q] = team
      PROVE  q \in PlayersAt(old[<<"premade", team>>], groups[<<"premade", team>>]) \cup
                   PlayersAt(old[<<"normal", team>>], groups[<<"normal", team>>])
  <2>1. InGroups(q, old, groups)
    BY <1>1, <1>2, Constants
  <2>2. PICK l \in Lists : \E i \in groups[l] : q \in old[l][i].players
    BY <2>1 DEF InGroups
  <2>3. PICK i \in groups[l] : q \in old[l][i].players
    BY <2>2
  <2>4. i \in DOMAIN old[l]
    BY DEF Chosen
  <2>5. l[2] = team
    BY <1>2, <2>3, <2>4 DEF Well, RightTeams
  <2>6. l = <<"premade", team>> \/ l = <<"normal", team>>
    BY <2>5, FourLists
  <2>7. q \in PlayersAt(old[l], groups[l])
    BY <2>3 DEF PlayersAt
  <2> QED BY <2>6, <2>7
<1>3. Of(inv, b, team) \subseteq
              PlayersAt(old[<<"premade", team>>], groups[<<"premade", team>>]) \cup
              PlayersAt(old[<<"normal", team>>], groups[<<"normal", team>>])
  BY <1>2 DEF Of
<1> QED BY <1>1, <1>3 DEF inv

\* The lists new are old with invitations to b, of each team at most room.
InvitesTo(new, old, t, b, inv, room) ==
  /\ Well(new, t) /\ Invitation(new, old, inv)
  /\ \A q \in Players : inv[q] \in {NoBg, b}
  /\ \A team \in Teams : Cardinality(Of(inv, b, team)) <= room[team]

\* Who invites no group changes nothing.
LEMMA SameList ==
  ASSUME NEW list \in Seq(GroupInfo), NEW b
  PROVE  InviteGroups(list, {}, b) = list
BY DEF InviteGroups

\* InviteGroups makes lists of groups.
LEMMA InvitedLists ==
  ASSUME NEW list \in Seq(GroupInfo), NEW groups, NEW b \in BGs, NewTime(b) \in Nat
  PROVE  InviteGroups(list, groups, b) \in Seq(GroupInfo)
<1> DEFINE r == InviteGroups(list, groups, b)
           moved(g) == [g EXCEPT !.invited = b, !.time = NewTime(b)]
<1>1. DOMAIN list = 1..Len(list) /\ Len(list) \in Nat
  OBVIOUS
<1>2. \A g \in GroupInfo : moved(g) \in GroupInfo
  <2> DEFINE time == NewTime(b)
  <2>1. time \in Nat
    OBVIOUS
  <2> HIDE DEF time
  <2>2. \A g \in GroupInfo : [g EXCEPT !.invited = b, !.time = time] \in GroupInfo
    BY <2>1 DEF GroupInfo
  <2> QED BY <2>2 DEF time
<1>3. r = [i \in 1..Len(list) |-> IF i \in groups THEN moved(list[i]) ELSE list[i]]
  BY <1>1 DEF InviteGroups
<1>4. \A i \in 1..Len(list) : list[i] \in GroupInfo
  BY <1>1
<1> HIDE DEF moved, r
<1>5. \A i \in 1..Len(list) : r[i] \in GroupInfo
  BY <1>2, <1>3, <1>4
<1>6. r \in Seq(GroupInfo)
  BY <1>1, <1>3, <1>5
<1> QED BY <1>6 DEF r

\* One list of places is without players in two of them.
LEMMA PlacesApart ==
  ASSUME NEW lists, NEW t, Well(lists, t), NEW l \in Lists
  PROVE  /\ lists[l] \in Seq(GroupInfo)
         /\ \A i, j \in DOMAIN lists[l] : lists[l][i].players \cap lists[l][j].players # {} => i = j
BY DEF Well, Apart

\* Groups of the normal lists, as they fit.
LEMMA PoolInvites ==
  ASSUME NEW t \in Types, NEW old, Well(old, t), NEW b \in BGs, NewTime(b) \in Nat,
         NEW groups, NEW room, NEW enough,
         \A team \in Teams : room[team] \in Nat /\ enough[team] \in Nat,
         \A team \in Teams :
           /\ groups[<<"premade", team>>] = {}
           /\ groups[<<"normal", team>>] =
                Pool(old[<<"normal", team>>], 0, room[team], enough[team]).groups,
         NEW new, new = [l \in Lists |-> InviteGroups(old[l], groups[l], b)]
  PROVE  InvitesTo(new, old, t, b, InvitedNow(old, groups, b), room)
<1>1. \A l \in Lists : old[l] \in Seq(GroupInfo)
  BY DEF Well
<1>2. new \in [Lists -> Seq(GroupInfo)]
  BY <1>1, InvitedLists
<1>3. \A l \in Lists : new[l] = InviteGroups(old[l], groups[l], b)
  OBVIOUS
<1>4. ASSUME NEW team \in Teams
      PROVE  LET list == old[<<"normal", team>>]
                 taken == groups[<<"normal", team>>]
             IN /\ \A i \in taken : i \in DOMAIN list /\ list[i].invited = NoBg
                /\ IsFiniteSet(PlayersAt(list, taken))
                /\ Cardinality(PlayersAt(list, taken)) <= room[team]
  <2> DEFINE list == old[<<"normal", team>>]
             taken == groups[<<"normal", team>>]
  <2>1. <<"normal", team>> \in Lists
    BY FourLists
  <2>2. /\ list \in Seq(GroupInfo)
        /\ \A i, j \in DOMAIN list : list[i].players \cap list[j].players # {} => i = j
    BY <2>1, PlacesApart
  <2>3. taken = Pool(list, 0, room[team], enough[team]).groups
    OBVIOUS
  <2>4. room[team] \in Nat /\ enough[team] \in Nat
    OBVIOUS
  <2> HIDE DEF list, taken
  <2> DEFINE r == room[team]
             e == enough[team]
  <2>5. r \in Nat /\ e \in Nat /\ 0 \in Nat /\ 0 <= r /\ taken = Pool(list, 0, r, e).groups
    BY <2>3, <2>4
  <2> HIDE DEF r, e
  <2>6. /\ \A i \in taken : i \in DOMAIN list /\ list[i].invited = NoBg
        /\ IsFiniteSet(PlayersAt(list, taken))
        /\ 0 + Cardinality(PlayersAt(list, taken)) <= r
    BY <2>2, <2>5, PoolFits
  <2>7. Cardinality(PlayersAt(list, taken)) \in Nat
    BY <2>6, FS_CardinalityType
  <2> QED BY <2>6, <2>7 DEF r, list, taken
<1>5. Chosen(groups, old)
  <2> SUFFICES ASSUME NEW l \in Lists
               PROVE  \A i \in groups[l] : i \in DOMAIN old[l] /\ old[l][i].invited = NoBg
    BY DEF Chosen
  <2>1. l[2] \in Teams /\ (l = <<"premade", l[2]>> \/ l = <<"normal", l[2]>>)
    BY FourLists
  <2>2. CASE l = <<"premade", l[2]>>
    <3>1. groups[l] = {}
      BY <2>1, <2>2
    <3> QED BY <3>1
  <2>3. CASE l = <<"normal", l[2]>>
    BY <1>4, <2>1, <2>3
  <2> QED BY <2>1, <2>2, <2>3
<1> DEFINE inv == InvitedNow(old, groups, b)
<1>6. Well(new, t) /\ Invitation(new, old, inv)
  BY <1>2, <1>3, <1>5, GroupsInvited
<1>7. \A team \in Teams : Cardinality(Of(inv, b, team)) <= room[team]
  <2> TAKE team \in Teams
  <2> DEFINE P == PlayersAt(old[<<"normal", team>>], groups[<<"normal", team>>])
  <2>1. PlayersAt(old[<<"premade", team>>], groups[<<"premade", team>>]) = {}
    BY DEF PlayersAt
  <2>2. Of(inv, b, team) \subseteq P
    BY <1>5, <2>1, InvitedOfTeam
  <2>3. IsFiniteSet(P) /\ Cardinality(P) <= room[team]
    BY <1>4
  <2> HIDE DEF P, inv
  <2>4. /\ IsFiniteSet(Of(inv, b, team))
        /\ Cardinality(Of(inv, b, team)) <= Cardinality(P)
    BY <2>2, <2>3, FS_Subset
  <2>5. Cardinality(Of(inv, b, team)) \in Nat /\ Cardinality(P) \in Nat /\ room[team] \in Nat
    BY <2>3, <2>4, FS_CardinalityType
  <2> QED BY <2>3, <2>4, <2>5
<1>8. "normal" # "premade" /\ \A q \in Players : inv[q] \in {NoBg, b}
  <2>1. \E team : team \in Teams
    BY DEF Teams
  <2> QED BY <1>5, <2>1, InvitedOfTeam
<1> QED BY <1>6, <1>7, <1>8 DEF InvitesTo

\* FillPlayersToBG invites as many of each team as there are places for.
LEMMA FillInvites ==
  ASSUME NEW t \in Types, NEW old, Well(old, t), NEW b \in BGs, NewTime(b) \in Nat,
         NEW room,
         \A team \in Teams : room[team] = GetFreeSlotsForTeam(b, team) /\ room[team] \in Nat
  PROVE  \E inv : InvitesTo(FillPlayersToBG(b, old), old, t, b, inv, room)
<1> DEFINE groups == [l \in Lists |->
             IF l[1] = "normal" THEN Pool(old[l], 0, room[l[2]], room[l[2]]).groups ELSE {}]
           new == [l \in Lists |-> InviteGroups(old[l], groups[l], b)]
<1>1. \A l \in Lists : old[l] \in Seq(GroupInfo)
  BY DEF Well
<1>2. \A team \in Teams : room[team] = GetFreeSlotsForTeam(b, team) /\ room[team] \in Nat
  OBVIOUS
<1>3. \A team \in Teams :
        /\ groups[<<"premade", team>>] = {}
        /\ groups[<<"normal", team>>] = Pool(old[<<"normal", team>>], 0, room[team], room[team]).groups
  BY FourLists
<1>4. FillPlayersToBG(b, old) = new
  <2>1. ASSUME NEW l \in Lists
        PROVE  FillPlayersToBG(b, old)[l] = InviteGroups(old[l], groups[l], b)
    <3>1. room[l[2]] = GetFreeSlotsForTeam(b, l[2])
      BY <1>2, FourLists
    <3>2. CASE l[1] = "normal"
      <4>1. FillPlayersToBG(b, old)[l] =
              InviteGroups(old[l], Pool(old[l], 0, room[l[2]], room[l[2]]).groups, b)
        BY <3>1, <3>2 DEF FillPlayersToBG
      <4> QED BY <3>2, <4>1
    <3>3. CASE l[1] # "normal"
      <4>1. FillPlayersToBG(b, old)[l] = old[l] /\ groups[l] = {}
        BY <3>3 DEF FillPlayersToBG
      <4> HIDE DEF groups
      <4> QED BY <1>1, <4>1, SameList
    <3> QED BY <3>2, <3>3
  <2>2. FillPlayersToBG(b, old) = [l \in Lists |-> FillPlayersToBG(b, old)[l]]
    BY DEF FillPlayersToBG
  <2> HIDE DEF groups
  <2> QED BY <2>1, <2>2
<1>5. new = [l \in Lists |-> InviteGroups(old[l], groups[l], b)]
  OBVIOUS
<1> HIDE DEF new, groups
<1>6. InvitesTo(new, old, t, b, InvitedNow(old, groups, b), room)
  BY <1>2, <1>3, <1>5, PoolInvites
<1> QED BY <1>4, <1>6

\* A new battleground for those who wait alone: not more than fit.
LEMMA NormalInvites ==
  ASSUME NEW t \in Types, NEW old, Well(old, t), NEW b \in BGs, NewTime(b) \in Nat,
         NEW room, \A team \in Teams : room[team] = MaxPlayersPerTeam[t]
  PROVE  \E inv : InvitesTo(InviteNormalMatch(old, t, b), old, t, b, inv, room)
<1> DEFINE enough == [team \in Teams |-> MinPlayersPerTeam[t]]
           groups == [l \in Lists |->
             IF l[1] = "normal" THEN NormalPool(old, l[2], t).groups ELSE {}]
           new == [l \in Lists |-> InviteGroups(old[l], groups[l], b)]
<1>1. \A l \in Lists : old[l] \in Seq(GroupInfo)
  BY DEF Well
<1>2. \A team \in Teams : /\ room[team] = MaxPlayersPerTeam[t] /\ room[team] \in Nat
                          /\ enough[team] = MinPlayersPerTeam[t] /\ enough[team] \in Nat
  BY Constants
<1> HIDE DEF enough
<1>3. \A team \in Teams :
        /\ groups[<<"premade", team>>] = {}
        /\ groups[<<"normal", team>>] = Pool(old[<<"normal", team>>], 0, room[team], enough[team]).groups
  <2> TAKE team \in Teams
  <2>1. NormalPool(old, team, t) = Pool(old[<<"normal", team>>], 0, room[team], enough[team])
    BY <1>2 DEF NormalPool
  <2>2. groups[<<"premade", team>>] = {} /\ groups[<<"normal", team>>] = NormalPool(old, team, t).groups
    BY FourLists
  <2> QED BY <2>1, <2>2
<1>4. InviteNormalMatch(old, t, b) = new
  <2>1. ASSUME NEW l \in Lists
        PROVE  InviteNormalMatch(old, t, b)[l] = InviteGroups(old[l], groups[l], b)
    <3>2. CASE l[1] = "normal"
      <4>1. InviteNormalMatch(old, t, b)[l] = InviteGroups(old[l], NormalPool(old, l[2], t).groups, b)
        BY <3>2 DEF InviteNormalMatch
      <4> QED BY <3>2, <4>1
    <3>3. CASE l[1] # "normal"
      <4>1. InviteNormalMatch(old, t, b)[l] = old[l] /\ groups[l] = {}
        BY <3>3 DEF InviteNormalMatch
      <4> HIDE DEF groups
      <4> QED BY <1>1, <4>1, SameList
    <3> QED BY <3>2, <3>3
  <2>2. InviteNormalMatch(old, t, b) = [l \in Lists |-> InviteNormalMatch(old, t, b)[l]]
    BY DEF InviteNormalMatch
  <2> HIDE DEF groups
  <2> QED BY <2>1, <2>2
<1>5. new = [l \in Lists |-> InviteGroups(old[l], groups[l], b)]
  OBVIOUS
<1> HIDE DEF new, groups
<1>6. InvitesTo(new, old, t, b, InvitedNow(old, groups, b), room)
  BY <1>2, <1>3, <1>5, PoolInvites
<1> QED BY <1>4, <1>6

\* The first of the groups that wait.
LEMMA FirstWaits ==
  ASSUME NEW list \in Seq(GroupInfo), Uninvited(list) # {}
  PROVE  First(Uninvited(list)) \in Uninvited(list)
<1>1. Uninvited(list) \subseteq 0..Len(list) /\ Len(list) \in Nat
  BY DEF Uninvited
<1> DEFINE B == Uninvited(list)
           n == Len(list)
<1>2. n \in Nat /\ B \subseteq 0..n /\ B # {}
  BY <1>1
<1> HIDE DEF B, n
<1>3. \E m \in B : \A k \in B : m <= k
  BY <1>2, Least
<1> QED BY <1>3 DEF First, B

\* A new battleground for two premade groups: not more of either team than
\* are in the larger one.
LEMMA PremadeInvites ==
  ASSUME NEW t \in Types, NEW old, Well(old, t), NEW b \in BGs, NewTime(b) \in Nat,
         PremadesMeet(old),
         NEW room, \A team \in Teams : room[team] = MaxPlayersPerTeam[t]
  PROVE  \E inv : InvitesTo(InvitePremadeMatch(old, b), old, t, b, inv, room)
<1> DEFINE group(team) == First(Uninvited(old[<<"premade", team>>]))
           size(team) == Cardinality(old[<<"premade", team>>][group(team)].players)
           maxPlayers == CHOOSE n \in {size(team) : team \in Teams} :
                           \A team \in Teams : size(team) <= n
           groups == [l \in Lists |->
             IF l[1] = "premade" THEN {group(l[2])}
             ELSE Pool(old[l], size(l[2]), maxPlayers, maxPlayers).groups]
           new == [l \in Lists |-> InviteGroups(old[l], groups[l], b)]
<1>1. \A l \in Lists : old[l] \in Seq(GroupInfo)
  BY DEF Well
<1>2. ASSUME NEW team \in Teams
      PROVE  /\ group(team) \in DOMAIN old[<<"premade", team>>]
             /\ old[<<"premade", team>>][group(team)].invited = NoBg
             /\ IsFiniteSet(old[<<"premade", team>>][group(team)].players)
             /\ size(team) \in Nat /\ size(team) <= MaxPlayersPerTeam[t]
  <2>1. <<"premade", team>> \in Lists
    BY FourLists
  <2> DEFINE list == old[<<"premade", team>>]
             i == First(Uninvited(list))
  <2>2. list \in Seq(GroupInfo) /\ Uninvited(list) # {}
    BY <1>1, <2>1 DEF PremadesMeet
  <2>3. i \in Uninvited(list)
    BY <2>2, FirstWaits
  <2>4. i \in DOMAIN list /\ list[i].invited = NoBg
    BY <2>3 DEF Uninvited
  <2>5. Cardinality(list[i].players) <= MaxPlayersPerTeam[t]
    BY <2>1, <2>4 DEF Well, RightTeams
  <2>6. list[i] \in GroupInfo
    BY <2>2, <2>4
  <2>7. IsFiniteSet(list[i].players) /\ Cardinality(list[i].players) \in Nat
    BY <2>6, GroupFields, FS_CardinalityType
  <2> QED BY <2>4, <2>5, <2>7
<1> HIDE DEF size
<1>3. /\ maxPlayers \in Nat /\ maxPlayers <= MaxPlayersPerTeam[t]
      /\ \A team \in Teams : size(team) <= maxPlayers
  <2>1. Teams = {"alliance", "horde"}
    BY DEF Teams
  <2>2. \A team \in Teams : size(team) \in Nat /\ size(team) <= MaxPlayersPerTeam[t]
    BY <1>2
  <2>3. \E n \in {size(team) : team \in Teams} : \A team \in Teams : size(team) <= n
    <3>1. CASE size("alliance") <= size("horde")
      BY <2>1, <2>2, <3>1
    <3>2. CASE ~(size("alliance") <= size("horde"))
      <4>1. size("horde") <= size("alliance")
        BY <2>1, <2>2, <3>2
      <4> QED BY <2>1, <2>2, <4>1
    <3> QED BY <3>1, <3>2
  <2>4. /\ maxPlayers \in {size(team) : team \in Teams}
        /\ \A team \in Teams : size(team) <= maxPlayers
    BY <2>3
  <2> HIDE DEF maxPlayers
  <2> QED BY <2>2, <2>4
<1> HIDE DEF maxPlayers
<1>4. ASSUME NEW team \in Teams
      PROVE  LET list == old[<<"normal", team>>]
                 taken == groups[<<"normal", team>>]
             IN /\ \A i \in taken : i \in DOMAIN list /\ list[i].invited = NoBg
                /\ IsFiniteSet(PlayersAt(list, taken))
                /\ size(team) + Cardinality(PlayersAt(list, taken)) <= maxPlayers
  <2> DEFINE list == old[<<"normal", team>>]
             taken == groups[<<"normal", team>>]
             s == size(team)
  <2>1. <<"normal", team>> \in Lists
    BY FourLists
  <2>2. /\ list \in Seq(GroupInfo)
        /\ \A i, j \in DOMAIN list : list[i].players \cap list[j].players # {} => i = j
    BY <2>1, PlacesApart
  <2>3. taken = Pool(list, s, maxPlayers, maxPlayers).groups
    BY <2>1, FourLists
  <2>4. s \in Nat /\ maxPlayers \in Nat /\ s <= maxPlayers
    BY <1>2, <1>3
  <2> HIDE DEF list, taken, s
  <2>5. /\ \A i \in taken : i \in DOMAIN list /\ list[i].invited = NoBg
        /\ IsFiniteSet(PlayersAt(list, taken))
        /\ s + Cardinality(PlayersAt(list, taken)) <= maxPlayers
    BY <2>2, <2>3, <2>4, PoolFits
  <2> QED BY <2>5 DEF s, list, taken
<1>5. \A team \in Teams : groups[<<"premade", team>>] = {group(team)}
  BY FourLists
<1>6. InvitePremadeMatch(old, b) = new
  <2>1. InvitePremadeMatch(old, b) =
          [l \in Lists |->
             IF l[1] = "premade"
               THEN InviteGroups(old[l], {group(l[2])}, b)
               ELSE InviteGroups(old[l], Pool(old[l], size(l[2]), maxPlayers, maxPlayers).groups, b)]
    BY DEF InvitePremadeMatch, size, maxPlayers
  <2> HIDE DEF group
  <2>2. \A l \in Lists :
          (IF l[1] = "premade"
               THEN InviteGroups(old[l], {group(l[2])}, b)
               ELSE InviteGroups(old[l], Pool(old[l], size(l[2]), maxPlayers, maxPlayers).groups, b))
          = InviteGroups(old[l], groups[l], b)
    <3> TAKE l \in Lists
    <3>1. CASE l[1] = "premade"
      BY <3>1
    <3>2. CASE l[1] # "premade"
      BY <3>2
    <3> QED BY <3>1, <3>2
  <2> HIDE DEF groups
  <2> QED BY <2>1, <2>2
<1> HIDE DEF group, groups
<1>7. Chosen(groups, old)
  <2> SUFFICES ASSUME NEW l \in Lists
               PROVE  \A i \in groups[l] : i \in DOMAIN old[l] /\ old[l][i].invited = NoBg
    BY DEF Chosen
  <2>1. l[2] \in Teams /\ (l = <<"premade", l[2]>> \/ l = <<"normal", l[2]>>)
    BY FourLists
  <2>2. CASE l = <<"premade", l[2]>>
    <3>1. groups[l] = {group(l[2])}
      BY <1>5, <2>1, <2>2
    <3>2. group(l[2]) \in DOMAIN old[l] /\ old[l][group(l[2])].invited = NoBg
      BY <1>2, <2>1, <2>2
    <3> QED BY <3>1, <3>2
  <2>3. CASE l = <<"normal", l[2]>>
    BY <1>4, <2>1, <2>3
  <2> QED BY <2>1, <2>2, <2>3
<1>8. new \in [Lists -> Seq(GroupInfo)] /\ \A l \in Lists : new[l] = InviteGroups(old[l], groups[l], b)
  BY <1>1, InvitedLists
<1> DEFINE inv == InvitedNow(old, groups, b)
<1>9. Well(new, t) /\ Invitation(new, old, inv)
  <2> HIDE DEF new
  <2> QED BY <1>7, <1>8, GroupsInvited
<1>10. \A team \in Teams : Cardinality(Of(inv, b, team)) <= room[team]
  <2> TAKE team \in Teams
  <2> DEFINE P == PlayersAt(old[<<"premade", team>>], groups[<<"premade", team>>])
             N == PlayersAt(old[<<"normal", team>>], groups[<<"normal", team>>])
  <2>1. P = old[<<"premade", team>>][group(team)].players
    BY <1>5 DEF PlayersAt
  <2>2. IsFiniteSet(P) /\ Cardinality(P) = size(team) /\ size(team) \in Nat
    BY <1>2, <2>1 DEF size
  <2>3. IsFiniteSet(N) /\ size(team) + Cardinality(N) <= maxPlayers
    BY <1>4
  <2>4. Of(inv, b, team) \subseteq P \cup N
    BY <1>7, InvitedOfTeam
  <2>5. room[team] = MaxPlayersPerTeam[t] /\ room[team] \in Nat
    BY Constants
  <2> HIDE DEF P, N, inv
  <2>6. /\ IsFiniteSet(P \cup N)
        /\ Cardinality(P \cup N) = Cardinality(P) + Cardinality(N) - Cardinality(P \cap N)
        /\ IsFiniteSet(P \cap N)
    BY <2>2, <2>3, FS_Union, FS_Intersection
  <2>7. /\ IsFiniteSet(Of(inv, b, team))
        /\ Cardinality(Of(inv, b, team)) <= Cardinality(P \cup N)
    BY <2>4, <2>6, FS_Subset
  <2>8. /\ Cardinality(Of(inv, b, team)) \in Nat /\ Cardinality(N) \in Nat
        /\ Cardinality(P \cap N) \in Nat
    BY <2>3, <2>6, <2>7, FS_CardinalityType
  <2> QED BY <1>3, <2>2, <2>3, <2>5, <2>6, <2>7, <2>8
<1>11. \A q \in Players : inv[q] \in {NoBg, b}
  <2>1. \E team : team \in Teams
    BY DEF Teams
  <2> QED BY <1>7, <2>1, InvitedOfTeam
<1>12. InvitesTo(new, old, t, b, inv, room)
  BY <1>9, <1>10, <1>11 DEF InvitesTo
<1> QED BY <1>6, <1>12

-----------------------------------------------------------------------------
(* Premade groups that move.                                               *)

\* The head of one sequence moves to the front of another one.
HeadMoved(s, u, r, w) ==
  /\ 1 \in DOMAIN s
  /\ \A i \in DOMAIN r : i + 1 \in DOMAIN s /\ i + 1 # 1 /\ r[i] = s[i + 1]
  /\ \A i \in DOMAIN s : i # 1 => i - 1 \in DOMAIN r /\ (i - 1) + 1 = i
  /\ w[1] = s[1] /\ 1 \in DOMAIN w
  /\ \A i \in DOMAIN w : i # 1 => i - 1 \in DOMAIN u /\ w[i] = u[i - 1]
  /\ \A i \in DOMAIN u : i + 1 \in DOMAIN w /\ (i + 1) - 1 = i /\ i + 1 # 1

\* So it is with Tail and with a sequence of one in front.
LEMMA HeadMoves ==
  ASSUME NEW S, NEW s \in Seq(S), NEW u \in Seq(S), s # <<>>,
         NEW r, r = Tail(s), NEW w, w = <<Head(s)>> \o u
  PROVE  r \in Seq(S) /\ w \in Seq(S) /\ HeadMoved(s, u, r, w)
<1>1. /\ Len(s) \in Nat /\ Len(u) \in Nat /\ Len(s) # 0
      /\ DOMAIN s = 1..Len(s) /\ DOMAIN u = 1..Len(u)
  OBVIOUS
<1>2. Head(s) = s[1] /\ 1 \in DOMAIN s /\ Head(s) \in S
  BY <1>1
<1>3. /\ r \in Seq(S) /\ DOMAIN r = 1..(Len(s) - 1)
      /\ \A i \in 1..(Len(s) - 1) : r[i] = s[i + 1]
  BY <1>1
<1>4. /\ w \in Seq(S) /\ DOMAIN w = 1..(Len(u) + 1)
      /\ \A i \in 1..(Len(u) + 1) : w[i] = IF i = 1 THEN s[1] ELSE u[i - 1]
  BY <1>1, <1>2
<1>5. \A i \in DOMAIN r : i + 1 \in DOMAIN s /\ i + 1 # 1 /\ r[i] = s[i + 1]
  BY ONLY <1>1, <1>3
<1>6. \A i \in DOMAIN s : i # 1 => i - 1 \in DOMAIN r /\ (i - 1) + 1 = i
  BY ONLY <1>1, <1>3
<1>7. w[1] = s[1] /\ 1 \in DOMAIN w
  BY ONLY <1>1, <1>4
<1>8. \A i \in DOMAIN w : i # 1 => i - 1 \in DOMAIN u /\ w[i] = u[i - 1]
  BY ONLY <1>1, <1>4
<1>9. \A i \in DOMAIN u : i + 1 \in DOMAIN w /\ (i + 1) - 1 = i /\ i + 1 # 1
  BY ONLY <1>1, <1>4
<1> QED BY ONLY <1>2, <1>3, <1>4, <1>5, <1>6, <1>7, <1>8, <1>9 DEF HeadMoved

\* A premade group that goes to the normal list is the same group still.
LEMMA MoveKeeps ==
  ASSUME NEW t \in Types, NEW old, Well(old, t), NEW waited, NEW min
  PROVE  /\ Well(MovePremades(old, waited, min), t)
         /\ GroupsIn(MovePremades(old, waited, min)) = GroupsIn(old)
<1> DEFINE new == MovePremades(old, waited, min)
           moves(team) == LET list == old[<<"premade", team>>] IN
             /\ list # <<>>
             /\ list[1].invited = NoBg
             /\ team \in waited \/ Cardinality(list[1].players) < min
           P(team) == <<"premade", team>>
           N(team) == <<"normal", team>>
<1>1. old \in [Lists -> Seq(GroupInfo)] /\ RightTeams(old, t) /\ Apart(old)
  BY DEF Well
<1>2. \A l \in Lists : new[l] =
        IF ~moves(l[2]) THEN old[l]
        ELSE IF l[1] = "premade" THEN Tail(old[l])
        ELSE <<Head(old[P(l[2])])>> \o old[l]
  BY DEF MovePremades
<1>3. new = [l \in Lists |-> new[l]]
  BY DEF MovePremades
<1>4. \A team \in Teams : moves(team) => old[P(team)] # <<>>
  OBVIOUS
<1>5. \A team \in Teams : /\ P(team) \in Lists /\ P(team)[1] = "premade" /\ P(team)[2] = team
                          /\ N(team) \in Lists /\ N(team)[1] = "normal" /\ N(team)[2] = team
                          /\ P(team) # N(team)
  BY FourLists
<1>6. \A l \in Lists : /\ l[2] \in Teams
                       /\ \/ l = P(l[2]) /\ l[1] = "premade"
                          \/ l = N(l[2]) /\ l[1] = "normal"
  BY FourLists
<1> HIDE DEF new, moves, P, N
<1>7. ASSUME NEW team \in Teams, moves(team)
      PROVE  LET s == old[P(team)]  u == old[N(team)]
                 r == new[P(team)]  w == new[N(team)]
             IN /\ r \in Seq(GroupInfo) /\ w \in Seq(GroupInfo)
                /\ 1 \in DOMAIN s
                /\ \A i \in DOMAIN r : i + 1 \in DOMAIN s /\ i + 1 # 1 /\ r[i] = s[i + 1]
                /\ \A i \in DOMAIN s : i # 1 => i - 1 \in DOMAIN r /\ (i - 1) + 1 = i
                /\ w[1] = s[1] /\ 1 \in DOMAIN w
                /\ \A i \in DOMAIN w : i # 1 => i - 1 \in DOMAIN u /\ w[i] = u[i - 1]
                /\ \A i \in DOMAIN u : i + 1 \in DOMAIN w /\ (i + 1) - 1 = i /\ i + 1 # 1
  <2> DEFINE s == old[P(team)]
             u == old[N(team)]
             r == new[P(team)]
             w == new[N(team)]
  <2>1. s \in Seq(GroupInfo) /\ u \in Seq(GroupInfo) /\ s # <<>>
    BY <1>1, <1>4, <1>5, <1>7
  <2>2. r = Tail(s) /\ w = <<Head(s)>> \o u
    BY <1>2, <1>5, <1>7
  <2> HIDE DEF s, u, r, w
  <2>3. r \in Seq(GroupInfo) /\ w \in Seq(GroupInfo) /\ HeadMoved(s, u, r, w)
    BY <2>1, <2>2, HeadMoves
  <2> QED BY <2>3 DEF HeadMoved, s, u, r, w
<1>8. \A l \in Lists : ~moves(l[2]) => new[l] = old[l]
  BY <1>2
<1> DEFINE srcList(l, i) == IF moves(l[2]) /\ l[1] = "normal" /\ i = 1 THEN P(l[2]) ELSE l
           srcPlace(l, i) == IF ~moves(l[2]) THEN i
                             ELSE IF l[1] = "premade" THEN i + 1
                             ELSE IF i = 1 THEN 1 ELSE i - 1
<1>9. new \in [Lists -> Seq(GroupInfo)]
  <2>1. ASSUME NEW l \in Lists PROVE new[l] \in Seq(GroupInfo)
    <3>1. CASE moves(l[2])
      BY <1>6, <1>7, <3>1
    <3>2. CASE ~moves(l[2])
      BY <1>1, <1>8, <3>2
    <3> QED BY <3>1, <3>2
  <2> QED BY <1>3, <2>1
<1>10. \A l \in Lists : \A i \in DOMAIN new[l] : i \in Nat /\ DOMAIN new[l] = 1..Len(new[l])
  BY <1>9, GroupPlaces
<1>11. ASSUME NEW l \in Lists, NEW i \in DOMAIN new[l]
       PROVE  /\ srcList(l, i) \in Lists /\ srcList(l, i)[2] = l[2]
              /\ srcPlace(l, i) \in DOMAIN old[srcList(l, i)]
              /\ new[l][i] = old[srcList(l, i)][srcPlace(l, i)]
  <2>1. CASE ~moves(l[2])
    BY <1>8, <2>1
  <2>2. CASE moves(l[2]) /\ l[1] = "premade"
    <3>1. l = P(l[2]) /\ l[2] \in Teams
      BY <1>5, <1>6, <2>2
    <3>2. i + 1 \in DOMAIN old[l] /\ new[l][i] = old[l][i + 1]
      BY <1>7, <2>2, <3>1
    <3> QED BY <2>2, <3>2
  <2>3. CASE moves(l[2]) /\ l[1] = "normal" /\ i = 1
    <3>1. l = N(l[2]) /\ l[2] \in Teams
      BY <1>5, <1>6, <2>3
    <3>2. 1 \in DOMAIN old[P(l[2])] /\ new[l][1] = old[P(l[2])][1]
      BY <1>7, <2>3, <3>1
    <3> QED BY <1>5, <2>3, <3>1, <3>2
  <2>4. CASE moves(l[2]) /\ l[1] = "normal" /\ i # 1
    <3>1. l = N(l[2]) /\ l[2] \in Teams
      BY <1>5, <1>6, <2>4
    <3>2. i - 1 \in DOMAIN old[l] /\ new[l][i] = old[l][i - 1]
      BY <1>7, <2>4, <3>1
    <3> QED BY <2>4, <3>2
  <2> QED BY <1>6, <2>1, <2>2, <2>3, <2>4
<1>12. ASSUME NEW k \in Lists, NEW l \in Lists, NEW i \in DOMAIN new[k], NEW j \in DOMAIN new[l],
              srcList(k, i) = srcList(l, j), srcPlace(k, i) = srcPlace(l, j)
       PROVE  k = l /\ i = j
  <2>1. k[2] = l[2]
    BY <1>11, <1>12
  <2>2. i \in Nat /\ j \in Nat
    BY <1>10
  <2>3. CASE ~moves(k[2])
    BY <1>12, <2>1, <2>3
  <2>4. CASE moves(k[2])
    <3>1. \/ k = P(k[2]) /\ k[1] = "premade"
          \/ k = N(k[2]) /\ k[1] = "normal"
      BY <1>6
    <3>2. \/ l = P(k[2]) /\ l[1] = "premade"
          \/ l = N(k[2]) /\ l[1] = "normal"
      BY <1>6, <2>1
    <3>3. P(k[2]) # N(k[2])
      BY <1>5, <1>6
    <3>4. \A m \in DOMAIN new[P(k[2])] : m + 1 # 1
      BY <1>6, <1>7, <2>4
    <3>5. CASE k = P(k[2]) /\ k[1] = "premade" /\ l = P(k[2]) /\ l[1] = "premade"
      BY <1>12, <2>1, <2>2, <2>4, <3>5
    <3>6. CASE k = N(k[2]) /\ k[1] = "normal" /\ l = N(k[2]) /\ l[1] = "normal"
      <4>1. (i = 1) <=> (j = 1)
        BY <1>12, <2>1, <2>4, <3>3, <3>6
      <4> QED BY <1>12, <2>1, <2>2, <2>4, <3>6, <4>1
    <3>7. CASE k = P(k[2]) /\ k[1] = "premade" /\ l = N(k[2]) /\ l[1] = "normal"
      BY <1>12, <2>1, <2>2, <2>4, <3>3, <3>4, <3>7
    <3>8. CASE k = N(k[2]) /\ k[1] = "normal" /\ l = P(k[2]) /\ l[1] = "premade"
      BY <1>12, <2>1, <2>2, <2>4, <3>3, <3>4, <3>8
    <3> QED BY <3>1, <3>2, <3>5, <3>6, <3>7, <3>8
  <2> QED BY <2>3, <2>4
<1>13. ASSUME NEW k \in Lists, NEW j \in DOMAIN old[k]
       PROVE  \E l \in Lists : \E i \in DOMAIN new[l] : new[l][i] = old[k][j]
  <2>1. CASE ~moves(k[2])
    BY <1>8, <2>1
  <2>2. CASE moves(k[2]) /\ k[1] = "premade" /\ j # 1
    <3>1. k = P(k[2]) /\ k[2] \in Teams
      BY <1>5, <1>6, <2>2
    <3>2. j - 1 \in DOMAIN new[k] /\ new[k][j - 1] = old[k][j]
      BY <1>7, <2>2, <3>1
    <3> QED BY <3>2
  <2>3. CASE moves(k[2]) /\ k[1] = "premade" /\ j = 1
    <3>1. k = P(k[2]) /\ k[2] \in Teams
      BY <1>5, <1>6, <2>3
    <3>2. 1 \in DOMAIN new[N(k[2])] /\ new[N(k[2])][1] = old[k][1]
      BY <1>7, <2>3, <3>1
    <3> QED BY <1>5, <2>3, <3>1, <3>2
  <2>4. CASE moves(k[2]) /\ k[1] = "normal"
    <3>1. k = N(k[2]) /\ k[2] \in Teams
      BY <1>5, <1>6, <2>4
    <3>2. j + 1 \in DOMAIN new[k] /\ new[k][j + 1] = old[k][j]
      BY <1>7, <2>4, <3>1
    <3> QED BY <3>2
  <2> QED BY <1>6, <2>1, <2>2, <2>3, <2>4
<1> HIDE DEF srcList, srcPlace
<1>14. RightTeams(new, t)
  BY <1>1, <1>11 DEF RightTeams
<1>15. Apart(new)
  <2>1. ASSUME NEW k \in Lists, NEW l \in Lists, NEW i \in DOMAIN new[k], NEW j \in DOMAIN new[l],
               new[k][i].players \cap new[l][j].players # {}
        PROVE  k = l /\ i = j
    <3>1. srcList(k, i) = srcList(l, j) /\ srcPlace(k, i) = srcPlace(l, j)
      BY <1>1, <1>11, <2>1 DEF Apart
    <3> QED BY <1>12, <3>1
  <2> QED BY <2>1 DEF Apart
<1>16. GroupsIn(new) = GroupsIn(old)
  <2>1. \A g : g \in GroupsIn(old) <=>
          \E l \in Lists : \E i \in DOMAIN old[l] : g = old[l][i]
    BY <1>1, GroupPlaces
  <2>2. \A g : g \in GroupsIn(new) <=>
          \E l \in Lists : \E i \in DOMAIN new[l] : g = new[l][i]
    BY <1>9, GroupPlaces
  <2>3. ASSUME NEW g \in GroupsIn(new) PROVE g \in GroupsIn(old)
    <3>1. PICK l \in Lists : \E i \in DOMAIN new[l] : g = new[l][i]
      BY <2>2
    <3>2. PICK i \in DOMAIN new[l] : g = new[l][i]
      BY <3>1
    <3>3. /\ srcList(l, i) \in Lists /\ srcPlace(l, i) \in DOMAIN old[srcList(l, i)]
          /\ new[l][i] = old[srcList(l, i)][srcPlace(l, i)]
      BY <1>11
    <3> QED BY <2>1, <3>2, <3>3
  <2>4. ASSUME NEW g \in GroupsIn(old) PROVE g \in GroupsIn(new)
    <3>1. PICK l \in Lists : \E i \in DOMAIN old[l] : g = old[l][i]
      BY <2>1
    <3>2. PICK i \in DOMAIN old[l] : g = old[l][i]
      BY <3>1
    <3>3. \E k \in Lists : \E j \in DOMAIN new[k] : new[k][j] = old[l][i]
      BY <1>13
    <3> QED BY <2>2, <3>2, <3>3
  <2> QED BY <2>3, <2>4
<1> QED BY <1>9, <1>14, <1>15, <1>16 DEF Well, new

-----------------------------------------------------------------------------
(* The whole update of a queue, in stages.                                 *)

\* Without invitations the lists stay as they are.
NoOne == [q \in Players |-> NoBg]

\* The same groups hold no new invitations.
LEMMA NobodyInvited ==
  ASSUME NEW old, NEW new, GroupsIn(new) = GroupsIn(old)
  PROVE  Invitation(new, old, NoOne)
BY DEF Invitation, NoOne, EntryIn

\* The lists, made from those of queue t by invitations to the battlegrounds
\* in B, to none of them more of a team than there is room.
Stage(lists, t, inv, B, room) ==
  /\ Well(lists, t) /\ Invitation(lists, queue[t], inv)
  /\ \A q \in Players : inv[q] = NoBg \/ inv[q] \in B
  /\ \A b \in B, team \in Teams : Cardinality(Of(inv, b, team)) <= room[b][team]

\* The queue itself is the first stage.
LEMMA StageStarts ==
  ASSUME NEW t \in Types, Well(queue[t], t), NEW room
  PROVE  Stage(queue[t], t, NoOne, {}, room)
BY NobodyInvited DEF Stage, NoOne

\* Invitations to one more battleground make the next stage.
LEMMA StageGoesOn ==
  ASSUME NEW t \in Types, Well(queue[t], t), NEW old, NEW inv, NEW B \in SUBSET BGs, NEW room,
         Stage(old, t, inv, B, room),
         NEW b \in BGs, b \notin B, NEW new, NEW more, InvitesTo(new, old, t, b, more, room[b])
  PROVE  Stage(new, t, InvitedAfter(inv, more), B \cup {b}, room)
<1> DEFINE both == InvitedAfter(inv, more)
<1>1. /\ Well(old, t) /\ Invitation(old, queue[t], inv)
      /\ \A q \in Players : inv[q] = NoBg \/ inv[q] \in B
      /\ \A c \in B, team \in Teams : Cardinality(Of(inv, c, team)) <= room[c][team]
  BY DEF Stage
<1>2. /\ Well(new, t) /\ Invitation(new, old, more)
      /\ \A q \in Players : more[q] \in {NoBg, b}
      /\ \A team \in Teams : Cardinality(Of(more, b, team)) <= room[b][team]
  BY DEF InvitesTo
<1>3. Invitation(new, queue[t], both) /\ \A q \in Players : inv[q] = NoBg \/ more[q] = NoBg
  <2> DEFINE start == queue[t]
  <2>1. Well(start, t) /\ Invitation(old, start, inv)
    BY <1>1
  <2>2. Well(old, t) /\ Well(new, t) /\ Invitation(new, old, more)
    BY <1>1, <1>2
  <2> HIDE DEF start
  <2>3. Invitation(new, start, both) /\ \A q \in Players : inv[q] = NoBg \/ more[q] = NoBg
    BY ONLY t \in Types, <2>1, <2>2, InvitationsCompose
  <2> QED BY <2>3 DEF start
<1>4. \A q \in Players : both[q] = IF more[q] = NoBg THEN inv[q] ELSE more[q]
  BY DEF InvitedAfter
<1> HIDE DEF both
<1>5. \A c \in B, team \in Teams : Of(both, c, team) = Of(inv, c, team)
  <2> TAKE c \in B, team \in Teams
  <2>1. c # NoBg /\ c # b
    BY Constants
  <2>2. \A q \in Players : both[q] = c <=> inv[q] = c
    BY <1>2, <1>3, <1>4, <2>1
  <2> QED BY <2>2 DEF Of
<1>6. \A team \in Teams : Of(both, b, team) = Of(more, b, team)
  <2>1. b # NoBg
    BY Constants
  <2>2. \A q \in Players : both[q] = b <=> more[q] = b
    BY <1>1, <1>2, <1>4, <2>1
  <2> QED BY <2>2 DEF Of
<1>7. \A q \in Players : both[q] = NoBg \/ both[q] \in B \cup {b}
  BY <1>1, <1>2, <1>4
<1>8. \A c \in B \cup {b}, team \in Teams : Cardinality(Of(both, c, team)) <= room[c][team]
  BY <1>1, <1>2, <1>5, <1>6
<1>9. Stage(new, t, both, B \cup {b}, room)
  BY <1>2, <1>3, <1>7, <1>8 DEF Stage
<1> QED BY <1>9 DEF both

\* The steps by which the battlegrounds with free places are filled.
FilledBy(g, t) ==
  /\ g[0] = queue[t] /\ Filled(t) = g[Len(freeQueue[t])]
  /\ \A i \in 1..Len(freeQueue[t]) : g[i] = FillPlayersToBG(freeQueue[t][i], g[i - 1])

\* What Filled computes it computes step by step.
LEMMA FilledSteps ==
  ASSUME NEW t \in Types, queue[t] \in [Lists -> Seq(GroupInfo)], freeQueue[t] \in Seq(BGs),
         \A b \in BGs : NewTime(b) \in Nat
  PROVE  \E g : FilledBy(g, t)
<1> DEFINE s == freeQueue[t]
           n == Len(s)
           V == [Lists -> Seq(GroupInfo)]
           A == queue[t]
           Def(f) == f = [i \in 0..n |->
             IF i = 0 THEN A ELSE FillPlayersToBG(s[i], f[i - 1])]
           step == [i \in 1..n |-> [v \in V |-> FillPlayersToBG(s[i], v)]]
<1>1. n \in Nat /\ A \in V /\ \A i \in 1..n : s[i] \in BGs
  OBVIOUS
<1>2. ASSUME NEW b \in BGs, NEW v \in V
      PROVE  FillPlayersToBG(b, v) \in V
  <2> DEFINE w == FillPlayersToBG(b, v)
  <2>1. w = [l \in Lists |-> w[l]]
    BY DEF FillPlayersToBG
  <2>2. ASSUME NEW l \in Lists PROVE w[l] \in Seq(GroupInfo)
    <3>1. v[l] \in Seq(GroupInfo)
      OBVIOUS
    <3>2. w[l] = v[l] \/ \E groups : w[l] = InviteGroups(v[l], groups, b)
      BY DEF FillPlayersToBG
    <3> HIDE DEF w
    <3> QED BY <3>1, <3>2, InvitedLists
  <2> HIDE DEF w
  <2>3. w \in V
    BY <2>1, <2>2
  <2> QED BY <2>3 DEF w
<1>3. step \in [1..n -> [V -> V]]
  <2> HIDE DEF V, n
  <2> QED BY <1>1, <1>2
<1>4. Stepwise(step, n, V)
  BY <1>3 DEF Stepwise
<1>5. PICK g : Recursive(g, step, n, V, A)
  <2> HIDE DEF step, V, n, A
  <2> QED BY ONLY <1>4, <1>1, Recursion
<1>6. /\ g \in [0..n -> V] /\ g[0] = A
      /\ \A i \in 1..n : g[i] = step[i][g[i - 1]]
  <2> HIDE DEF step, V, n, A
  <2> QED BY <1>5 DEF Recursive
<1>7. \A i \in 1..n : g[i] = FillPlayersToBG(s[i], g[i - 1])
  <2> TAKE i \in 1..n
  <2>1. g[i] = step[i][g[i - 1]]
    <3> HIDE DEF step
    <3> QED BY <1>6
  <2>2. i - 1 \in 0..n
    BY <1>1
  <2>3. g[i - 1] \in V
    <3> HIDE DEF V, A
    <3> QED BY <1>6, <2>2
  <2>4. step[i] = [v \in V |-> FillPlayersToBG(s[i], v)]
    OBVIOUS
  <2> HIDE DEF step, V
  <2> QED BY <2>1, <2>3, <2>4
<1>8. Def(g)
  <2> DEFINE h == [i \in 0..n |-> IF i = 0 THEN A ELSE FillPlayersToBG(s[i], g[i - 1])]
  <2>1. \A i \in 0..n : h[i] = g[i]
    <3> TAKE i \in 0..n
    <3>1. CASE i = 0
      <4> HIDE DEF step, V
      <4> QED BY <1>6, <3>1
    <3>2. CASE i # 0
      <4>1. i \in 1..n
        BY <3>2
      <4>2. h[i] = FillPlayersToBG(s[i], g[i - 1])
        BY <3>2
      <4> HIDE DEF n, h
      <4> QED BY <1>7, <4>1, <4>2
    <3> QED BY <3>1, <3>2
  <2>2. h = g
    <3>1. DOMAIN h = 0..n /\ h = [i \in 0..n |-> h[i]]
      OBVIOUS
    <3>2. DOMAIN g = 0..n /\ g = [i \in 0..n |-> g[i]]
      <4> HIDE DEF V
      <4> QED BY <1>6
    <3> HIDE DEF h
    <3> QED BY <2>1, <3>1, <3>2
  <2> QED BY <2>2
<1> DEFINE f == CHOOSE c : Def(c)
<1>9. Def(f)
  <2> HIDE DEF Def
  <2> QED BY <1>8
<1>10. Filled(t) = f[n]
  BY DEF Filled
<1> HIDE DEF f
<1>11. f[0] = A /\ \A i \in 1..n : f[i] = FillPlayersToBG(s[i], f[i - 1])
  <2>1. f[0] = A
    BY <1>1, <1>9
  <2>2. ASSUME NEW i \in 1..n PROVE f[i] = FillPlayersToBG(s[i], f[i - 1])
    <3>1. i # 0 /\ i \in 0..n
      OBVIOUS
    <3> QED BY <1>9, <3>1
  <2> QED BY <2>1, <2>2
<1>12. FilledBy(f, t)
  BY <1>10, <1>11 DEF FilledBy
<1> QED BY <1>12

\* All that is invited to the battlegrounds with free places.
LEMMA FilledStage ==
  ASSUME NEW t \in Types, Well(queue[t], t), freeQueue[t] \in Seq(BGs),
         \A i, j \in DOMAIN freeQueue[t] : freeQueue[t][i] = freeQueue[t][j] => i = j,
         \A b \in BGs : NewTime(b) \in Nat,
         \A b \in BGs, team \in Teams : GetFreeSlotsForTeam(b, team) \in Nat,
         NEW room, \A b \in Range(freeQueue[t]) :
              \A team \in Teams : room[b][team] = GetFreeSlotsForTeam(b, team)
  PROVE  \E inv : Stage(Filled(t), t, inv, Range(freeQueue[t]), room)
<1> DEFINE s == freeQueue[t]
           n == Len(s)
           Sofar(i) == {s[j] : j \in 1..i}
<1>1. n \in Nat /\ DOMAIN s = 1..n /\ \A i \in 1..n : s[i] \in BGs /\ s[i] \in Range(s)
  BY DEF Range
<1>2. queue[t] \in [Lists -> Seq(GroupInfo)]
  BY DEF Well
<1>3. PICK g : FilledBy(g, t)
  BY <1>2, FilledSteps
<1>4. /\ g[0] = queue[t] /\ Filled(t) = g[n]
      /\ \A i \in 1..n : g[i] = FillPlayersToBG(s[i], g[i - 1])
  BY <1>3 DEF FilledBy
<1>5. \A i, j \in 1..n : s[i] = s[j] => i = j
  BY <1>1
<1> DEFINE Good(i) == \E inv : Stage(g[i], t, inv, Sofar(i), room)
           G == {i \in 0..n : Good(i)}
<1>6. 0 \in G
  <2>1. Sofar(0) = {}
    OBVIOUS
  <2>2. Stage(g[0], t, NoOne, Sofar(0), room)
    <3> HIDE DEF Sofar
    <3> QED BY <1>4, <2>1, StageStarts
  <2>3. Good(0)
    BY <2>2
  <2> HIDE DEF Good
  <2> QED BY <1>1, <2>3
<1>7. ASSUME NEW i \in 1..n, i - 1 \in G
      PROVE  i \in G
  <2> DEFINE old == g[i - 1]
             new == g[i]
             b == s[i]
             B == Sofar(i - 1)
  <2>1. PICK inv : Stage(old, t, inv, B, room)
    <3>1. Good(i - 1)
      <4> HIDE DEF Good
      <4> QED BY <1>7
    <3> QED BY <3>1
  <2>2. i - 1 \in Nat /\ \A j \in 1..(i - 1) : j \in 1..n /\ j # i
    BY <1>1
  <2>3. b \in BGs /\ B \in SUBSET BGs /\ b \notin B
    BY <1>1, <1>5, <2>2
  <2>4. Sofar(i) = B \cup {b}
    <3>1. \A j \in 1..i : j = i \/ j \in 1..(i - 1)
      BY <2>2
    <3>2. i \in 1..i /\ \A j \in 1..(i - 1) : j \in 1..i
      BY <2>2
    <3> QED BY <3>1, <3>2
  <2>5. new = FillPlayersToBG(b, old)
    BY <1>4
  <2> DEFINE r == room[b]
  <2>6. /\ \A team \in Teams : r[team] = GetFreeSlotsForTeam(b, team) /\ r[team] \in Nat
        /\ NewTime(b) \in Nat
    BY <1>1
  <2> HIDE DEF old, new, b, B, r
  <2>7. Well(old, t)
    BY <2>1 DEF Stage
  <2>8. PICK more : InvitesTo(new, old, t, b, more, r)
    BY <2>3, <2>5, <2>6, <2>7, FillInvites
  <2>9. Stage(new, t, InvitedAfter(inv, more), B \cup {b}, room)
    BY <2>1, <2>3, <2>8, StageGoesOn DEF r
  <2>10. Good(i)
    <3> HIDE DEF Sofar
    <3> QED BY <2>4, <2>9 DEF new
  <2> HIDE DEF Good
  <2> QED BY <2>10
<1>8. Good(n)
  <2>1. \A i \in 0..n : i \in G
    <3> HIDE DEF G, n
    <3> QED BY <1>1, <1>6, <1>7, Upwards
  <2>2. n \in G
    <3> HIDE DEF G, n
    <3> QED BY <1>1, <2>1
  <2> HIDE DEF Good
  <2> QED BY <2>2
<1>9. Sofar(n) = Range(s)
  BY <1>1 DEF Range
<1> HIDE DEF Sofar
<1> QED BY <1>4, <1>8, <1>9

\* The same groups in other places are the same stage.
LEMMA StageStays ==
  ASSUME NEW t \in Types, NEW old, NEW inv, NEW B, NEW room, Stage(old, t, inv, B, room),
         NEW new, Well(new, t), GroupsIn(new) = GroupsIn(old)
  PROVE  Stage(new, t, inv, B, room)
BY DEF Stage, Invitation, EntryIn

\* What an update makes of a queue.
Updated(t, after, created, inv, room) ==
  /\ Invites(t, after, created)
  /\ Stage(after, t, inv, Range(freeQueue[t]) \cup Range(created), room)
  /\ created \in Seq(BGs) /\ Range(created) \subseteq NewBGs(t)
  /\ \A i, j \in DOMAIN created : created[i] = created[j] => i = j

\* An update of a queue ends at a stage: to every battleground, running or
\* new, are invited no more of a team than there is room.
LEMMA UpdateStage ==
  ASSUME NEW t \in Types, Well(queue[t], t), freeQueue[t] \in Seq(BGs),
         \A i, j \in DOMAIN freeQueue[t] : freeQueue[t][i] = freeQueue[t][j] => i = j,
         \A b \in BGs : NewTime(b) \in Nat,
         \A b \in BGs, team \in Teams : GetFreeSlotsForTeam(b, team) \in Nat,
         NEW room, \A b \in Range(freeQueue[t]) :
                      \A team \in Teams : room[b][team] = GetFreeSlotsForTeam(b, team),
         \A b \in NewBGs(t) : /\ b \in BGs /\ b \notin Range(freeQueue[t])
                              /\ \A team \in Teams : room[b][team] = MaxPlayersPerTeam[t],
         UpdateQueue(t)
  PROVE  \E after, created, inv : Updated(t, after, created, inv, room)
<1> DEFINE F == Range(freeQueue[t])
           before == Filled(t)
           premade == PremadesMeet(before)
           premadeBg == CHOOSE b \in NewBGs(t) : TRUE
           between(waited) == IF premade THEN InvitePremadeMatch(before, premadeBg)
                              ELSE MovePremades(before, waited, MinPlayersPerTeam[t])
           unused == IF premade THEN NewBGs(t) \ {premadeBg} ELSE NewBGs(t)
           normalBg == CHOOSE b \in unused : TRUE
           after(mid) == IF NormalsMeet(mid, t) THEN InviteNormalMatch(mid, t, normalBg) ELSE mid
           first == IF premade THEN <<premadeBg>> ELSE <<>>
           created(mid) == (IF NormalsMeet(mid, t) THEN <<normalBg>> ELSE <<>>) \o first
<1>1. PICK inv : Stage(before, t, inv, F, room)
  BY FilledStage
<1>2. PICK waited : /\ premade => NewBGs(t) # {}
                    /\ NormalsMeet(between(waited), t) => unused # {}
                    /\ Invites(t, after(between(waited)), created(between(waited)))
  BY DEF UpdateQueue
<1>3. premade => premadeBg \in NewBGs(t)
  <2> HIDE DEF premade
  <2> QED BY <1>2
<1> DEFINE mid == between(waited)
           normal == NormalsMeet(mid, t)
<1>4. normal => normalBg \in unused
  <2> HIDE DEF unused, normal
  <2> QED BY <1>2 DEF normal
<1>5. mid = IF premade THEN InvitePremadeMatch(before, premadeBg)
            ELSE MovePremades(before, waited, MinPlayersPerTeam[t])
  OBVIOUS
<1>6. unused = IF premade THEN NewBGs(t) \ {premadeBg} ELSE NewBGs(t)
  OBVIOUS
<1>7. /\ Invites(t, after(mid), created(mid))
      /\ after(mid) = IF normal THEN InviteNormalMatch(mid, t, normalBg) ELSE mid
      /\ created(mid) = (IF normal THEN <<normalBg>> ELSE <<>>) \o first
      /\ first = IF premade THEN <<premadeBg>> ELSE <<>>
  BY <1>2
<1>8. premade => PremadesMeet(before)
  OBVIOUS
<1>9. F \in SUBSET BGs
  BY DEF Range
<1>10. /\ \A b \in NewBGs(t) : b \in BGs /\ b \notin F /\ NewTime(b) \in Nat
       /\ \A b \in NewBGs(t), team \in Teams : room[b][team] = MaxPlayersPerTeam[t]
  OBVIOUS
<1> HIDE DEF F, before, premade, premadeBg, between, unused, normalBg, normal, first, mid, after, created
<1> DEFINE B1 == F \cup (IF premade THEN {premadeBg} ELSE {})
<1>11. PICK inv1 : Stage(mid, t, inv1, B1, room)
  <2>1. Well(before, t)
    BY <1>1 DEF Stage
  <2>2. CASE premade
    <3> DEFINE b == premadeBg
               r == room[b]
    <3>1. b \in BGs /\ b \notin F /\ NewTime(b) \in Nat /\ \A team \in Teams : r[team] = MaxPlayersPerTeam[t]
      BY <1>3, <1>10, <2>2
    <3>2. mid = InvitePremadeMatch(before, b) /\ PremadesMeet(before) /\ B1 = F \cup {b}
      BY <1>5, <1>8, <2>2
    <3> HIDE DEF b, r
    <3>3. PICK more : InvitesTo(InvitePremadeMatch(before, b), before, t, b, more, r)
      BY <2>1, <3>1, <3>2, PremadeInvites
    <3>4. InvitesTo(mid, before, t, b, more, room[b])
      BY <3>2, <3>3 DEF r
    <3>5. Stage(mid, t, InvitedAfter(inv, more), F \cup {b}, room)
      BY <1>1, <1>9, <3>1, <3>4, StageGoesOn
    <3> QED BY <3>2, <3>5
  <2>3. CASE ~premade
    <3> DEFINE min == MinPlayersPerTeam[t]
    <3>1. mid = MovePremades(before, waited, min) /\ B1 = F
      BY <1>5, <2>3
    <3> HIDE DEF min
    <3>2. Well(MovePremades(before, waited, min), t) /\ GroupsIn(MovePremades(before, waited, min)) = GroupsIn(before)
      BY <2>1, MoveKeeps
    <3>3. Well(mid, t) /\ GroupsIn(mid) = GroupsIn(before)
      BY <3>1, <3>2
    <3>4. Stage(mid, t, inv, F, room)
      BY <1>1, <3>3, StageStays
    <3> QED BY <3>1, <3>4
  <2> QED BY <2>2, <2>3
<1> DEFINE B2 == B1 \cup (IF normal THEN {normalBg} ELSE {})
<1>12. PICK inv2 : Stage(after(mid), t, inv2, B2, room)
  <2>1. Well(mid, t)
    BY <1>11 DEF Stage
  <2>2. CASE normal
    <3> DEFINE b == normalBg
               r == room[b]
    <3>1. /\ b \in BGs /\ b \notin B1 /\ NewTime(b) \in Nat
          /\ \A team \in Teams : r[team] = MaxPlayersPerTeam[t]
          /\ B1 \in SUBSET BGs
      BY <1>3, <1>4, <1>6, <1>9, <1>10, <2>2
    <3>2. after(mid) = InviteNormalMatch(mid, t, b) /\ B2 = B1 \cup {b}
      BY <1>7, <2>2
    <3> HIDE DEF b, r, B1, B2
    <3>3. PICK more : InvitesTo(InviteNormalMatch(mid, t, b), mid, t, b, more, r)
      BY <2>1, <3>1, NormalInvites
    <3>4. InvitesTo(after(mid), mid, t, b, more, room[b])
      BY <3>2, <3>3 DEF r
    <3>5. Stage(after(mid), t, InvitedAfter(inv1, more), B1 \cup {b}, room)
      BY <1>11, <3>1, <3>4, StageGoesOn
    <3> QED BY <3>2, <3>5
  <2>3. CASE ~normal
    <3>1. after(mid) = mid /\ B2 = B1
      BY <1>7, <2>3
    <3> QED BY <1>11, <3>1
  <2> QED BY <2>2, <2>3
<1> DEFINE c == created(mid)
<1>13. /\ c \in Seq(BGs)
       /\ Range(c) = (IF premade THEN {premadeBg} ELSE {}) \cup (IF normal THEN {normalBg} ELSE {})
       /\ \A i, j \in DOMAIN c : c[i] = c[j] => i = j
  <2>1. c = (IF normal THEN <<normalBg>> ELSE <<>>) \o (IF premade THEN <<premadeBg>> ELSE <<>>)
    BY <1>7
  <2>2. /\ premade => premadeBg \in BGs
        /\ normal => normalBg \in BGs
        /\ premade /\ normal => premadeBg # normalBg
    BY <1>3, <1>4, <1>6, <1>10
  <2> HIDE DEF c
  <2>3. CASE premade /\ normal
    <3>1. c = <<normalBg>> \o <<premadeBg>>
      BY <2>1, <2>3
    <3>2. c \in Seq(BGs) /\ DOMAIN c = 1..2 /\ c[1] = normalBg /\ c[2] = premadeBg
      BY <2>2, <2>3, <3>1
    <3>3. 1..2 = {1, 2}
      OBVIOUS
    <3>4. \A x : x \in Range(c) <=> x = c[1] \/ x = c[2]
      BY <3>2, <3>3 DEF Range
    <3> QED BY <2>2, <2>3, <3>2, <3>3, <3>4
  <2>4. CASE premade /\ ~normal
    <3>1. c = <<>> \o <<premadeBg>>
      BY <2>1, <2>4
    <3>2. c \in Seq(BGs) /\ DOMAIN c = 1..1 /\ c[1] = premadeBg
      BY <2>2, <2>4, <3>1
    <3> QED BY <2>2, <2>4, <3>2 DEF Range
  <2>5. CASE ~premade /\ normal
    <3>1. c = <<normalBg>> \o <<>>
      BY <2>1, <2>5
    <3>2. c \in Seq(BGs) /\ DOMAIN c = 1..1 /\ c[1] = normalBg
      BY <2>2, <2>5, <3>1
    <3> QED BY <2>2, <2>5, <3>2 DEF Range
  <2>6. CASE ~premade /\ ~normal
    <3>1. c = <<>>
      BY <2>1, <2>6
    <3> QED BY <2>6, <3>1 DEF Range
  <2> QED BY <2>3, <2>4, <2>5, <2>6
<1>14. Range(c) \subseteq NewBGs(t)
  BY <1>3, <1>4, <1>6, <1>13
<1>15. B2 = F \cup Range(c)
  BY <1>13
<1>16. Updated(t, after(mid), c, inv2, room)
  <2> HIDE DEF c, B1, B2
  <2> QED BY <1>7, <1>12, <1>13, <1>14, <1>15 DEF Updated, F, c
<1> HIDE DEF c
<1> QED BY <1>16

\* If all who wait are in the world, the invited are found.
LEMMA AllReached ==
  ASSUME NEW t \in Types, Well(queue[t], t), NEW after, Well(after, t),
         NEW inv, Invitation(after, queue[t], inv),
         \A p \in Players : Queued(p, t) => where[p] = "world"
  PROVE  Reached(t, after) = inv
<1> DEFINE old == queue[t]
           invited == (UNION {Range(after[l]) : l \in Lists}) \ GroupsOf(t)
           found(p) == where[p] = "world" /\ \E g \in invited : p \in g.players
           r == Reached(t, after)
<1>1. r = [p \in Players |-> IF found(p) THEN (CHOOSE g \in invited : p \in g.players).invited ELSE NoBg]
  BY DEF Reached
<1>2. invited = GroupsIn(after) \ GroupsIn(old)
  BY DEF GroupsIn, GroupsOf
<1>3. /\ inv \in [Players -> BGs \cup {NoBg}]
      /\ \A q \in Players : inv[q] # NoBg => \E n : EntryIn(old, q, NoBg, n)
      /\ \A q \in Players : \A b, n : EntryIn(after, q, b, n) <=>
           IF inv[q] = NoBg THEN EntryIn(old, q, b, n) ELSE b = inv[q] /\ n = NewTime(b)
      /\ \A g \in GroupsIn(after) : \A q \in g.players : inv[q] = NoBg => g \in GroupsIn(old)
  BY DEF Invitation
<1>4. Well(old, t)
  OBVIOUS
<1>5. \A p \in Players : (\E b, n : EntryIn(old, p, b, n)) => where[p] = "world"
  BY DEF Queued, GroupsOf, GroupsIn, EntryIn
<1> HIDE DEF invited, r, old
<1>6. ASSUME NEW p \in Players, NEW g \in invited, p \in g.players
      PROVE  inv[p] # NoBg /\ g.invited = inv[p]
  <2>1. inv[p] # NoBg
    BY <1>2, <1>3, <1>6
  <2>2. EntryIn(after, p, g.invited, g.time)
    BY <1>2, <1>6 DEF EntryIn
  <2> QED BY <1>3, <2>1, <2>2
<1>7. ASSUME NEW p \in Players, inv[p] # NoBg
      PROVE  found(p)
  <2>1. PICK n : EntryIn(old, p, NoBg, n)
    BY <1>3, <1>7
  <2>2. where[p] = "world"
    BY <1>5, <2>1
  <2>3. EntryIn(after, p, inv[p], NewTime(inv[p]))
    BY <1>3, <1>7
  <2>4. PICK g \in GroupsIn(after) : p \in g.players /\ g.invited = inv[p]
    BY <2>3 DEF EntryIn
  <2>5. g \notin GroupsIn(old)
    <3>1. ASSUME g \in GroupsIn(old) PROVE FALSE
      <4>1. EntryIn(old, p, g.invited, g.time)
        BY <2>4, <3>1 DEF EntryIn
      <4>2. g.invited = NoBg
        BY <1>4, <2>1, <4>1, OneEntry
      <4> QED BY <1>7, <2>4, <4>2
    <3> QED BY <3>1
  <2> QED BY <1>2, <2>2, <2>4, <2>5
<1>8. ASSUME NEW p \in Players
      PROVE  r[p] = inv[p]
  <2>1. CASE found(p)
    <3> DEFINE g == CHOOSE h \in invited : p \in h.players
    <3>1. g \in invited /\ p \in g.players
      BY <2>1
    <3>2. r[p] = g.invited
      BY <1>1, <2>1
    <3> HIDE DEF g
    <3> QED BY <1>6, <3>1, <3>2
  <2>2. CASE ~found(p)
    <3>1. inv[p] = NoBg
      BY <1>7, <2>2
    <3>2. r[p] = NoBg
      BY <1>1, <2>2
    <3> QED BY <3>1, <3>2
  <2> QED BY <2>1, <2>2
<1>9. r = [p \in Players |-> r[p]] /\ inv = [p \in Players |-> inv[p]]
  <2>1. r = [p \in Players |-> r[p]]
    BY <1>1
  <2> QED BY <1>3, <2>1
<1>10. r = inv
  BY <1>8, <1>9
<1> QED BY <1>10 DEF r

=============================================================================
