------------------------ MODULE WorldSessions_proofs ------------------------
(***************************************************************************)
(* Proofs about WorldSessions for every set of accounts, sessions and      *)
(* characters and every limit: first about the list and the wait queue, with *)
(* clients that need not be calm; then, with calm clients, about the       *)
(* characters, their loads and their saves across the sessions of an account *)
(* that replace each other.                                                *)
(***************************************************************************)
EXTENDS WorldSessions, SequenceTheorems, FiniteSetTheorems, TLAPS

\* The accounts that UpdateSessions has not reached, and the one it updates,
\* have a session.
UpdatesListed ==
  /\ phase # "update" => updating = NoAccount /\ toUpdate = {}
  /\ toUpdate \subseteq Listed
  /\ updating # NoAccount => updating \in Listed \ toUpdate

\* Only a session that has been added can have m_inQueue.
FlagsAdded == \A k \in inQueue : status[k] \in {"live", "deleted"}

\* A session that has a player controls a Player object in the world.
PlayersInWorld == \A k \in Sessions : player[k] # NoChar => Controlled(k) # {}

IInv ==
  /\ TypeOK
  /\ PlayersInWorld
  /\ NoDeletedSession
  /\ UpdatesListed
  /\ FlagsAdded
  /\ WaitsIffQueued

-----------------------------------------------------------------------------
(* The wait queue.                                                         *)

\* Erase takes one session out and nothing else.
LEMMA EraseProperties ==
  ASSUME NEW queue \in Seq(Sessions), IsInjective(queue), NEW k
  PROVE  /\ Erase(queue, k) \in Seq(Sessions)
         /\ IsInjective(Erase(queue, k))
         /\ Range(Erase(queue, k)) = Range(queue) \ {k}
<1>1. Len(queue) \in Nat /\ DOMAIN queue = 1..Len(queue)
  BY LenProperties
<1>2. CASE k \notin Range(queue)
  BY <1>2 DEF Erase
<1>3. CASE k \in Range(queue)
  <2> DEFINE p == Position(queue, k)
             rest == [j \in 1..(Len(queue) - 1) |->
                        IF j < p THEN queue[j] ELSE queue[j + 1]]
  <2>1. p \in 1..Len(queue) /\ queue[p] = k
    BY <1>1, <1>3 DEF Position, Range
  <2>2. Erase(queue, k) = rest
    BY <1>3 DEF Erase
  <2> HIDE DEF p
  <2>3. \A j \in 1..(Len(queue) - 1) : rest[j] \in Sessions
    BY <1>1, <2>1, ElementOfSeq
  <2>4. rest \in Seq(Sessions)
    BY <1>1, <2>3
  <2>5. DOMAIN rest = 1..(Len(queue) - 1)
    OBVIOUS
  <2>6. IsInjective(rest)
    BY <1>1, <2>1, <2>5 DEF IsInjective
  <2>7. \A j \in 1..(Len(queue) - 1) : rest[j] \in Range(queue) \ {k}
    BY <1>1, <2>1 DEF Range, IsInjective
  <2>8. ASSUME NEW x \in Range(queue) \ {k}
        PROVE  x \in Range(rest)
    <3>1. PICK i \in 1..Len(queue) : queue[i] = x
      BY <1>1 DEF Range
    <3>2. CASE i < p
      <4>1. i \in 1..(Len(queue) - 1) /\ rest[i] = x
        BY <1>1, <2>1, <3>1, <3>2
      <4> QED BY <2>5, <4>1 DEF Range
    <3>3. CASE i > p
      <4>1. i - 1 \in 1..(Len(queue) - 1) /\ rest[i - 1] = x
        BY <1>1, <2>1, <3>1, <3>3
      <4> QED BY <2>5, <4>1 DEF Range
    <3> QED BY <2>1, <3>1, <3>2, <3>3
  <2>9. Range(rest) = Range(queue) \ {k}
    BY <2>5, <2>7, <2>8 DEF Range
  <2> QED BY <2>2, <2>4, <2>6, <2>9
<1> QED BY <1>2, <1>3

\* RemoveQueuedPlayer takes out the session it is asked to and at most one
\* more, and clears the flags of exactly those it takes out.
LEMMA RemoveProperties ==
  ASSUME m_QueuedPlayer \in Seq(Sessions), IsInjective(m_QueuedPlayer), NEW k
  PROVE  LET removed == RemoveQueuedPlayer(k)
         IN /\ removed.queue \in Seq(Sessions)
            /\ IsInjective(removed.queue)
            /\ Range(removed.queue) = Range(m_QueuedPlayer) \ ({k} \cup removed.passed)
            /\ removed.passed \subseteq Range(m_QueuedPlayer)
            /\ k \in Range(m_QueuedPlayer) => k \in removed.passed
<1> DEFINE rest == Erase(m_QueuedPlayer, k)
           letIn == IF HasPlace(OthersActive(k)) /\ rest # <<>>
                      THEN {NextIn(rest)} ELSE {}
<1>1. rest \in Seq(Sessions) /\ IsInjective(rest)
      /\ Range(rest) = Range(m_QueuedPlayer) \ {k}
  BY EraseProperties
<1>2. RemoveQueuedPlayer(k) =
        [queue  |-> IF letIn = {} THEN rest ELSE Erase(rest, NextIn(rest)),
         found  |-> k \in Range(m_QueuedPlayer),
         passed |-> ({k} \cap Range(m_QueuedPlayer)) \cup letIn]
  BY DEF RemoveQueuedPlayer
<1> HIDE DEF rest
<1>3. CASE letIn = {}
  BY <1>1, <1>2, <1>3
<1>4. CASE letIn # {}
  <2>1. letIn = {NextIn(rest)} /\ rest # <<>>
    BY <1>4
  <2>2. NextIn(rest) \in Range(rest)
    BY <1>1, <2>1, EmptySeq, LenProperties DEF NextIn, Range
  <2>3. Erase(rest, NextIn(rest)) \in Seq(Sessions)
        /\ IsInjective(Erase(rest, NextIn(rest)))
        /\ Range(Erase(rest, NextIn(rest))) = Range(rest) \ {NextIn(rest)}
    BY <1>1, EraseProperties
  <2> HIDE DEF letIn
  <2> QED BY <1>1, <1>2, <1>4, <2>1, <2>2, <2>3
<1> QED BY <1>3, <1>4

-----------------------------------------------------------------------------
(* Types.                                                                  *)

\* The initial state has the types.
LEMMA InitTypes == Init => TypeOK
<1> SUFFICES ASSUME Init PROVE TypeOK
  OBVIOUS
<1>1. /\ addSessQueue \in Seq(Sessions) /\ m_QueuedPlayer \in Seq(Sessions)
      /\ dbQueue \in Seq(DbOperation) /\ resultQueue \in Seq(Holder)
  BY EmptySeq DEF Init
<1>2. rows \in [Chars -> Row]
  BY DEF Init, Row
<1> QED BY <1>1, <1>2, LimitAssumption DEF Init, TypeOK

\* The operations that the handlers build are operations of the delay thread.
LEMMA OperationTypes ==
  /\ \A c \in Chars, n \in Nat : [op |-> "save", char |-> c, ver |-> n] \in DbOperation
  /\ \A c \in Chars : /\ [op |-> "delete", char |-> c] \in DbOperation
                      /\ [op |-> "online", char |-> c] \in DbOperation
  /\ \A a \in Accounts : [op |-> "offline", account |-> a] \in DbOperation
  /\ \A c \in Chars, k \in Sessions :
       [op |-> "load", char |-> c, session |-> k] \in DbOperation
BY DEF DbOperation

\* The operations of a logout are operations of the delay thread.
LEMMA LogoutTypes ==
  ASSUME TypeOK, PlayersInWorld, NEW k \in Sessions, LogoutPlayer(k)
  PROVE  /\ world' \subseteq Player
         /\ player' \in [Sessions -> Chars \cup {NoChar}]
         /\ logoutTime' \subseteq Sessions
         /\ dbQueue' \in Seq(DbOperation)
<1>1. world' \subseteq Player /\ logoutTime' \subseteq Sessions
      /\ player' \in [Sessions -> Chars \cup {NoChar}]
  BY DEF LogoutPlayer, TypeOK
<1>2. Offline(k) \in DbOperation
  BY OperationTypes, SessionsAssumption DEF Offline
<1>3. Saved(k) \subseteq DbOperation
  BY OperationTypes DEF Saved, Controlled, TypeOK, Player
<1>4. LogoutOperations(k) \in Seq(DbOperation)
  <2>1. CASE player[k] = NoChar
    BY <2>1, EmptySeq DEF LogoutOperations
  <2>2. CASE player[k] # NoChar
    <3> DEFINE s == CHOOSE o \in Saved(k) : TRUE
    <3>1. Saved(k) # {}
      BY <2>2 DEF PlayersInWorld, Saved
    <3>2. s \in DbOperation
      BY <1>3, <3>1
    <3>3. LogoutOperations(k) = <<s, Offline(k)>>
      BY <2>2 DEF LogoutOperations
    <3> HIDE DEF s
    <3> QED BY <1>2, <3>2, <3>3
  <2> QED BY <2>1, <2>2
<1>5. dbQueue' \in Seq(DbOperation)
  BY <1>4, ConcatProperties DEF LogoutPlayer, TypeOK
<1> QED BY <1>1, <1>5

\* Every operation leaves a table of rows and a queue of answered holders.
LEMMA PerformTypes ==
  ASSUME TypeOK, NEW op \in DbOperation, Perform(op)
  PROVE  rows' \in [Chars -> Row] /\ resultQueue' \in Seq(Holder)
<1>1. rows \in [Chars -> Row] /\ resultQueue \in Seq(Holder)
  BY DEF TypeOK
<1>2. CASE op.op = "save"
  <2> DEFINE row == [exists |-> TRUE, ver |-> op.ver, online |-> TRUE]
  <2>1. op.char \in Chars /\ op.ver \in Nat
    BY <1>2 DEF DbOperation
  <2>2. row \in Row
    BY <2>1 DEF Row
  <2>3. rows' = [rows EXCEPT ![op.char] = row] /\ resultQueue' = resultQueue
    BY <1>2 DEF Perform
  <2> HIDE DEF row
  <2> QED BY <1>1, <2>1, <2>2, <2>3
<1>3. CASE op.op = "delete"
  <2> DEFINE row == [rows[op.char] EXCEPT !.exists = FALSE]
  <2>1. op.char \in Chars
    BY <1>3 DEF DbOperation
  <2>2. \A r \in Row : [r EXCEPT !.exists = FALSE] \in Row
    BY DEF Row
  <2>3. row \in Row
    BY <1>1, <2>1, <2>2
  <2>4. rows' = [rows EXCEPT ![op.char] = row] /\ resultQueue' = resultQueue
    BY <1>3 DEF Perform
  <2> HIDE DEF row
  <2> QED BY <1>1, <2>1, <2>3, <2>4
<1>4. CASE op.op = "online"
  <2> DEFINE row == [rows[op.char] EXCEPT !.online = rows[op.char].exists]
  <2>1. op.char \in Chars /\ rows[op.char].exists \in BOOLEAN
    BY <1>1, <1>4 DEF DbOperation, Row
  <2>2. \A r \in Row, b \in BOOLEAN : [r EXCEPT !.online = b] \in Row
    BY DEF Row
  <2>3. row \in Row
    BY <1>1, <2>1, <2>2
  <2>4. rows' = [rows EXCEPT ![op.char] = row] /\ resultQueue' = resultQueue
    BY <1>4 DEF Perform
  <2> HIDE DEF row
  <2> QED BY <1>1, <2>1, <2>3, <2>4
<1>5. CASE op.op = "offline"
  <2> DEFINE row(c) == [rows[c] EXCEPT !.online = @ /\ OwnerOf[c] # op.account]
  <2>1. \A r \in Row, b \in BOOLEAN : [r EXCEPT !.online = @ /\ b] \in Row
    BY DEF Row
  <2>2. \A c \in Chars : row(c) \in Row
    BY <1>1, <2>1
  <2>3. rows' = [c \in Chars |-> row(c)] /\ resultQueue' = resultQueue
    BY <1>5 DEF Perform
  <2> HIDE DEF row
  <2> QED BY <1>1, <2>2, <2>3
<1>6. CASE op.op = "load"
  <2>1. op.char \in Chars /\ op.session \in Sessions
    BY <1>6 DEF DbOperation
  <2>2. Answer(op) \in Holder
    BY <1>1, <2>1 DEF Answer, Holder
  <2> QED BY <1>1, <1>6, <2>2, AppendProperties DEF Perform
<1> QED BY <1>2, <1>3, <1>4, <1>5, <1>6 DEF Perform

\* What clients, their players and commands do keeps the types.
LEMMA ClientTypes ==
  ASSUME IInv, Input
  PROVE  TypeOK'
<1> USE DEF sessionVars, queueVars, loopVars, playerVars, dbVars, packetFrame
<1>0. TypeOK /\ PlayersInWorld
  BY DEF IInv
<1>1. ASSUME NEW k \in Sessions, HandleAuthSession(k) PROVE TypeOK'
  BY <1>0, <1>1, AppendProperties DEF TypeOK, HandleAuthSession
<1>2. ASSUME NEW k \in Sessions, CloseSocket(k) PROVE TypeOK'
  BY <1>0, <1>2 DEF TypeOK, CloseSocket
<1>3. ASSUME NEW k \in Sessions, NEW c \in Chars, HandlePlayerLoginOpcode(k, c)
      PROVE  TypeOK'
  <2>1. dbQueue' \in Seq(DbOperation)
    BY <1>0, <1>3, OperationTypes, AppendProperties DEF TypeOK, HandlePlayerLoginOpcode
  <2> QED BY <1>0, <1>3, <2>1 DEF TypeOK, HandlePlayerLoginOpcode
<1>4. ASSUME NEW k \in Sessions, NEW c \in Chars, HandleCharDeleteOpcode(k, c)
      PROVE  TypeOK'
  <2>1. dbQueue' \in Seq(DbOperation)
    BY <1>0, <1>4, OperationTypes, AppendProperties DEF TypeOK, HandleCharDeleteOpcode
  <2> QED BY <1>0, <1>4, <2>1 DEF TypeOK, HandleCharDeleteOpcode
<1>5. ASSUME NEW k \in Sessions, HandleLogoutRequestOpcode(k) PROVE TypeOK'
  <2>1. /\ world' \subseteq Player /\ player' \in [Sessions -> Chars \cup {NoChar}]
        /\ logoutTime' \subseteq Sessions /\ dbQueue' \in Seq(DbOperation)
    BY <1>0, <1>5, LogoutTypes DEF TypeOK, HandleLogoutRequestOpcode
  <2> QED BY <1>0, <1>5, <2>1 DEF TypeOK, HandleLogoutRequestOpcode
<1>6. ASSUME NEW k \in Sessions, HandleLogoutCancelOpcode(k) PROVE TypeOK'
  BY <1>0, <1>6 DEF TypeOK, HandleLogoutCancelOpcode
<1>7. ASSUME NEW p \in world, Play(p) PROVE TypeOK'
  <2>1. p \in Player /\ p.char \in Chars /\ p.ver + 1 \in Nat
    BY <1>0 DEF TypeOK, Player
  <2>2. [p EXCEPT !.ver = @ + 1] \in Player
    BY <2>1 DEF Player
  <2> QED BY <1>0, <1>7, <2>1, <2>2 DEF TypeOK, Play
<1>8. ASSUME NEW p \in world, AutoSave(p) PROVE TypeOK'
  <2>1. p.char \in Chars /\ p.ver \in Nat
    BY <1>0 DEF TypeOK, Player
  <2>2. dbQueue' \in Seq(DbOperation)
    BY <1>0, <1>8, <2>1, OperationTypes, AppendProperties DEF TypeOK, AutoSave
  <2> QED BY <1>0, <1>8, <2>2 DEF TypeOK, AutoSave
<1>9. ASSUME NEW a \in Accounts, KickPlayer(a) PROVE TypeOK'
  BY <1>0, <1>9 DEF TypeOK, KickPlayer
<1>10. ASSUME NEW limit \in Limits, HandleServerPLimitCommand(limit) PROVE TypeOK'
  BY <1>0, <1>10, LimitAssumption DEF TypeOK, HandleServerPLimitCommand, Listed
<1>11. CASE StopNow
  BY <1>0, <1>11 DEF TypeOK, StopNow
<1> QED
  BY <1>1, <1>2, <1>3, <1>4, <1>5, <1>6, <1>7, <1>8, <1>9, <1>10, <1>11 DEF Input

\* The world thread's own steps keep the types.
LEMMA WorldThreadTypes ==
  ASSUME IInv, WorldThread
  PROVE  TypeOK'
<1> USE DEF sessionVars, queueVars, loopVars, playerVars, dbVars
<1>0. TypeOK /\ PlayersInWorld /\ IsInjective(m_QueuedPlayer)
  BY DEF IInv, NoDeletedSession
<1>a. addSessQueue # <<>> =>
        /\ Head(addSessQueue) \in Sessions
        /\ AccountOf[Head(addSessQueue)] \in Accounts
        /\ Tail(addSessQueue) \in Seq(Sessions)
  BY <1>0, HeadTailProperties, SessionsAssumption DEF TypeOK
<1>1. CASE AddSessionRefused
  BY <1>0, <1>1, <1>a DEF TypeOK, AddSessionRefused
<1>2. CASE AddSessionNew
  <2> DEFINE k == Head(addSessQueue)
             a == AccountOf[k]
  <2>1. k \in Sessions /\ a \in Accounts /\ addSessQueue' \in Seq(Sessions)
    BY <1>2, <1>a DEF AddSessionNew
  <2>2. \/ m_QueuedPlayer' = Append(m_QueuedPlayer, k) /\ inQueue' = inQueue \cup {k}
        \/ UNCHANGED <<m_QueuedPlayer, inQueue>>
    BY <1>2 DEF AddSessionNew
  <2>3. /\ m_sessions' = [m_sessions EXCEPT ![a] = k]
        /\ status' = [status EXCEPT ![k] = "live"]
        /\ UNCHANGED <<closing, m_playerLimit, loopVars, playerVars, dbVars>>
    BY <1>2 DEF AddSessionNew
  <2> HIDE DEF k, a
  <2>4. m_QueuedPlayer \in Seq(Sessions) /\ inQueue \subseteq Sessions
    BY <1>0 DEF TypeOK
  <2>5. m_QueuedPlayer' \in Seq(Sessions)
    BY <2>1, <2>2, <2>4, AppendProperties
  <2>6. inQueue' \subseteq Sessions
    BY <2>1, <2>2, <2>4
  <2> QED BY <1>0, <2>1, <2>3, <2>5, <2>6 DEF TypeOK
<1>3. CASE AddSessionReplaces
  <2> DEFINE k == Head(addSessQueue)
             a == AccountOf[k]
             old == m_sessions[a]
             removed == RemoveQueuedPlayer(old)
  <2>1. k \in Sessions /\ a \in Accounts /\ old \in Sessions
    BY <1>0, <1>3, <1>a DEF TypeOK, AddSessionReplaces
  <2>2. removed.queue \in Seq(Sessions)
    BY <1>0, RemoveProperties DEF TypeOK
  <2>3. LogoutPlayer(old)
    BY <1>3 DEF AddSessionReplaces
  <2>4. /\ world' \subseteq Player /\ player' \in [Sessions -> Chars \cup {NoChar}]
        /\ logoutTime' \subseteq Sessions /\ dbQueue' \in Seq(DbOperation)
    BY <1>0, <2>1, <2>3, LogoutTypes
  <2>5. \/ m_QueuedPlayer' = removed.queue
        \/ m_QueuedPlayer' = Append(removed.queue, k)
    BY <1>3 DEF AddSessionReplaces
  <2>6. inQueue' \subseteq inQueue \cup {k}
    BY <1>3 DEF AddSessionReplaces
  <2>7. /\ m_sessions' = [m_sessions EXCEPT ![a] = k]
        /\ status' = [status EXCEPT ![old] = "deleted", ![k] = "live"]
        /\ closing' = closing \cup {old}
        /\ addSessQueue' = Tail(addSessQueue)
        /\ UNCHANGED <<m_playerLimit, loopVars, loading, rows, resultQueue, logins,
                       progress>>
    BY <1>3 DEF AddSessionReplaces
  <2>8. addSessQueue' \in Seq(Sessions)
    BY <1>3, <1>a, <2>7 DEF AddSessionReplaces
  <2> HIDE DEF k, a, old, removed
  <2>9. m_QueuedPlayer' \in Seq(Sessions)
    BY <2>1, <2>2, <2>5, AppendProperties
  <2> QED BY <1>0, <2>1, <2>4, <2>6, <2>7, <2>8, <2>9 DEF TypeOK
<1>4. CASE BeginUpdates
  BY <1>0, <1>4 DEF TypeOK, BeginUpdates, Listed
<1>5. ASSUME NEW a \in Accounts, NextSession(a) PROVE TypeOK'
  BY <1>0, <1>5 DEF TypeOK, NextSession
<1>6. CASE EndUpdates
  BY <1>0, <1>6 DEF TypeOK, EndUpdates
<1>7. CASE FinishOpen
  <2>1. updating \in Accounts /\ m_sessions[updating] \in Sessions
    BY <1>0, <1>7 DEF IInv, UpdatesListed, Listed, TypeOK, FinishOpen
  <2>2. /\ world' \subseteq Player /\ player' \in [Sessions -> Chars \cup {NoChar}]
        /\ logoutTime' \subseteq Sessions /\ dbQueue' \in Seq(DbOperation)
    BY <1>0, <1>7, <2>1, LogoutTypes DEF TypeOK, FinishOpen
  <2> QED BY <1>0, <1>7, <2>2 DEF TypeOK, FinishOpen
<1>8. CASE FinishClosed
  <2> DEFINE k == m_sessions[updating]
             removed == RemoveQueuedPlayer(k)
  <2>1. updating \in Accounts /\ k \in Sessions
    BY <1>0, <1>8 DEF IInv, UpdatesListed, Listed, TypeOK, FinishClosed
  <2>2. removed.queue \in Seq(Sessions)
    BY <1>0, RemoveProperties DEF TypeOK
  <2>3. LogoutPlayer(k)
    BY <1>8 DEF FinishClosed
  <2>4. /\ world' \subseteq Player /\ player' \in [Sessions -> Chars \cup {NoChar}]
        /\ logoutTime' \subseteq Sessions /\ dbQueue' \in Seq(DbOperation)
    BY <1>0, <2>1, <2>3, LogoutTypes
  <2>5. /\ m_QueuedPlayer' = removed.queue
        /\ inQueue' = inQueue \ removed.passed
        /\ status' = [status EXCEPT ![k] = "deleted"]
        /\ loading' = loading \ {k}
        /\ m_sessions' = [m_sessions EXCEPT ![updating] = NoSession]
        /\ updating' = NoAccount
        /\ UNCHANGED <<closing, addSessQueue, m_playerLimit, phase, toUpdate, stopping,
                       rows, resultQueue, logins, progress>>
    BY <1>8 DEF FinishClosed
  <2> HIDE DEF k, removed
  <2> QED BY <1>0, <2>1, <2>2, <2>4, <2>5 DEF TypeOK
<1>9. CASE EndMaps \/ EndResults \/ EndCommands
  BY <1>0, <1>9 DEF TypeOK, EndMaps, EndResults, EndCommands
<1>10. CASE HandlePlayerLoginCallback
  <2> DEFINE holder == Head(resultQueue)
             k == m_sessions[AccountOf[holder.session]]
             c == holder.char
             new == [char |-> c, session |-> k, ver |-> holder.row.ver]
  <2>1. holder \in Holder /\ Tail(resultQueue) \in Seq(Holder)
    BY <1>0, <1>10, HeadTailProperties DEF TypeOK, HandlePlayerLoginCallback
  <2>2. c \in Chars /\ holder.session \in Sessions /\ holder.row.ver \in Nat
    BY <2>1 DEF Holder, Row
  <2>3. k \in Sessions \cup {NoSession}
    BY <1>0, <2>2, SessionsAssumption DEF TypeOK
  <2>4. k # NoSession => new \in Player
    BY <2>2, <2>3 DEF Player
  <2>5. Append(dbQueue, [op |-> "online", char |-> c]) \in Seq(DbOperation)
    BY <1>0, <2>2, OperationTypes, AppendProperties DEF TypeOK
  <2>6. /\ resultQueue' = Tail(resultQueue)
        /\ \/ UNCHANGED <<closing, playerVars, dbQueue>>
           \/ /\ k # NoSession
              /\ closing' = closing \cup {k}
              /\ loading' = loading \ {k}
              /\ UNCHANGED <<player, logoutTime, world, dbQueue>>
           \/ /\ k # NoSession
              /\ world' = world \cup {new}
              /\ player' = [player EXCEPT ![k] = c]
              /\ loading' = loading \ {k}
              /\ dbQueue' = Append(dbQueue, [op |-> "online", char |-> c])
              /\ UNCHANGED <<closing, logoutTime>>
        /\ UNCHANGED <<status, addSessQueue, m_sessions, queueVars, loopVars, rows,
                       logins, progress>>
    BY <1>10 DEF HandlePlayerLoginCallback
  <2> HIDE DEF holder, k, c, new
  <2> QED BY <1>0, <2>1, <2>2, <2>3, <2>4, <2>5, <2>6 DEF TypeOK
<1>11. CASE KickAll
  <2>1. {m_sessions[a] : a \in Listed} \subseteq Sessions
    BY <1>0 DEF TypeOK, Listed
  <2> QED BY <1>0, <1>11, <2>1, EmptySeq DEF TypeOK, KickAll
<1> QED
  BY <1>1, <1>2, <1>3, <1>4, <1>5, <1>6, <1>7, <1>8, <1>9, <1>10, <1>11
  DEF WorldThread

\* The delay thread keeps the types.
LEMMA DelayThreadTypes ==
  ASSUME IInv, DelayThread
  PROVE  TypeOK'
<1>1. TypeOK
  BY DEF IInv
<1>2. Head(dbQueue) \in DbOperation /\ Tail(dbQueue) \in Seq(DbOperation)
  BY <1>1, HeadTailProperties DEF TypeOK, DelayThread
<1>3. rows' \in [Chars -> Row] /\ resultQueue' \in Seq(Holder)
  BY <1>1, <1>2, PerformTypes DEF DelayThread
<1> QED
  BY <1>1, <1>2, <1>3
  DEF TypeOK, DelayThread, sessionVars, queueVars, loopVars, playerVars

-----------------------------------------------------------------------------
(* Where the sessions are.                                                 *)

\* The part of IInv about the sessions alone.
Places ==
  /\ NoDeletedSession
  /\ UpdatesListed
  /\ FlagsAdded
  /\ WaitsIffQueued

\* A step that moves no session keeps them where they are.
LEMMA PlacesFrame ==
  ASSUME Places, UNCHANGED <<status, addSessQueue, m_sessions, m_QueuedPlayer, inQueue>>,
         UpdatesListed', stopping = "kicked" => stopping' = "kicked"
  PROVE  Places'
BY DEF Places, NoDeletedSession, FlagsAdded, WaitsIffQueued, Listed

\* The tail of a queue without repetition is the rest of it.
LEMMA QueueTail ==
  ASSUME NEW queue \in Seq(Sessions), queue # <<>>, IsInjective(queue)
  PROVE  /\ IsInjective(Tail(queue))
         /\ Range(Tail(queue)) = Range(queue) \ {Head(queue)}
         /\ Head(queue) \in Range(queue)
<1>1. Len(queue) \in Nat \ {0} /\ DOMAIN queue = 1..Len(queue)
      /\ Head(queue) = queue[1]
  BY EmptySeq, LenProperties
<1>2. /\ Tail(queue) \in Seq(Sessions)
      /\ Len(Tail(queue)) = Len(queue) - 1
      /\ \A i \in 1..Len(Tail(queue)) : Tail(queue)[i] = queue[i + 1]
  BY HeadTailProperties
<1>3. DOMAIN Tail(queue) = 1..(Len(queue) - 1)
  BY <1>2, LenProperties
<1>4. IsInjective(Tail(queue))
  BY <1>1, <1>2, <1>3 DEF IsInjective
<1>5. \A i \in DOMAIN Tail(queue) : Tail(queue)[i] \in Range(queue) \ {Head(queue)}
  BY <1>1, <1>2, <1>3 DEF IsInjective, Range
<1>6. ASSUME NEW x \in Range(queue) \ {Head(queue)} PROVE x \in Range(Tail(queue))
  <2>1. PICK i \in 1..Len(queue) : queue[i] = x
    BY <1>1 DEF Range
  <2>2. i - 1 \in 1..(Len(queue) - 1) /\ Tail(queue)[i - 1] = x
    BY <1>1, <1>2, <2>1
  <2> QED BY <1>3, <2>2 DEF Range
<1>7. Range(Tail(queue)) \subseteq Range(queue) \ {Head(queue)}
  BY <1>5 DEF Range
<1>8. Head(queue) \in Range(queue)
  BY <1>1 DEF Range
<1> QED BY <1>4, <1>6, <1>7, <1>8

\* Appending a session that a queue does not hold adds it.
LEMMA QueueAppend ==
  ASSUME NEW queue \in Seq(Sessions), IsInjective(queue),
         NEW k \in Sessions, k \notin Range(queue)
  PROVE  /\ IsInjective(Append(queue, k))
         /\ Range(Append(queue, k)) = Range(queue) \cup {k}
<1>1. Len(queue) \in Nat /\ DOMAIN queue = 1..Len(queue)
  BY LenProperties
<1>2. /\ Append(queue, k) \in Seq(Sessions)
      /\ Len(Append(queue, k)) = Len(queue) + 1
      /\ \A i \in 1..Len(queue) : Append(queue, k)[i] = queue[i]
      /\ Append(queue, k)[Len(queue) + 1] = k
  BY AppendProperties
<1>3. DOMAIN Append(queue, k) = 1..(Len(queue) + 1)
  BY <1>2, LenProperties
<1>4. \A i \in 1..Len(queue) : queue[i] # k
  BY <1>1 DEF Range
<1>5. IsInjective(Append(queue, k))
  BY <1>1, <1>2, <1>3, <1>4 DEF IsInjective
<1>6. Range(Append(queue, k)) = Range(queue) \cup {k}
  BY <1>1, <1>2, <1>3 DEF Range
<1> QED BY <1>5, <1>6

\* A session at the head of addSessQueue is in no other place.
LEMMA NextAdded ==
  ASSUME TypeOK, Places, addSessQueue # <<>>
  PROVE  LET k == Head(addSessQueue)
         IN /\ k \in Sessions /\ AccountOf[k] \in Accounts
            /\ status[k] = "adding"
            /\ k \notin Range(m_QueuedPlayer) /\ k \notin inQueue
            /\ IsInjective(Tail(addSessQueue))
            /\ Range(Tail(addSessQueue)) = Range(addSessQueue) \ {k}
            /\ \A j \in Range(Tail(addSessQueue)) : status[j] = "adding"
<1> DEFINE k == Head(addSessQueue)
<1>1. k \in Sessions /\ AccountOf[k] \in Accounts
  BY HeadTailProperties, SessionsAssumption DEF TypeOK
<1>2. /\ IsInjective(Tail(addSessQueue)) /\ k \in Range(addSessQueue)
      /\ Range(Tail(addSessQueue)) = Range(addSessQueue) \ {k}
  BY QueueTail DEF TypeOK, Places, NoDeletedSession
<1>3. status[k] = "adding"
  BY <1>2 DEF Places, NoDeletedSession
<1>4. k \notin Range(m_QueuedPlayer) /\ k \notin inQueue
  BY <1>3 DEF Places, NoDeletedSession, FlagsAdded
<1>5. \A j \in Range(Tail(addSessQueue)) : status[j] = "adding"
  BY <1>2 DEF Places, NoDeletedSession
<1> QED BY <1>1, <1>2, <1>3, <1>4, <1>5

\* AddSession_ refused: only the new session moves, to deleted.
LEMMA RefusedPlaces ==
  ASSUME TypeOK, Places, AddSessionRefused
  PROVE  Places'
<1> DEFINE k == Head(addSessQueue)
<1>1. addSessQueue # <<>>
  BY DEF AddSessionRefused
<1>2. /\ k \in Sessions /\ status[k] = "adding" /\ k \notin Range(m_QueuedPlayer)
      /\ k \notin inQueue /\ IsInjective(addSessQueue')
      /\ \A j \in Range(addSessQueue') : status[j] = "adding" /\ j # k
  BY <1>1, NextAdded DEF AddSessionRefused
<1>3. /\ status' = [status EXCEPT ![k] = "deleted"]
      /\ UNCHANGED <<m_sessions, m_QueuedPlayer, inQueue, phase, toUpdate, updating,
                     stopping>>
  BY DEF AddSessionRefused, queueVars, loopVars
<1> HIDE DEF k
<1>4. \A j \in Sessions \ {k} : status'[j] = status[j]
  BY <1>3 DEF TypeOK
<1>5. status'[k] = "deleted"
  BY <1>2, <1>3 DEF TypeOK
<1>6. Range(addSessQueue') \subseteq Sessions /\ Range(m_QueuedPlayer) \subseteq Sessions
  <2>1. addSessQueue' \in Seq(Sessions)
    BY <1>1, HeadTailProperties DEF TypeOK, AddSessionRefused
  <2> QED BY <2>1, LenProperties DEF TypeOK, Range
<1>7. NoDeletedSession'
  <2>1. \A a \in Listed' : status'[m_sessions'[a]] = "live" /\ AccountOf[m_sessions'[a]] = a
    BY <1>2, <1>3, <1>4 DEF TypeOK, Places, NoDeletedSession, Listed
  <2>2. \A j \in Sessions : status'[j] = "live" => m_sessions'[AccountOf[j]] = j
    BY <1>3, <1>4, <1>5 DEF Places, NoDeletedSession
  <2>3. \A j \in Range(addSessQueue') : status'[j] = "adding"
    BY <1>2, <1>4, <1>6
  <2>4. \A j \in Range(m_QueuedPlayer') : status'[j] = "live"
    BY <1>2, <1>3, <1>4, <1>6 DEF Places, NoDeletedSession
  <2> QED BY <1>2, <1>3, <2>1, <2>2, <2>3, <2>4 DEF Places, NoDeletedSession
<1>8. UpdatesListed'
  BY <1>3 DEF Places, UpdatesListed, Listed
<1>9. FlagsAdded'
  BY <1>2, <1>3, <1>4 DEF TypeOK, Places, FlagsAdded
<1>10. WaitsIffQueued'
  BY <1>3, <1>4, <1>5 DEF Places, WaitsIffQueued
<1> QED BY <1>7, <1>8, <1>9, <1>10 DEF Places

\* AddSession_ for an account without a session.
LEMMA NewPlaces ==
  ASSUME TypeOK, Places, AddSessionNew
  PROVE  Places'
<1> DEFINE k == Head(addSessQueue)
           a == AccountOf[k]
<1>1. addSessQueue # <<>>
  BY DEF AddSessionNew
<1>2. /\ k \in Sessions /\ a \in Accounts /\ status[k] = "adding"
      /\ k \notin Range(m_QueuedPlayer) /\ k \notin inQueue
      /\ IsInjective(addSessQueue')
      /\ \A j \in Range(addSessQueue') : status[j] = "adding" /\ j # k
  BY <1>1, NextAdded DEF AddSessionNew
<1>3. /\ m_sessions[a] = NoSession
      /\ m_sessions' = [m_sessions EXCEPT ![a] = k]
      /\ status' = [status EXCEPT ![k] = "live"]
      /\ \/ m_QueuedPlayer' = Append(m_QueuedPlayer, k) /\ inQueue' = inQueue \cup {k}
         \/ UNCHANGED <<m_QueuedPlayer, inQueue>>
      /\ UNCHANGED <<phase, toUpdate, updating, stopping>>
  BY DEF AddSessionNew, loopVars
<1>4. addSessQueue' \in Seq(Sessions)
  BY <1>1, HeadTailProperties DEF TypeOK, AddSessionNew
<1>5. phase = "add"
  BY DEF AddSessionNew
<1> HIDE DEF k, a
<1>6. \A j \in Sessions \ {k} : status'[j] = status[j]
  BY <1>3 DEF TypeOK
<1>7. status'[k] = "live"
  BY <1>2, <1>3 DEF TypeOK
<1>8. m_sessions'[a] = k /\ \A b \in Accounts \ {a} : m_sessions'[b] = m_sessions[b]
  BY <1>2, <1>3 DEF TypeOK
<1>9. /\ IsInjective(m_QueuedPlayer')
      /\ \/ Range(m_QueuedPlayer') = Range(m_QueuedPlayer) \cup {k}
            /\ inQueue' = inQueue \cup {k}
         \/ m_QueuedPlayer' = m_QueuedPlayer /\ inQueue' = inQueue
  <2>1. m_QueuedPlayer \in Seq(Sessions) /\ IsInjective(m_QueuedPlayer)
    BY DEF TypeOK, Places, NoDeletedSession
  <2>2. /\ IsInjective(Append(m_QueuedPlayer, k))
        /\ Range(Append(m_QueuedPlayer, k)) = Range(m_QueuedPlayer) \cup {k}
    BY <1>2, <2>1, QueueAppend
  <2> QED BY <1>3, <2>1, <2>2
<1>10. /\ Range(addSessQueue') \subseteq Sessions
       /\ Range(m_QueuedPlayer) \subseteq Sessions
  BY <1>4, LenProperties DEF TypeOK, Range
<1>11. a = AccountOf[k]
  BY DEF a
<1>12. NoDeletedSession'
  <2>1. \A b \in Listed' : status'[m_sessions'[b]] = "live" /\ AccountOf[m_sessions'[b]] = b
    <3> SUFFICES ASSUME NEW b \in Listed'
                 PROVE  status'[m_sessions'[b]] = "live" /\ AccountOf[m_sessions'[b]] = b
      OBVIOUS
    <3>1. CASE b = a
      BY <1>7, <1>8, <1>11, <3>1
    <3>2. CASE b # a
      <4>1. b \in Listed /\ m_sessions'[b] = m_sessions[b]
        BY <1>8, <3>2 DEF Listed
      <4>2. m_sessions[b] \in Sessions \ {k}
        BY <1>2, <4>1 DEF TypeOK, Listed, Places, NoDeletedSession
      <4> QED BY <1>6, <4>1, <4>2 DEF Places, NoDeletedSession
    <3> QED BY <3>1, <3>2
  <2>2. \A j \in Sessions : status'[j] = "live" => m_sessions'[AccountOf[j]] = j
    <3> SUFFICES ASSUME NEW j \in Sessions, status'[j] = "live"
                 PROVE  m_sessions'[AccountOf[j]] = j
      OBVIOUS
    <3>1. CASE j = k
      BY <1>8, <1>11, <3>1
    <3>2. CASE j # k
      <4>1. m_sessions[AccountOf[j]] = j /\ AccountOf[j] \in Accounts
        BY <1>6, <3>2, SessionsAssumption DEF Places, NoDeletedSession
      <4>2. AccountOf[j] # a
        BY <1>3, <4>1, SessionsAssumption
      <4> QED BY <1>8, <4>1, <4>2
    <3> QED BY <3>1, <3>2
  <2>3. \A j \in Range(addSessQueue') : status'[j] = "adding"
    BY <1>2, <1>6, <1>10
  <2>4. \A j \in Range(m_QueuedPlayer') : status'[j] = "live"
    BY <1>2, <1>6, <1>7, <1>9, <1>10 DEF Places, NoDeletedSession
  <2> QED BY <1>2, <1>9, <2>1, <2>2, <2>3, <2>4 DEF NoDeletedSession
<1>13. UpdatesListed'
  BY <1>3, <1>5 DEF Places, UpdatesListed
<1>14. FlagsAdded'
  BY <1>6, <1>7, <1>9 DEF TypeOK, Places, FlagsAdded
<1>15. WaitsIffQueued'
  BY <1>2, <1>3, <1>6, <1>9 DEF Places, WaitsIffQueued
<1> QED BY <1>12, <1>13, <1>14, <1>15 DEF Places

\* AddSession_ replaces a session: the old one leaves every place it was in.
LEMMA ReplacesPlaces ==
  ASSUME TypeOK, Places, AddSessionReplaces
  PROVE  Places'
<1> DEFINE k == Head(addSessQueue)
           a == AccountOf[k]
           old == m_sessions[a]
           removed == RemoveQueuedPlayer(old)
<1>1. addSessQueue # <<>>
  BY DEF AddSessionReplaces
<1>2. /\ k \in Sessions /\ a \in Accounts /\ status[k] = "adding"
      /\ k \notin Range(m_QueuedPlayer) /\ k \notin inQueue
      /\ IsInjective(addSessQueue')
      /\ \A j \in Range(addSessQueue') : status[j] = "adding" /\ j # k
  BY <1>1, NextAdded DEF AddSessionReplaces
<1>3. /\ m_sessions' = [m_sessions EXCEPT ![a] = k]
      /\ status' = [status EXCEPT ![old] = "deleted", ![k] = "live"]
      /\ \/ m_QueuedPlayer' = Append(removed.queue, k)
            /\ inQueue' = (inQueue \ removed.passed) \cup {k}
         \/ m_QueuedPlayer' = removed.queue
            /\ inQueue' = inQueue \ removed.passed
      /\ UNCHANGED <<phase, toUpdate, updating, stopping>>
  BY DEF AddSessionReplaces, loopVars
<1>4. addSessQueue' \in Seq(Sessions)
  BY <1>1, HeadTailProperties DEF TypeOK, AddSessionReplaces
<1>5. phase = "add" /\ old # NoSession
  BY DEF AddSessionReplaces
<1>6. old \in Sessions /\ status[old] = "live"
  BY <1>2, <1>5 DEF TypeOK, Listed, Places, NoDeletedSession
<1>7. /\ removed.queue \in Seq(Sessions) /\ IsInjective(removed.queue)
      /\ Range(removed.queue) = Range(m_QueuedPlayer) \ ({old} \cup removed.passed)
      /\ old \in Range(m_QueuedPlayer) => old \in removed.passed
  BY RemoveProperties DEF TypeOK, Places, NoDeletedSession
<1>8. a = AccountOf[k] /\ old = m_sessions[a]
  OBVIOUS
<1> DEFINE queue == removed.queue
           passed == removed.passed
<1>9. /\ queue \in Seq(Sessions) /\ IsInjective(queue)
      /\ Range(queue) = Range(m_QueuedPlayer) \ ({old} \cup passed)
      /\ \/ m_QueuedPlayer' = Append(queue, k) /\ inQueue' = (inQueue \ passed) \cup {k}
         \/ m_QueuedPlayer' = queue /\ inQueue' = inQueue \ passed
  BY <1>3, <1>7
<1> HIDE DEF k, a, old, removed, queue, passed
<1>10. \A j \in Sessions \ {k, old} : status'[j] = status[j]
  BY <1>3 DEF TypeOK
<1>11. k # old /\ status'[k] = "live" /\ status'[old] = "deleted"
  BY <1>2, <1>3, <1>6 DEF TypeOK
<1>12. m_sessions'[a] = k /\ \A b \in Accounts \ {a} : m_sessions'[b] = m_sessions[b]
  BY <1>2, <1>3 DEF TypeOK
<1>13. k \notin Range(queue)
  BY <1>2, <1>9
<1>14. /\ IsInjective(m_QueuedPlayer')
       /\ \/ Range(m_QueuedPlayer') = Range(queue) \cup {k}
             /\ inQueue' = (inQueue \ passed) \cup {k}
          \/ Range(m_QueuedPlayer') = Range(queue) /\ inQueue' = inQueue \ passed
  BY <1>2, <1>9, <1>13, QueueAppend
<1>15. /\ Range(addSessQueue') \subseteq Sessions
       /\ Range(m_QueuedPlayer) \subseteq Sessions
  BY <1>4, LenProperties DEF TypeOK, Range
<1>16. NoDeletedSession'
  <2>1. \A b \in Listed' : status'[m_sessions'[b]] = "live" /\ AccountOf[m_sessions'[b]] = b
    <3> SUFFICES ASSUME NEW b \in Listed'
                 PROVE  status'[m_sessions'[b]] = "live" /\ AccountOf[m_sessions'[b]] = b
      OBVIOUS
    <3>1. CASE b = a
      BY <1>8, <1>11, <1>12, <3>1
    <3>2. CASE b # a
      <4>1. b \in Listed /\ m_sessions'[b] = m_sessions[b]
        BY <1>12, <3>2 DEF Listed
      <4>2. AccountOf[m_sessions[b]] = b /\ status[m_sessions[b]] = "live"
            /\ AccountOf[old] = a
        BY <1>2, <1>5, <1>8, <4>1 DEF Places, NoDeletedSession, Listed
      <4>3. m_sessions[b] \in Sessions \ {k, old}
        BY <1>2, <3>2, <4>1, <4>2 DEF TypeOK, Listed
      <4> QED BY <1>10, <4>1, <4>2, <4>3
    <3> QED BY <3>1, <3>2
  <2>2. \A j \in Sessions : status'[j] = "live" => m_sessions'[AccountOf[j]] = j
    <3> SUFFICES ASSUME NEW j \in Sessions, status'[j] = "live"
                 PROVE  m_sessions'[AccountOf[j]] = j
      OBVIOUS
    <3>1. CASE j = k
      BY <1>8, <1>12, <3>1
    <3>2. CASE j # k
      <4>1. j # old
        BY <1>11
      <4>2. m_sessions[AccountOf[j]] = j /\ AccountOf[j] \in Accounts
        BY <1>10, <3>2, <4>1, SessionsAssumption DEF Places, NoDeletedSession
      <4>3. AccountOf[j] # a
        BY <1>8, <4>1, <4>2
      <4> QED BY <1>12, <4>2, <4>3
    <3> QED BY <3>1, <3>2
  <2>3. \A j \in Range(addSessQueue') : status'[j] = "adding"
    BY <1>2, <1>6, <1>10, <1>15
  <2>4. \A j \in Range(m_QueuedPlayer') : status'[j] = "live"
    <3>1. \A j \in Range(queue) : status'[j] = "live"
      BY <1>9, <1>10, <1>13, <1>15 DEF Places, NoDeletedSession
    <3> QED BY <1>11, <1>14, <3>1
  <2> QED BY <1>2, <1>14, <2>1, <2>2, <2>3, <2>4 DEF NoDeletedSession
<1>17. UpdatesListed'
  BY <1>3, <1>5 DEF Places, UpdatesListed
<1>18. FlagsAdded'
  BY <1>10, <1>11, <1>14 DEF TypeOK, Places, FlagsAdded
<1>19. WaitsIffQueued'
  <2> SUFFICES ASSUME stopping # "kicked", NEW j \in Sessions, status'[j] = "live"
               PROVE  j \in inQueue' <=> j \in Range(m_QueuedPlayer')
    BY <1>3 DEF WaitsIffQueued
  <2>1. CASE j = k
    BY <1>2, <1>13, <1>14, <2>1
  <2>2. CASE j # k
    <3>1. j # old /\ status[j] = "live"
      BY <1>10, <1>11, <2>2
    <3>2. j \in inQueue <=> j \in Range(m_QueuedPlayer)
      BY <3>1 DEF Places, WaitsIffQueued
    <3> QED BY <1>9, <1>14, <2>2, <3>1, <3>2
  <2> QED BY <2>1, <2>2
<1> QED BY <1>16, <1>17, <1>18, <1>19 DEF Places

\* UpdateSessions removes a closed session from every place it was in.
LEMMA ClosedPlaces ==
  ASSUME TypeOK, Places, FinishClosed
  PROVE  Places'
<1> DEFINE k == m_sessions[updating]
           removed == RemoveQueuedPlayer(k)
           queue == removed.queue
           passed == removed.passed
<1>1. /\ m_sessions' = [m_sessions EXCEPT ![updating] = NoSession]
      /\ status' = [status EXCEPT ![k] = "deleted"]
      /\ m_QueuedPlayer' = queue /\ inQueue' = inQueue \ passed
      /\ updating' = NoAccount /\ phase = "update" /\ updating # NoAccount
      /\ UNCHANGED <<addSessQueue, phase, toUpdate, stopping>>
  BY DEF FinishClosed
<1>2. updating \in Accounts /\ updating \in Listed /\ updating \notin toUpdate
  BY <1>1 DEF TypeOK, Places, UpdatesListed
<1>3. k \in Sessions /\ status[k] = "live" /\ AccountOf[k] = updating
  BY <1>2 DEF TypeOK, Listed, Places, NoDeletedSession
<1>4. /\ queue \in Seq(Sessions) /\ IsInjective(queue)
      /\ Range(queue) = Range(m_QueuedPlayer) \ ({k} \cup passed)
      /\ k \in Range(m_QueuedPlayer) => k \in passed
  BY RemoveProperties DEF TypeOK, Places, NoDeletedSession
<1>5. k = m_sessions[updating]
  OBVIOUS
<1> HIDE DEF k, removed, queue, passed
<1>6. \A j \in Sessions \ {k} : status'[j] = status[j]
  BY <1>1 DEF TypeOK
<1>7. status'[k] = "deleted"
  BY <1>1, <1>3 DEF TypeOK
<1>8. /\ m_sessions'[updating] = NoSession
      /\ \A b \in Accounts \ {updating} : m_sessions'[b] = m_sessions[b]
  BY <1>1, <1>2 DEF TypeOK
<1>9. /\ Range(addSessQueue) \subseteq Sessions
      /\ Range(m_QueuedPlayer) \subseteq Sessions
  BY LenProperties DEF TypeOK, Range
<1>10. NoDeletedSession'
  <2>1. \A b \in Listed' : status'[m_sessions'[b]] = "live" /\ AccountOf[m_sessions'[b]] = b
    <3> SUFFICES ASSUME NEW b \in Listed'
                 PROVE  status'[m_sessions'[b]] = "live" /\ AccountOf[m_sessions'[b]] = b
      OBVIOUS
    <3>1. b \in Listed /\ b # updating /\ m_sessions'[b] = m_sessions[b]
      BY <1>8 DEF Listed
    <3>2. m_sessions[b] \in Sessions /\ AccountOf[m_sessions[b]] = b
          /\ status[m_sessions[b]] = "live"
      BY <3>1 DEF TypeOK, Listed, Places, NoDeletedSession
    <3> QED BY <1>3, <1>6, <3>1, <3>2
  <2>2. \A j \in Sessions : status'[j] = "live" => m_sessions'[AccountOf[j]] = j
    <3> SUFFICES ASSUME NEW j \in Sessions, status'[j] = "live"
                 PROVE  m_sessions'[AccountOf[j]] = j
      OBVIOUS
    <3>1. j # k
      BY <1>7
    <3>2. m_sessions[AccountOf[j]] = j /\ AccountOf[j] \in Accounts
      BY <1>6, <3>1, SessionsAssumption DEF Places, NoDeletedSession
    <3>3. AccountOf[j] # updating
      BY <1>5, <3>1, <3>2
    <3> QED BY <1>8, <3>2, <3>3
  <2>3. \A j \in Range(addSessQueue) : status'[j] = "adding"
    BY <1>3, <1>6, <1>9 DEF Places, NoDeletedSession
  <2>4. \A j \in Range(queue) : status'[j] = "live"
    BY <1>4, <1>6, <1>9 DEF Places, NoDeletedSession
  <2> QED BY <1>1, <1>4, <2>1, <2>2, <2>3, <2>4 DEF Places, NoDeletedSession
<1>11. UpdatesListed'
  BY <1>1, <1>2, <1>8 DEF Places, UpdatesListed, Listed
<1>12. FlagsAdded'
  BY <1>1, <1>6, <1>7 DEF TypeOK, Places, FlagsAdded
<1>13. WaitsIffQueued'
  <2> SUFFICES ASSUME stopping # "kicked", NEW j \in Sessions, status'[j] = "live"
               PROVE  j \in inQueue' <=> j \in Range(m_QueuedPlayer')
    BY <1>1 DEF WaitsIffQueued
  <2>1. j # k /\ status[j] = "live"
    BY <1>6, <1>7
  <2>2. j \in inQueue <=> j \in Range(m_QueuedPlayer)
    BY <2>1 DEF Places, WaitsIffQueued
  <2> QED BY <1>1, <1>4, <2>1, <2>2
<1> QED BY <1>10, <1>11, <1>12, <1>13 DEF Places

\* A session that is authenticated is in addSessQueue and nowhere else.
LEMMA AuthPlaces ==
  ASSUME TypeOK, Places, NEW k \in Sessions, HandleAuthSession(k)
  PROVE  Places'
<1>1. /\ status[k] = "none"
      /\ status' = [status EXCEPT ![k] = "adding"]
      /\ addSessQueue' = Append(addSessQueue, k)
      /\ UNCHANGED <<m_sessions, m_QueuedPlayer, inQueue, phase, toUpdate, updating,
                     stopping>>
  BY DEF HandleAuthSession, queueVars, loopVars
<1>2. status'[k] = "adding" /\ \A j \in Sessions \ {k} : status'[j] = status[j]
  BY <1>1 DEF TypeOK
<1>3. k \notin Range(addSessQueue) /\ k \notin Range(m_QueuedPlayer) /\ k \notin inQueue
  BY <1>1 DEF Places, NoDeletedSession, FlagsAdded
<1>4. /\ IsInjective(addSessQueue')
      /\ Range(addSessQueue') = Range(addSessQueue) \cup {k}
  BY <1>1, <1>3, QueueAppend DEF TypeOK, Places, NoDeletedSession
<1>5. /\ Range(addSessQueue) \subseteq Sessions
      /\ Range(m_QueuedPlayer) \subseteq Sessions
  BY LenProperties DEF TypeOK, Range
<1>6. NoDeletedSession'
  <2>1. \A a \in Listed : m_sessions[a] \in Sessions \ {k}
    BY <1>1 DEF TypeOK, Listed, Places, NoDeletedSession
  <2>2. \A a \in Listed' : status'[m_sessions'[a]] = "live" /\ AccountOf[m_sessions'[a]] = a
    BY <1>1, <1>2, <2>1 DEF Listed, Places, NoDeletedSession
  <2>3. \A j \in Sessions : status'[j] = "live" => m_sessions'[AccountOf[j]] = j
    BY <1>1, <1>2 DEF Places, NoDeletedSession
  <2>4. \A j \in Range(addSessQueue') : status'[j] = "adding"
    BY <1>2, <1>4, <1>5 DEF Places, NoDeletedSession
  <2>5. \A j \in Range(m_QueuedPlayer') : status'[j] = "live"
    BY <1>1, <1>2, <1>3, <1>5 DEF Places, NoDeletedSession
  <2> QED BY <1>1, <1>4, <2>2, <2>3, <2>4, <2>5 DEF Places, NoDeletedSession
<1>7. UpdatesListed'
  BY <1>1 DEF Places, UpdatesListed, Listed
<1>8. FlagsAdded'
  BY <1>1, <1>2, <1>3 DEF TypeOK, Places, FlagsAdded
<1>9. WaitsIffQueued'
  BY <1>1, <1>2 DEF Places, WaitsIffQueued
<1> QED BY <1>6, <1>7, <1>8, <1>9 DEF Places

\* Every step keeps the sessions in their places.
LEMMA StepPlaces ==
  ASSUME TypeOK, Places, Next
  PROVE  Places'
<1> USE DEF sessionVars, queueVars, loopVars, packetFrame
<1>0. UpdatesListed
  BY DEF Places
<1>1. ASSUME NEW k \in Sessions,
             \/ CloseSocket(k)
             \/ HandleLogoutRequestOpcode(k) \/ HandleLogoutCancelOpcode(k)
             \/ \E c \in Chars : HandlePlayerLoginOpcode(k, c)
                                 \/ HandleCharDeleteOpcode(k, c)
      PROVE  Places'
  <2>1. UNCHANGED <<status, addSessQueue, m_sessions, queueVars, loopVars>>
    BY <1>1 DEF CloseSocket, HandleLogoutRequestOpcode, HandleLogoutCancelOpcode,
                HandlePlayerLoginOpcode, HandleCharDeleteOpcode
  <2> QED BY <1>0, <2>1, PlacesFrame DEF UpdatesListed, Listed
<1>2. ASSUME \/ \E p \in world : Play(p) \/ AutoSave(p)
             \/ \E a \in Accounts : KickPlayer(a)
             \/ HandlePlayerLoginCallback
             \/ DelayThread
      PROVE  Places'
  <2>1. UNCHANGED <<status, addSessQueue, m_sessions, queueVars, loopVars>>
    BY <1>2 DEF Play, AutoSave, KickPlayer, HandlePlayerLoginCallback, DelayThread
  <2> QED BY <1>0, <2>1, PlacesFrame DEF UpdatesListed, Listed
<1>3. ASSUME NEW limit \in Limits, HandleServerPLimitCommand(limit) PROVE Places'
  <2>1. UNCHANGED <<status, addSessQueue, m_sessions, m_QueuedPlayer, inQueue, loopVars>>
    BY <1>3 DEF HandleServerPLimitCommand
  <2> QED BY <1>0, <2>1, PlacesFrame DEF UpdatesListed, Listed
<1>4. ASSUME StopNow \/ EndMaps \/ EndResults \/ EndCommands PROVE Places'
  <2>1. /\ UNCHANGED <<status, addSessQueue, m_sessions, queueVars, toUpdate, updating>>
        /\ stopping' # stopping => stopping = "no"
        /\ phase # "update" /\ phase' # "update"
    BY <1>4 DEF StopNow, EndMaps, EndResults, EndCommands
  <2> QED BY <1>0, <2>1, PlacesFrame DEF UpdatesListed, Listed
<1>5. ASSUME BeginUpdates PROVE Places'
  <2>1. /\ UNCHANGED <<status, addSessQueue, m_sessions, queueVars, updating, stopping>>
        /\ phase = "add" /\ phase' = "update" /\ toUpdate' = Listed
    BY <1>5 DEF BeginUpdates
  <2> QED BY <1>0, <2>1, PlacesFrame DEF UpdatesListed, Listed
<1>6. ASSUME NEW a \in Accounts, NextSession(a) PROVE Places'
  <2>1. /\ UNCHANGED <<status, addSessQueue, m_sessions, queueVars, phase, stopping>>
        /\ phase = "update" /\ updating' = a /\ toUpdate' = toUpdate \ {a}
        /\ a \in toUpdate
    BY <1>6 DEF NextSession
  <2> QED BY <1>0, <2>1, PlacesFrame DEF UpdatesListed, Listed
<1>7. ASSUME EndUpdates PROVE Places'
  <2>1. /\ UNCHANGED <<status, addSessQueue, m_sessions, queueVars, toUpdate, updating,
                       stopping>>
        /\ updating = NoAccount /\ toUpdate = {}
    BY <1>7 DEF EndUpdates
  <2> QED BY <1>0, <2>1, PlacesFrame DEF UpdatesListed, Listed
<1>8. ASSUME FinishOpen PROVE Places'
  <2>1. /\ UNCHANGED <<status, addSessQueue, m_sessions, queueVars, phase, toUpdate,
                       stopping>>
        /\ phase = "update" /\ updating' = NoAccount
    BY <1>8 DEF FinishOpen
  <2> QED BY <1>0, <2>1, PlacesFrame DEF UpdatesListed, Listed
<1>9. ASSUME KickAll PROVE Places'
  <2>1. /\ m_QueuedPlayer' = <<>> /\ stopping' = "kicked"
        /\ phase = "cli" /\ phase' = "add"
        /\ UNCHANGED <<status, addSessQueue, m_sessions, inQueue, toUpdate, updating>>
    BY <1>9 DEF KickAll
  <2>2. Range(m_QueuedPlayer') = {} /\ IsInjective(m_QueuedPlayer')
    BY <2>1 DEF Range, IsInjective
  <2> QED
    BY <1>0, <2>1, <2>2
    DEF Places, NoDeletedSession, UpdatesListed, FlagsAdded, WaitsIffQueued, Listed
<1> QED
  BY <1>1, <1>2, <1>3, <1>4, <1>5, <1>6, <1>7, <1>8, <1>9, AuthPlaces, RefusedPlaces,
     NewPlaces, ReplacesPlaces, ClosedPlaces
  DEF Next, Input, WorldThread

-----------------------------------------------------------------------------
(* The players.                                                            *)

\* A logout takes the player of its session and of no other.
LEMMA LogoutPlayers ==
  ASSUME TypeOK, PlayersInWorld, NEW k, LogoutPlayer(k)
  PROVE  PlayersInWorld'
<1> SUFFICES ASSUME NEW j \in Sessions, player'[j] # NoChar
             PROVE  Controlled(j)' # {}
  BY DEF PlayersInWorld
<1>1. j # k /\ player'[j] = player[j]
  BY DEF LogoutPlayer, TypeOK
<1>2. PICK p \in world : p.session = j /\ p.char = player[j]
  BY <1>1 DEF PlayersInWorld, Controlled
<1>3. p \in world'
  BY <1>1, <1>2 DEF LogoutPlayer, Controlled
<1> QED BY <1>1, <1>2, <1>3 DEF Controlled

\* Every step leaves each session with a player in control of one.
LEMMA StepPlayers ==
  ASSUME TypeOK, PlayersInWorld, Next
  PROVE  PlayersInWorld'
<1> USE DEF playerVars
<1>1. ASSUME UNCHANGED <<player, world>> PROVE PlayersInWorld'
  BY <1>1 DEF PlayersInWorld, Controlled
<1>2. ASSUME \E k : LogoutPlayer(k) PROVE PlayersInWorld'
  BY <1>2, LogoutPlayers
<1>3. ASSUME NEW p \in world, Play(p) PROVE PlayersInWorld'
  <2> DEFINE q == [p EXCEPT !.ver = @ + 1]
  <2>1. q.session = p.session /\ q.char = p.char
    BY DEF TypeOK, Player
  <2>2. world' = (world \ {p}) \cup {q} /\ player' = player
    BY <1>3 DEF Play
  <2> HIDE DEF q
  <2> QED BY <2>1, <2>2 DEF PlayersInWorld, Controlled
<1>4. ASSUME HandlePlayerLoginCallback PROVE PlayersInWorld'
  <2> DEFINE holder == Head(resultQueue)
             k == m_sessions[AccountOf[holder.session]]
             c == holder.char
             new == [char |-> c, session |-> k, ver |-> holder.row.ver]
  <2>1. \/ UNCHANGED <<player, world>>
        \/ /\ world' = world \cup {new}
           /\ player' = [player EXCEPT ![k] = c]
    BY <1>4 DEF HandlePlayerLoginCallback
  <2>2. new.session = k /\ new.char = c
    OBVIOUS
  <2> HIDE DEF holder, k, c, new
  <2>3. CASE /\ world' = world \cup {new}
             /\ player' = [player EXCEPT ![k] = c]
    <3> SUFFICES ASSUME NEW j \in Sessions, player'[j] # NoChar
                 PROVE  Controlled(j)' # {}
      BY DEF PlayersInWorld
    <3>1. CASE j = k
      BY <2>2, <2>3, <3>1 DEF TypeOK, Controlled
    <3>2. CASE j # k
      BY <2>3, <3>2 DEF TypeOK, PlayersInWorld, Controlled
    <3> QED BY <3>1, <3>2
  <2> QED BY <1>1, <2>1, <2>3
<1>5. ASSUME Input PROVE PlayersInWorld'
  <2>1. \/ UNCHANGED <<player, world>>
        \/ \E k : LogoutPlayer(k)
        \/ \E p \in world : Play(p)
    BY <1>5 DEF Input, HandleAuthSession, CloseSocket, HandlePlayerLoginOpcode,
      HandleCharDeleteOpcode, HandleLogoutRequestOpcode, HandleLogoutCancelOpcode,
      AutoSave, KickPlayer, HandleServerPLimitCommand, StopNow
  <2> QED BY <1>1, <1>2, <1>3, <2>1
<1>6. ASSUME WorldThread PROVE PlayersInWorld'
  <2>1. \/ UNCHANGED <<player, world>>
        \/ \E k : LogoutPlayer(k)
        \/ HandlePlayerLoginCallback
    BY <1>6 DEF WorldThread, AddSessionRefused, AddSessionNew, AddSessionReplaces,
      BeginUpdates, NextSession, FinishOpen, FinishClosed, EndUpdates, EndMaps,
      EndResults, EndCommands, KickAll
  <2> QED BY <1>1, <1>2, <1>4, <2>1
<1>7. ASSUME DelayThread PROVE PlayersInWorld'
  BY <1>1, <1>7 DEF DelayThread
<1> QED BY <1>5, <1>6, <1>7 DEF Next

-----------------------------------------------------------------------------
(* The theorems.                                                           *)

\* The inductive invariant holds initially, ...
LEMMA InitIInv == Init => IInv
<1> SUFFICES ASSUME Init PROVE IInv
  OBVIOUS
<1>1. TypeOK
  BY InitTypes
<1>2. Range(<<>>) = {} /\ IsInjective(<<>>)
  BY DEF Range, IsInjective
<1>3. NoDeletedSession /\ FlagsAdded /\ WaitsIffQueued /\ UpdatesListed
  BY <1>2 DEF Init, NoDeletedSession, FlagsAdded, WaitsIffQueued, UpdatesListed, Listed
<1>4. PlayersInWorld
  BY DEF Init, PlayersInWorld
<1> QED BY <1>1, <1>3, <1>4 DEF IInv

\* ... every step keeps it, ...
LEMMA StepIInv == IInv /\ [Next]_vars => IInv'
<1> SUFFICES ASSUME IInv, [Next]_vars PROVE IInv'
  OBVIOUS
<1>1. CASE Next
  <2>1. TypeOK'
    BY <1>1, ClientTypes, WorldThreadTypes, DelayThreadTypes DEF Next
  <2>2. Places'
    BY <1>1, StepPlaces DEF IInv, Places
  <2>3. PlayersInWorld'
    BY <1>1, StepPlayers DEF IInv
  <2> QED BY <2>1, <2>2, <2>3 DEF IInv, Places
<1>2. CASE UNCHANGED vars
  BY <1>2 DEF vars, IInv, TypeOK, PlayersInWorld, Controlled, NoDeletedSession,
              UpdatesListed, FlagsAdded, WaitsIffQueued, Listed
<1> QED BY <1>1, <1>2

\* ... and so it always holds.
THEOREM Invariance == Spec => []IInv
BY InitIInv, StepIInv, PTL DEF Spec

\* Every variable keeps its type (TypeOK): in particular a logout always finds
\* the Player object it saves, and Update always finds the session it updates.
THEOREM TypeCorrect == Spec => []TypeOK
<1>1. IInv => TypeOK
  BY DEF IInv
<1> QED BY <1>1, Invariance, PTL

\* No deleted session is used (NoDeletedSession): the list, the wait queue and
\* addSessQueue of World name sessions that exist, each once and where it
\* belongs, whatever the clients, the limit and the delay thread do.
THEOREM DeletedNeverUsed == Spec => []NoDeletedSession
<1>1. IInv => NoDeletedSession
  BY DEF IInv
<1> QED BY <1>1, Invariance, PTL

\* Until KickAll, m_inQueue of a session says whether it is in the wait queue
\* (WaitsIffQueued): nobody who was let in stays refused, nobody who waits plays.
THEOREM FlagsTellQueue == Spec => []WaitsIffQueued
<1>1. IInv => WaitsIffQueued
  BY DEF IInv
<1> QED BY <1>1, Invariance, PTL

-----------------------------------------------------------------------------
(* The order of the wait queue.                                            *)

\* A session stands in a queue at one position.
LEMMA PositionOf ==
  ASSUME NEW queue \in Seq(Sessions), IsInjective(queue), NEW i \in 1..Len(queue)
  PROVE  Position(queue, queue[i]) = i
<1>1. DOMAIN queue = 1..Len(queue)
  BY LenProperties
<1>2. \A j \in DOMAIN queue : queue[j] = queue[i] => j = i
  BY <1>1 DEF IsInjective
<1> QED BY <1>1, <1>2 DEF Position

\* Those ahead of a session are at the positions before its own.
LEMMA AheadAt ==
  ASSUME NEW queue \in Seq(Sessions), IsInjective(queue), NEW i \in 1..Len(queue),
         NEW x
  PROVE  x \in Ahead(queue, queue[i]) <=> \E j \in 1..Len(queue) : j < i /\ queue[j] = x
<1>1. Ahead(queue, queue[i]) = {queue[j] : j \in 1..(i - 1)}
  BY PositionOf DEF Ahead
<1>2. Len(queue) \in Nat
  BY LenProperties
<1> QED BY <1>1, <1>2

\* Erase leaves the others in their order.
LEMMA EraseKeepsOrder ==
  ASSUME NEW queue \in Seq(Sessions), IsInjective(queue), NEW k,
         NEW j \in Range(queue) \ {k}
  PROVE  Ahead(Erase(queue, k), j) = Ahead(queue, j) \ {k}
<1>1. Len(queue) \in Nat /\ DOMAIN queue = 1..Len(queue)
  BY LenProperties
<1>2. CASE k \notin Range(queue)
  <2>1. PICK i \in 1..Len(queue) : queue[i] = j
    BY <1>1 DEF Range
  <2>2. k \notin Ahead(queue, j)
    BY <1>1, <1>2, <2>1, AheadAt DEF Range
  <2> QED BY <1>2, <2>2 DEF Erase
<1>3. CASE k \in Range(queue)
  <2> DEFINE p == Position(queue, k)
             rest == Erase(queue, k)
  <2>1. p \in 1..Len(queue) /\ queue[p] = k
    BY <1>1, <1>3 DEF Position, Range
  <2>2. rest = [i \in 1..(Len(queue) - 1) |-> IF i < p THEN queue[i] ELSE queue[i + 1]]
    BY <1>3 DEF Erase
  <2>3. /\ rest \in Seq(Sessions) /\ IsInjective(rest)
        /\ Range(rest) = Range(queue) \ {k}
    BY EraseProperties
  <2> HIDE DEF p, rest
  <2>4. /\ Len(rest) = Len(queue) - 1
        /\ DOMAIN rest = 1..(Len(queue) - 1)
    BY <1>1, <2>1, <2>2, <2>3, LenProperties
  <2>5. PICK r \in 1..(Len(queue) - 1) : rest[r] = j
    BY <2>3, <2>4 DEF Range
  <2>a. \A x : x \in Ahead(rest, j) <=>
                \E m \in 1..(Len(queue) - 1) : m < r /\ rest[m] = x
    <3>1. r \in 1..Len(rest) /\ 1..Len(rest) = 1..(Len(queue) - 1)
      BY <2>4, <2>5
    <3>2. \A x : x \in Ahead(rest, rest[r]) <=>
                 \E m \in 1..Len(rest) : m < r /\ rest[m] = x
      BY <2>3, <3>1, AheadAt
    <3> QED BY <2>5, <3>1, <3>2
  <2> DEFINE at == IF r < p THEN r ELSE r + 1
  <2>6. at \in 1..Len(queue) /\ queue[at] = j
    BY <1>1, <2>1, <2>2, <2>5
  <2>7. at # p /\ (r < p <=> at < p)
    BY <1>1, <2>1, <2>5
  <2>8. ASSUME NEW x \in Ahead(rest, j) PROVE x \in Ahead(queue, j) \ {k}
    <3>1. PICK m \in 1..(Len(queue) - 1) : m < r /\ rest[m] = x
      BY <2>a
    <3> DEFINE from == IF m < p THEN m ELSE m + 1
    <3>2. from \in 1..Len(queue) /\ from < at /\ queue[from] = x /\ from # p
      BY <1>1, <2>1, <2>2, <2>5, <3>1
    <3>3. x # k
      BY <1>1, <2>1, <3>2 DEF IsInjective
    <3> HIDE DEF from, at
    <3> QED BY <2>6, <3>2, <3>3, AheadAt
  <2>9. ASSUME NEW x \in Ahead(queue, j) \ {k} PROVE x \in Ahead(rest, j)
    <3>1. PICK m \in 1..Len(queue) : m < at /\ queue[m] = x
      <4> HIDE DEF at
      <4> QED BY <2>6, AheadAt
    <3>2. m # p
      BY <2>1, <3>1
    <3> DEFINE to == IF m < p THEN m ELSE m - 1
    <3>3. to \in 1..(Len(queue) - 1) /\ to < r
      BY <1>1, <2>1, <2>5, <3>1, <3>2
    <3>4. rest[to] = x
      BY <1>1, <2>1, <2>2, <3>1, <3>2, <3>3
    <3> HIDE DEF to
    <3> QED BY <2>a, <3>3, <3>4
  <2>10. Ahead(rest, j) = Ahead(queue, j) \ {k}
    BY <2>8, <2>9
  <2> QED BY <2>10 DEF rest
<1> QED BY <1>2, <1>3

\* Nobody is ahead of the first.
LEMMA FirstInQueue ==
  ASSUME NEW queue \in Seq(Sessions), IsInjective(queue), queue # <<>>
  PROVE  queue[1] \in Range(queue) /\ Ahead(queue, queue[1]) = {}
<1>1. Len(queue) \in Nat \ {0} /\ DOMAIN queue = 1..Len(queue)
  BY LenProperties, EmptySeq
<1>2. Position(queue, queue[1]) = 1
  BY <1>1, PositionOf
<1> QED BY <1>1, <1>2 DEF Range, Ahead

\* Appending leaves those ahead of the others.
LEMMA AppendKeepsOrder ==
  ASSUME NEW queue \in Seq(Sessions), IsInjective(queue), NEW k \in Sessions,
         k \notin Range(queue), NEW j \in Range(queue)
  PROVE  Ahead(Append(queue, k), j) = Ahead(queue, j)
<1> DEFINE longer == Append(queue, k)
<1>1. Len(queue) \in Nat /\ DOMAIN queue = 1..Len(queue)
  BY LenProperties
<1>2. /\ longer \in Seq(Sessions) /\ Len(longer) = Len(queue) + 1
      /\ \A i \in 1..Len(queue) : longer[i] = queue[i]
  BY AppendProperties
<1>3. IsInjective(longer)
  BY QueueAppend
<1>4. PICK i \in 1..Len(queue) : queue[i] = j
  BY <1>1 DEF Range
<1> HIDE DEF longer
<1>5. i \in 1..Len(longer) /\ longer[i] = j
  BY <1>1, <1>2, <1>4
<1>6. Position(queue, j) = i /\ Position(longer, j) = i
  BY <1>2, <1>3, <1>4, <1>5, PositionOf
<1>7. \A m \in 1..(i - 1) : longer[m] = queue[m]
  BY <1>1, <1>2, <1>4
<1> QED BY <1>6, <1>7 DEF Ahead, longer

\* RemoveQueuedPlayer keeps the order, and lets in only the first of the rest.
LEMMA RemoveKeepsOrder ==
  ASSUME m_QueuedPlayer \in Seq(Sessions), IsInjective(m_QueuedPlayer), NEW k,
         NEW j \in Range(m_QueuedPlayer) \ {k}
  PROVE  LET queue == RemoveQueuedPlayer(k).queue
         IN IF j \in Range(queue)
              THEN Ahead(queue, j) \subseteq Ahead(m_QueuedPlayer, j)
              ELSE Ahead(m_QueuedPlayer, j) \cap Range(queue) = {}
<1> DEFINE rest == Erase(m_QueuedPlayer, k)
           queue == RemoveQueuedPlayer(k).queue
<1>1. /\ rest \in Seq(Sessions) /\ IsInjective(rest)
      /\ Range(rest) = Range(m_QueuedPlayer) \ {k}
      /\ Ahead(rest, j) = Ahead(m_QueuedPlayer, j) \ {k}
  BY EraseProperties, EraseKeepsOrder
<1>2. queue = rest \/ (rest # <<>> /\ queue = Erase(rest, rest[1]))
  BY DEF RemoveQueuedPlayer, NextIn
<1> HIDE DEF rest, queue
<1>3. CASE queue = rest
  BY <1>1, <1>3 DEF queue
<1>4. CASE rest # <<>> /\ queue = Erase(rest, rest[1])
  <2>1. Range(queue) = Range(rest) \ {rest[1]}
    BY <1>1, <1>4, EraseProperties
  <2>2. CASE j = rest[1]
    <3>1. Ahead(rest, j) = {}
      BY <1>1, <1>4, <2>2, FirstInQueue
    <3> QED BY <1>1, <2>1, <2>2, <3>1 DEF queue
  <2>3. CASE j # rest[1]
    <3>1. j \in Range(rest) \ {rest[1]}
      BY <1>1, <2>3
    <3>2. Ahead(queue, j) = Ahead(rest, j) \ {rest[1]}
      BY <1>1, <1>4, <3>1, EraseKeepsOrder
    <3> QED BY <1>1, <2>1, <3>1, <3>2 DEF queue
  <2> QED BY <2>2, <2>3
<1> QED BY <1>2, <1>3, <1>4

\* The steps that move the wait queue: a session joins it at its end, or
\* RemoveQueuedPlayer is called for a session that the step deletes.
LEMMA StepOrder ==
  ASSUME TypeOK, Places, [Next]_vars
  PROVE  \A k \in Range(m_QueuedPlayer) :
           IF k \in Range(m_QueuedPlayer')
             THEN Ahead(m_QueuedPlayer', k) \subseteq Ahead(m_QueuedPlayer, k)
             ELSE status'[k] = "live" =>
                    Ahead(m_QueuedPlayer, k) \cap Range(m_QueuedPlayer') = {}
<1> DEFINE Kept(j) ==
             IF j \in Range(m_QueuedPlayer')
               THEN Ahead(m_QueuedPlayer', j) \subseteq Ahead(m_QueuedPlayer, j)
               ELSE status'[j] = "live" =>
                      Ahead(m_QueuedPlayer, j) \cap Range(m_QueuedPlayer') = {}
<1> SUFFICES ASSUME NEW j \in Range(m_QueuedPlayer) PROVE Kept(j)
  OBVIOUS
<1>0. m_QueuedPlayer \in Seq(Sessions) /\ IsInjective(m_QueuedPlayer)
  BY DEF TypeOK, Places, NoDeletedSession
<1>1. CASE UNCHANGED m_QueuedPlayer
  BY <1>1
<1>2. CASE AddSessionNew
  <2> DEFINE k == Head(addSessQueue)
  <2>1. k \in Sessions /\ k \notin Range(m_QueuedPlayer)
    BY <1>2, NextAdded DEF AddSessionNew
  <2>2. m_QueuedPlayer' = Append(m_QueuedPlayer, k) \/ UNCHANGED m_QueuedPlayer
    BY <1>2 DEF AddSessionNew
  <2> HIDE DEF k
  <2>3. j \in Range(Append(m_QueuedPlayer, k))
        /\ Ahead(Append(m_QueuedPlayer, k), j) = Ahead(m_QueuedPlayer, j)
    BY <1>0, <2>1, QueueAppend, AppendKeepsOrder
  <2> QED BY <1>1, <2>2, <2>3
<1>3. CASE AddSessionReplaces
  <2> DEFINE k == Head(addSessQueue)
             old == m_sessions[AccountOf[k]]
             queue == RemoveQueuedPlayer(old).queue
  <2>1. /\ k \in Sessions /\ k \notin Range(m_QueuedPlayer)
        /\ AccountOf[k] \in Accounts /\ status[k] = "adding"
    BY <1>3, NextAdded DEF AddSessionReplaces
  <2>2. /\ m_QueuedPlayer' = Append(queue, k) \/ m_QueuedPlayer' = queue
        /\ status' = [status EXCEPT ![old] = "deleted", ![k] = "live"]
        /\ old # NoSession
    BY <1>3 DEF AddSessionReplaces
  <2>3. old \in Sessions /\ status[old] = "live"
    BY <2>1, <2>2 DEF TypeOK, Places, NoDeletedSession, Listed
  <2>4. /\ queue \in Seq(Sessions) /\ IsInjective(queue)
        /\ Range(queue) \subseteq Range(m_QueuedPlayer) \ {old}
    BY <1>0, RemoveProperties
  <2>5. j # old =>
          IF j \in Range(queue)
            THEN Ahead(queue, j) \subseteq Ahead(m_QueuedPlayer, j)
            ELSE Ahead(m_QueuedPlayer, j) \cap Range(queue) = {}
    BY <1>0, RemoveKeepsOrder
  <2> HIDE DEF k, old, queue
  <2>6. old # k /\ status'[old] = "deleted"
    BY <2>1, <2>2, <2>3 DEF TypeOK
  <2>7. k \notin Range(queue) /\ old \notin Range(queue)
    BY <2>1, <2>4
  <2>8. CASE m_QueuedPlayer' = queue
    BY <2>5, <2>6, <2>7, <2>8
  <2>9. CASE m_QueuedPlayer' = Append(queue, k)
    <3>1. Range(m_QueuedPlayer') = Range(queue) \cup {k}
      BY <2>1, <2>4, <2>7, <2>9, QueueAppend
    <3>2. j \in Range(queue) => Ahead(m_QueuedPlayer', j) = Ahead(queue, j)
      BY <2>1, <2>4, <2>7, <2>9, AppendKeepsOrder
    <3>3. k \notin Ahead(m_QueuedPlayer, j)
      <4>1. PICK i \in 1..Len(m_QueuedPlayer) : m_QueuedPlayer[i] = j
        BY <1>0, LenProperties DEF Range
      <4>2. DOMAIN m_QueuedPlayer = 1..Len(m_QueuedPlayer)
        BY <1>0, LenProperties
      <4> QED BY <1>0, <2>1, <4>1, <4>2, AheadAt DEF Range
    <3> QED BY <2>1, <2>5, <2>6, <2>7, <3>1, <3>2, <3>3
  <2> QED BY <2>2, <2>8, <2>9
<1>4. CASE FinishClosed
  <2> DEFINE k == m_sessions[updating]
             queue == RemoveQueuedPlayer(k).queue
  <2>1. /\ m_QueuedPlayer' = queue
        /\ status' = [status EXCEPT ![k] = "deleted"]
        /\ updating # NoAccount
    BY <1>4 DEF FinishClosed
  <2>2. k \in Sessions
    BY <2>1 DEF TypeOK, Places, UpdatesListed, Listed
  <2>3. status'[k] = "deleted"
    BY <2>1, <2>2 DEF TypeOK
  <2>4. Range(queue) \subseteq Range(m_QueuedPlayer) \ {k}
    BY <1>0, RemoveProperties
  <2>5. j # k =>
          IF j \in Range(queue)
            THEN Ahead(queue, j) \subseteq Ahead(m_QueuedPlayer, j)
            ELSE Ahead(m_QueuedPlayer, j) \cap Range(queue) = {}
    BY <1>0, RemoveKeepsOrder
  <2> HIDE DEF k, queue
  <2> QED BY <2>1, <2>3, <2>4, <2>5
<1>5. CASE KickAll
  <2>1. Range(m_QueuedPlayer') = {}
    BY <1>5 DEF KickAll, Range
  <2> QED BY <2>1
<1>6. CASE Input \/ DelayThread \/ UNCHANGED vars
  <2>1. UNCHANGED m_QueuedPlayer
    BY <1>6 DEF Input, HandleAuthSession, CloseSocket, HandlePlayerLoginOpcode,
      HandleCharDeleteOpcode, HandleLogoutRequestOpcode, HandleLogoutCancelOpcode,
      Play, AutoSave, KickPlayer, HandleServerPLimitCommand, StopNow, DelayThread,
      queueVars, packetFrame, vars
  <2> QED BY <1>1, <2>1
<1>7. CASE \/ AddSessionRefused \/ BeginUpdates \/ (\E a \in Accounts : NextSession(a))
           \/ FinishOpen \/ EndUpdates \/ EndMaps \/ HandlePlayerLoginCallback
           \/ EndResults \/ EndCommands
  <2>1. UNCHANGED m_QueuedPlayer
    BY <1>7 DEF AddSessionRefused, BeginUpdates, NextSession, FinishOpen, EndUpdates,
      EndMaps, HandlePlayerLoginCallback, EndResults, EndCommands, queueVars
  <2> QED BY <1>1, <2>1
<1> HIDE DEF Kept
<1> QED BY <1>2, <1>3, <1>4, <1>5, <1>6, <1>7 DEF Next, WorldThread

\* The wait queue is first come, first served (QueueKeepsOrder): nobody gets
\* ahead of a session that waits, and one that is let in by
\* RemoveQueuedPlayer was the first of those left, whatever the limit is.
THEOREM FirstComeFirstServed == Spec => QueueKeepsOrder
<1> DEFINE Kept == \A k \in Range(m_QueuedPlayer) :
       IF k \in Range(m_QueuedPlayer')
         THEN Ahead(m_QueuedPlayer', k) \subseteq Ahead(m_QueuedPlayer, k)
         ELSE status'[k] = "live" =>
                Ahead(m_QueuedPlayer, k) \cap Range(m_QueuedPlayer') = {}
<1>1. IInv /\ [Next]_vars => [Kept]_vars
  BY StepOrder DEF IInv, Places
<1>2. Spec => [][Kept]_vars
  <2> HIDE DEF Kept
  <2> QED BY <1>1, Invariance, PTL DEF Spec
<1> QED BY <1>2 DEF QueueKeepsOrder

-----------------------------------------------------------------------------
(* The places within the limit.                                            *)

\* The accounts whose session does not wait.
ActiveAccounts(sessions, queue) ==
  {a \in Accounts : sessions[a] # NoSession /\ sessions[a] \notin Range(queue)}

\* There are finitely many sessions, whatever Accounts is.
FiniteList == IsFiniteSet(Listed)

\* GetActiveSessionCount, a difference of two sizes, is the number of accounts
\* whose session does not wait.
LEMMA ActiveCount ==
  ASSUME NEW sessions \in [Accounts -> Sessions \cup {NoSession}],
         NEW queue \in Seq(Sessions), IsInjective(queue),
         IsFiniteSet({a \in Accounts : sessions[a] # NoSession}),
         \A a \in Accounts : sessions[a] # NoSession => AccountOf[sessions[a]] = a,
         \A k \in Range(queue) : sessions[AccountOf[k]] = k
  PROVE  /\ IsFiniteSet(ActiveAccounts(sessions, queue))
         /\ GetActiveSessionCount(sessions, queue)
              = Cardinality(ActiveAccounts(sessions, queue))
<1> DEFINE L == {a \in Accounts : sessions[a] # NoSession}
           W == {AccountOf[k] : k \in Range(queue)}
           account == [i \in 1..Len(queue) |-> AccountOf[queue[i]]]
<1>1. Len(queue) \in Nat /\ DOMAIN queue = 1..Len(queue)
  BY LenProperties
<1>2. \A i \in 1..Len(queue) : queue[i] \in Sessions /\ queue[i] \in Range(queue)
  BY <1>1, ElementOfSeq DEF Range
<1>3. Range(queue) \subseteq Sessions
  BY <1>1, <1>2 DEF Range
<1>4. W \subseteq L
  BY <1>3, SessionsAssumption
<1>5. Cardinality(W) = Len(queue)
  <2>1. account \in [1..Len(queue) -> W]
    BY <1>2
  <2>2. \A i, j \in 1..Len(queue) : account[i] = account[j] => i = j
    BY <1>1, <1>2 DEF IsInjective
  <2>3. \A a \in W : \E i \in 1..Len(queue) : account[i] = a
    BY <1>1 DEF Range
  <2> HIDE DEF account, W
  <2>4. account \in Bijection(1..Len(queue), W)
    BY <2>1, <2>2, <2>3 DEF Bijection, Injection, Surjection, IsInjective
  <2>5. ExistsBijection(1..Len(queue), W)
    BY <2>4 DEF ExistsBijection
  <2> QED BY <1>1, <2>5, FS_CountingElements
<1>6. ActiveAccounts(sessions, queue) = L \ W
  <2>1. \A a \in L : sessions[a] \in Range(queue) <=> a \in W
    BY <1>3
  <2> QED BY <2>1 DEF ActiveAccounts
<1>7. L \cap W = W
  BY <1>4
<1>8. /\ IsFiniteSet(L \ W)
      /\ Cardinality(L \ W) = Cardinality(L) - Cardinality(W)
  <2> HIDE DEF L, W
  <2>1. IsFiniteSet(L)
    BY DEF L
  <2> QED BY <1>7, <2>1, FS_Difference
<1> QED
  BY <1>5, <1>6, <1>8 DEF GetActiveSessionCount, GetActiveAndQueuedSessionCount

\* The active accounts of a state, and those counted for a session that is
\* being removed.
LEMMA ActiveNow ==
  ASSUME TypeOK, NoDeletedSession, FiniteList
  PROVE  LET active == ActiveAccounts(m_sessions, m_QueuedPlayer)
         IN /\ IsFiniteSet(active) /\ active \subseteq Listed
            /\ GetActiveSessionCount(m_sessions, m_QueuedPlayer) = Cardinality(active)
            /\ \A a \in Listed : OthersActive(m_sessions[a]) = Cardinality(active \ {a})
<1> DEFINE active == ActiveAccounts(m_sessions, m_QueuedPlayer)
           count == GetActiveSessionCount(m_sessions, m_QueuedPlayer)
<1>1. \A a \in Accounts : m_sessions[a] # NoSession => AccountOf[m_sessions[a]] = a
  BY DEF NoDeletedSession, Listed
<1>2. Range(m_QueuedPlayer) \subseteq Sessions
  BY LenProperties DEF TypeOK, Range
<1>3. \A k \in Range(m_QueuedPlayer) : m_sessions[AccountOf[k]] = k
  BY <1>2 DEF NoDeletedSession
<1>4. IsFiniteSet(active) /\ count = Cardinality(active)
  <2>1. /\ m_sessions \in [Accounts -> Sessions \cup {NoSession}]
        /\ m_QueuedPlayer \in Seq(Sessions) /\ IsInjective(m_QueuedPlayer)
    BY DEF TypeOK, NoDeletedSession
  <2>2. IsFiniteSet({a \in Accounts : m_sessions[a] # NoSession})
    BY DEF FiniteList, Listed
  <2> QED BY ONLY <1>1, <1>3, <2>1, <2>2, ActiveCount
<1>5. active \subseteq Listed
  BY DEF ActiveAccounts, Listed
<1>6. ASSUME NEW a \in Listed
      PROVE  OthersActive(m_sessions[a]) = Cardinality(active \ {a})
  <2>1. a \in active <=> m_sessions[a] \notin Range(m_QueuedPlayer)
    BY DEF ActiveAccounts, Listed
  <2>2. Cardinality(active \ {a})
          = IF a \in active THEN Cardinality(active) - 1 ELSE Cardinality(active)
    <3> HIDE DEF active
    <3> QED BY <1>4, FS_RemoveElement
  <2>3. a \in active => count # 0
    <3> HIDE DEF active, count
    <3> QED BY <1>4, FS_EmptySet
  <2>4. OthersActive(m_sessions[a])
          = IF m_sessions[a] \notin Range(m_QueuedPlayer) /\ count # 0
              THEN count - 1 ELSE count
    BY DEF OthersActive
  <2> HIDE DEF active, count
  <2> QED BY <1>4, <2>1, <2>2, <2>3, <2>4
<1> QED BY <1>4, <1>5, <1>6

\* What RemoveQueuedPlayer does for the session of account a: at most one
\* account is let in, only if there is a place, and always if one waits.
LetsIn(a, admitted, queue) ==
  LET active == ActiveAccounts(m_sessions, m_QueuedPlayer)
      others == Cardinality(active \ {a})
  IN /\ \/ /\ admitted = {}
           /\ ~HasPlace(others) \/ Range(m_QueuedPlayer) \subseteq {m_sessions[a]}
        \/ \E b \in Listed \ (active \cup {a}) : admitted = {b} /\ HasPlace(others)
     /\ \A b \in Listed \ {a} :
          m_sessions[b] \notin Range(queue) <=> b \in active \cup admitted
     /\ m_sessions[a] \notin Range(queue)
     /\ queue # <<>> => ~(Range(m_QueuedPlayer) \subseteq {m_sessions[a]})

\* RemoveQueuedPlayer does that.
LEMMA RemoveLetsIn ==
  ASSUME TypeOK, NoDeletedSession, FiniteList, NEW a \in Listed
  PROVE  \E admitted : LetsIn(a, admitted, RemoveQueuedPlayer(m_sessions[a]).queue)
<1> DEFINE k == m_sessions[a]
           active == ActiveAccounts(m_sessions, m_QueuedPlayer)
           others == Cardinality(active \ {a})
           rest == Erase(m_QueuedPlayer, k)
           queue == RemoveQueuedPlayer(k).queue
<1>1. OthersActive(k) = others
  BY ActiveNow
<1>2. /\ rest \in Seq(Sessions) /\ IsInjective(rest)
      /\ Range(rest) = Range(m_QueuedPlayer) \ {k}
  BY EraseProperties DEF TypeOK, NoDeletedSession
<1>3. queue = IF HasPlace(others) /\ rest # <<>> THEN Erase(rest, rest[1]) ELSE rest
  BY <1>1 DEF RemoveQueuedPlayer, NextIn
<1>4. \A b \in Listed : b \in active <=> m_sessions[b] \notin Range(m_QueuedPlayer)
  BY DEF ActiveAccounts, Listed
<1>5. \A b \in Listed : AccountOf[m_sessions[b]] = b
  BY DEF NoDeletedSession
<1>6. \A j \in Range(m_QueuedPlayer) : j \in Sessions /\ m_sessions[AccountOf[j]] = j
                                       /\ AccountOf[j] \in Listed
  <2>1. Range(m_QueuedPlayer) \subseteq Sessions
    BY LenProperties DEF TypeOK, Range
  <2> QED BY <2>1, SessionsAssumption DEF NoDeletedSession, Listed
<1>7. rest = <<>> <=> Range(m_QueuedPlayer) \subseteq {k}
  <2>1. rest = <<>> <=> Range(rest) = {}
    BY <1>2, FirstInQueue DEF Range
  <2> QED BY <1>2, <2>1
<1> HIDE DEF active, others, rest
<1>8. CASE HasPlace(others) /\ rest # <<>>
  <2> DEFINE first == rest[1]
             b == AccountOf[first]
  <2>1. first \in Range(m_QueuedPlayer) \ {k}
    BY <1>2, <1>8, FirstInQueue
  <2>2. Range(queue) = Range(m_QueuedPlayer) \ {k, first}
    <3>1. Range(Erase(rest, first)) = Range(rest) \ {first}
      BY <1>2, EraseProperties
    <3> QED BY <1>2, <1>3, <1>8, <3>1
  <2>3. b \in Listed /\ m_sessions[b] = first
    BY <1>6, <2>1
  <2>4. b # a /\ b \notin active
    BY <1>4, <2>1, <2>3
  <2> HIDE DEF queue, first, b
  <2>5. \A d \in Listed \ {a} : m_sessions[d] \notin Range(queue) <=> d \in active \cup {b}
    BY <1>4, <1>5, <2>2, <2>3
  <2>6. k \notin Range(queue)
    BY <2>2
  <2>7. LetsIn(a, {b}, queue)
    BY <1>7, <1>8, <2>3, <2>4, <2>5, <2>6 DEF LetsIn, active, others
  <2> QED BY <2>7 DEF queue
<1>9. CASE ~(HasPlace(others) /\ rest # <<>>)
  <2>1. queue = rest
    BY <1>3, <1>9
  <2> HIDE DEF queue
  <2>2. \A d \in Listed \ {a} : m_sessions[d] \notin Range(queue) <=> d \in active
    BY <1>2, <1>4, <1>5, <2>1
  <2>3. LetsIn(a, {}, queue)
    BY <1>2, <1>7, <1>9, <2>1, <2>2 DEF LetsIn, active, others
  <2> QED BY <2>3 DEF queue
<1> QED BY <1>8, <1>9

\* The initial list is empty.
LEMMA InitFinite == Init => FiniteList
<1> SUFFICES ASSUME Init PROVE FiniteList
  OBVIOUS
<1>1. Listed = {}
  BY DEF Init, Listed
<1> QED BY <1>1, FS_EmptySet DEF FiniteList

\* A step adds one session to the list at most.
LEMMA StepFinite ==
  ASSUME FiniteList, m_sessions \in [Accounts -> Sessions \cup {NoSession}],
         NEW a, NEW k, m_sessions' = [m_sessions EXCEPT ![a] = k]
  PROVE  FiniteList'
<1>1. Listed' \subseteq Listed \cup {a}
  BY DEF Listed
<1>2. IsFiniteSet(Listed \cup {a})
  BY FS_AddElement DEF FiniteList
<1> QED BY <1>1, <1>2, FS_Subset DEF FiniteList

\* A step changes who is listed and who waits in one of these ways.
QueueMoves ==
  \/ AddSessionNew \/ AddSessionReplaces \/ FinishClosed
  \/ KickAll
  \/ UNCHANGED <<m_sessions, m_QueuedPlayer>>

\* The other actions leave the list and the wait queue alone.
LEMMA StepMoves == [Next]_vars => QueueMoves
<1> SUFFICES ASSUME [Next]_vars PROVE QueueMoves
  OBVIOUS
<1>1. CASE Input \/ DelayThread \/ UNCHANGED vars
  BY <1>1 DEF QueueMoves, Input, HandleAuthSession, CloseSocket, HandlePlayerLoginOpcode,
      HandleCharDeleteOpcode, HandleLogoutRequestOpcode, HandleLogoutCancelOpcode,
      Play, AutoSave, KickPlayer, HandleServerPLimitCommand, StopNow, DelayThread,
      sessionVars, queueVars, packetFrame, vars
<1>2. CASE WorldThread
  BY <1>2 DEF QueueMoves, WorldThread, AddSessionRefused, BeginUpdates, NextSession,
      FinishOpen, EndUpdates, EndMaps, HandlePlayerLoginCallback, EndResults,
      EndCommands, sessionVars, queueVars
<1> QED BY <1>1, <1>2 DEF Next

\* The list stays finite.
LEMMA FiniteStep ==
  ASSUME TypeOK, FiniteList, [Next]_vars
  PROVE  FiniteList'
<1>1. m_sessions \in [Accounts -> Sessions \cup {NoSession}]
  BY DEF TypeOK
<1>2. UNCHANGED m_sessions \/ \E a, k : m_sessions' = [m_sessions EXCEPT ![a] = k]
  BY StepMoves DEF QueueMoves, AddSessionNew, AddSessionReplaces, FinishClosed, KickAll
<1>3. CASE UNCHANGED m_sessions
  BY <1>3 DEF FiniteList, Listed
<1> QED BY <1>1, <1>2, <1>3, StepFinite

\* How the active accounts change when a session is added for an account that
\* has none: it is let in, or everything stays as it was.
LEMMA NewActive ==
  ASSUME TypeOK, NoDeletedSession, FiniteList, Places, AddSessionNew
  PROVE  LET a == AccountOf[Head(addSessQueue)]
             active == ActiveAccounts(m_sessions, m_QueuedPlayer)
         IN /\ a \in Accounts \ Listed
            /\ \/ /\ ActiveAccounts(m_sessions', m_QueuedPlayer') = active
                  /\ m_QueuedPlayer' # <<>>
                  /\ m_playerLimit > 0 /\ Cardinality(Listed) >= m_playerLimit
               \/ /\ ActiveAccounts(m_sessions', m_QueuedPlayer') = active \cup {a}
                  /\ m_QueuedPlayer' = m_QueuedPlayer
                  /\ m_playerLimit > 0 /\ Security[a] = 0 =>
                       Cardinality(Listed) < m_playerLimit
<1> DEFINE k == Head(addSessQueue)
           a == AccountOf[k]
           active == ActiveAccounts(m_sessions, m_QueuedPlayer)
           over == /\ GetPlayerAmountLimit > 0
                   /\ Cardinality(Listed) >= GetPlayerAmountLimit
                   /\ Security[a] = 0
<1>1. k \in Sessions /\ a \in Accounts /\ k \notin Range(m_QueuedPlayer)
  BY NextAdded DEF AddSessionNew
<1>2. m_sessions[a] = NoSession /\ m_sessions' = [m_sessions EXCEPT ![a] = k]
  BY DEF AddSessionNew
<1>3. m_QueuedPlayer \in Seq(Sessions) /\ IsInjective(m_QueuedPlayer)
  BY DEF TypeOK, NoDeletedSession
<1>4. k # NoSession
  BY <1>1, SessionsAssumption
<1>5. GetActiveAndQueuedSessionCount([m_sessions EXCEPT ![a] = k]) - 1
        = Cardinality(Listed)
  <2> DEFINE next == [m_sessions EXCEPT ![a] = k]
  <2>1. {b \in Accounts : next[b] # NoSession} = Listed \cup {a}
    BY <1>1, <1>2, <1>4 DEF TypeOK, Listed
  <2> HIDE DEF next
  <2>2. a \notin Listed
    BY <1>2 DEF Listed
  <2>3. Cardinality(Listed \cup {a}) = Cardinality(Listed) + 1
    BY <2>2, FS_AddElement DEF FiniteList
  <2>4. Cardinality(Listed) \in Nat
    BY FS_CardinalityType DEF FiniteList
  <2>5. GetActiveAndQueuedSessionCount(next) = Cardinality(Listed \cup {a})
    BY <2>1 DEF GetActiveAndQueuedSessionCount
  <2>6. GetActiveAndQueuedSessionCount(next) - 1 = Cardinality(Listed)
    BY <2>3, <2>4, <2>5
  <2> QED BY <2>6 DEF next
<1>6. IF over THEN m_QueuedPlayer' = Append(m_QueuedPlayer, k)
              ELSE m_QueuedPlayer' = m_QueuedPlayer
  BY <1>5 DEF AddSessionNew
<1>7. m_playerLimit \in Int
  BY DEF TypeOK
<1> HIDE DEF k, active
<1>8. m_sessions'[a] = k /\ \A b \in Accounts \ {a} : m_sessions'[b] = m_sessions[b]
  BY <1>1, <1>2 DEF TypeOK
<1>9. a \notin active /\ a \notin Listed
  BY <1>2 DEF ActiveAccounts, active, Listed
<1>10. \A b \in Accounts \ {a} : m_sessions[b] # NoSession => m_sessions[b] # k
  <2>1. \A b \in Listed : AccountOf[m_sessions[b]] = b
    BY DEF NoDeletedSession
  <2> QED BY <1>1, <2>1 DEF Listed
<1>11. CASE over
  <2>1. Range(m_QueuedPlayer') = Range(m_QueuedPlayer) \cup {k}
    BY <1>1, <1>3, <1>6, <1>11, QueueAppend
  <2>2. ActiveAccounts(m_sessions', m_QueuedPlayer') = active
    BY <1>1, <1>4, <1>8, <1>9, <1>10, <2>1 DEF ActiveAccounts, active
  <2>3. m_QueuedPlayer' # <<>>
    BY <2>1 DEF Range
  <2> QED BY <1>1, <1>7, <1>9, <1>11, <2>2, <2>3 DEF GetPlayerAmountLimit, k, active
<1>12. CASE ~over
  <2>1. m_QueuedPlayer' = m_QueuedPlayer
    BY <1>6, <1>12
  <2>2. ActiveAccounts(m_sessions', m_QueuedPlayer') = active \cup {a}
    BY <1>1, <1>4, <1>8, <1>9, <2>1 DEF ActiveAccounts, active
  <2>3. Cardinality(Listed) \in Nat
    BY FS_CardinalityType DEF FiniteList
  <2>4. m_playerLimit > 0 /\ Security[a] = 0 => Cardinality(Listed) < m_playerLimit
    BY <1>7, <1>12, <2>3 DEF GetPlayerAmountLimit
  <2> QED BY <1>1, <1>9, <2>1, <2>2, <2>4 DEF k, active
<1> QED BY <1>11, <1>12

\* The sizes that LetsIn speaks of.
LEMMA LetsInCount ==
  ASSUME TypeOK, NoDeletedSession, FiniteList, NEW a \in Listed,
         NEW admitted, NEW queue, LetsIn(a, admitted, queue)
  PROVE  LET active == ActiveAccounts(m_sessions, m_QueuedPlayer)
             others == Cardinality(active \ {a})
             others2 == (active \ {a}) \cup admitted
         IN /\ IsFiniteSet(others2) /\ a \notin others2 /\ others2 \subseteq Listed
            /\ others \in Nat
            /\ Cardinality(active) = IF a \in active THEN others + 1 ELSE others
            /\ \/ /\ admitted = {} /\ Cardinality(others2) = others
                  /\ ~HasPlace(others) \/ Range(m_QueuedPlayer) \subseteq {m_sessions[a]}
               \/ Cardinality(others2) = others + 1 /\ HasPlace(others)
<1> DEFINE active == ActiveAccounts(m_sessions, m_QueuedPlayer)
           left == active \ {a}
           others == Cardinality(left)
<1>1. IsFiniteSet(active) /\ active \subseteq Listed
  BY ActiveNow
<1>2. \/ /\ admitted = {}
         /\ ~HasPlace(others) \/ Range(m_QueuedPlayer) \subseteq {m_sessions[a]}
      \/ \E b \in Listed \ (active \cup {a}) : admitted = {b} /\ HasPlace(others)
  BY DEF LetsIn
<1> HIDE DEF active
<1>3. IsFiniteSet(left) /\ Cardinality(active) \in Nat /\ others \in Nat
      /\ Cardinality(active) = IF a \in active THEN others + 1 ELSE others
  <2>1. IsFiniteSet(left) /\ others
                              = IF a \in active THEN Cardinality(active) - 1
                                                ELSE Cardinality(active)
    BY <1>1, FS_RemoveElement
  <2> HIDE DEF left
  <2>2. Cardinality(active) \in Nat /\ others \in Nat
    BY <1>1, <2>1, FS_CardinalityType
  <2> HIDE DEF others
  <2> QED BY <2>1, <2>2
<1>4. CASE admitted = {}
  <2>1. /\ left \cup admitted = left
        /\ ~HasPlace(others) \/ Range(m_QueuedPlayer) \subseteq {m_sessions[a]}
    BY <1>2, <1>4
  <2> QED BY <1>1, <1>3, <1>4, <2>1 DEF active
<1>5. CASE admitted # {}
  <2>1. PICK b \in Listed \ (active \cup {a}) : admitted = {b} /\ HasPlace(others)
    BY <1>2, <1>5
  <2> HIDE DEF left, others
  <2>2. b \notin left
    BY <2>1 DEF left
  <2>3. IsFiniteSet(left \cup {b}) /\ Cardinality(left \cup {b}) = others + 1
    BY <1>3, <2>2, FS_AddElement DEF others
  <2>4. left \cup {b} \subseteq Listed /\ a \notin left \cup {b}
    BY <1>1, <2>1 DEF left
  <2> QED BY <1>3, <2>1, <2>3, <2>4 DEF active, left, others
<1> QED BY <1>4, <1>5

\* How the active accounts change when a session replaces the one its account
\* has.  The new one is counted against those before it, with the old one
\* counted only if it was waiting.
Counted(k) ==
  IF k \in Range(m_QueuedPlayer) THEN Cardinality(Listed) ELSE Cardinality(Listed) - 1

\* AddSessionReplaces in terms of the active accounts.
LEMMA ReplacesActive ==
  ASSUME TypeOK, NoDeletedSession, FiniteList, Places, AddSessionReplaces
  PROVE  LET a == AccountOf[Head(addSessQueue)]
             others == ActiveAccounts(m_sessions, m_QueuedPlayer) \ {a}
         IN /\ a \in Listed
            /\ \E admitted, queue :
                 /\ LetsIn(a, admitted, queue)
                 /\ \/ /\ ActiveAccounts(m_sessions', m_QueuedPlayer') = others \cup admitted
                       /\ m_QueuedPlayer' # <<>>
                       /\ m_playerLimit > 0 /\ Counted(m_sessions[a]) >= m_playerLimit
                    \/ /\ ActiveAccounts(m_sessions', m_QueuedPlayer')
                            = (others \cup admitted) \cup {a}
                       /\ m_QueuedPlayer' = queue
                       /\ m_playerLimit > 0 /\ Security[a] = 0 =>
                            Counted(m_sessions[a]) < m_playerLimit
<1> DEFINE k == Head(addSessQueue)
           a == AccountOf[k]
           old == m_sessions[a]
           active == ActiveAccounts(m_sessions, m_QueuedPlayer)
           removed == RemoveQueuedPlayer(old)
           queue == removed.queue
           over == /\ GetPlayerAmountLimit > 0
                   /\ Counted(old) >= GetPlayerAmountLimit
                   /\ Security[a] = 0
<1>1. k \in Sessions /\ a \in Accounts /\ k \notin Range(m_QueuedPlayer)
  BY NextAdded DEF AddSessionReplaces
<1>2. old # NoSession /\ m_sessions' = [m_sessions EXCEPT ![a] = k]
  BY DEF AddSessionReplaces
<1>3. a \in Listed
  BY <1>1, <1>2 DEF Listed
<1>4. PICK admitted : LetsIn(a, admitted, queue)
  BY <1>3, RemoveLetsIn
<1>5. /\ queue \in Seq(Sessions) /\ IsInjective(queue)
      /\ Range(queue) \subseteq Range(m_QueuedPlayer)
      /\ removed.found = (old \in Range(m_QueuedPlayer))
  BY RemoveProperties DEF TypeOK, NoDeletedSession, RemoveQueuedPlayer
<1>6. IF over THEN m_QueuedPlayer' = Append(queue, k) ELSE m_QueuedPlayer' = queue
  <2>1. Cardinality(Listed) = GetActiveAndQueuedSessionCount(m_sessions)
    BY DEF Listed, GetActiveAndQueuedSessionCount
  <2> QED BY <1>5, <2>1 DEF AddSessionReplaces, Counted
<1>7. m_playerLimit \in Int /\ Cardinality(Listed) \in Nat
  BY FS_CardinalityType DEF TypeOK, FiniteList
<1>8. k # NoSession
  BY <1>1, SessionsAssumption
<1>9. m_sessions'[a] = k /\ \A b \in Accounts \ {a} : m_sessions'[b] = m_sessions[b]
  BY <1>1, <1>2 DEF TypeOK
<1>10. \A b \in Listed : AccountOf[m_sessions[b]] = b
  BY DEF NoDeletedSession
<1>11. \A b \in Listed \ {a} : m_sessions[b] # k
  BY <1>10
<1>12. \A b \in Listed \ {a} : m_sessions[b] \notin Range(queue) <=> b \in active \cup admitted
  BY <1>4 DEF LetsIn
<1>13. active \subseteq Listed /\ admitted \subseteq Listed /\ a \notin admitted
  BY <1>4, ActiveNow DEF LetsIn
<1>14. Counted(old) \in Int
  BY <1>7 DEF Counted
<1> HIDE DEF k, old, active, removed, queue
<1>15. CASE over
  <2>1. Range(m_QueuedPlayer') = Range(queue) \cup {k}
    BY <1>1, <1>5, <1>6, <1>15, QueueAppend
  <2>2. ASSUME NEW b \in Accounts
        PROVE  b \in ActiveAccounts(m_sessions', m_QueuedPlayer')
                 <=> b \in (active \ {a}) \cup admitted
    BY <1>9, <1>11, <1>12, <1>13, <2>1 DEF ActiveAccounts, Listed
  <2>3. (active \ {a}) \cup admitted \subseteq Accounts
    BY <1>13 DEF Listed
  <2>4. ActiveAccounts(m_sessions', m_QueuedPlayer') = (active \ {a}) \cup admitted
    BY <2>2, <2>3 DEF ActiveAccounts
  <2>5. m_QueuedPlayer' # <<>>
    BY <2>1 DEF Range
  <2>6. m_playerLimit > 0 /\ Counted(old) >= m_playerLimit
    BY <1>7, <1>15 DEF GetPlayerAmountLimit
  <2> QED BY <1>3, <1>4, <2>4, <2>5, <2>6 DEF k, old, active
<1>16. CASE ~over
  <2>1. m_QueuedPlayer' = queue
    BY <1>6, <1>16
  <2>2. ASSUME NEW b \in Accounts
        PROVE  b \in ActiveAccounts(m_sessions', m_QueuedPlayer')
                 <=> b \in ((active \ {a}) \cup admitted) \cup {a}
    BY <1>1, <1>5, <1>8, <1>9, <1>12, <1>13, <2>1 DEF ActiveAccounts, Listed
  <2>3. ((active \ {a}) \cup admitted) \cup {a} \subseteq Accounts
    BY <1>1, <1>13 DEF Listed
  <2>4. ActiveAccounts(m_sessions', m_QueuedPlayer') = ((active \ {a}) \cup admitted) \cup {a}
    BY <2>2, <2>3 DEF ActiveAccounts
  <2>5. m_playerLimit > 0 /\ Security[a] = 0 => Counted(old) < m_playerLimit
    BY <1>7, <1>14, <1>16 DEF GetPlayerAmountLimit
  <2> QED BY <1>3, <1>4, <2>1, <2>4, <2>5 DEF k, old, active
<1> QED BY <1>15, <1>16

\* FinishClosed in terms of the active accounts.
LEMMA ClosedActive ==
  ASSUME TypeOK, NoDeletedSession, FiniteList, Places, FinishClosed
  PROVE  /\ updating \in Listed
         /\ \E admitted :
              /\ LetsIn(updating, admitted, m_QueuedPlayer')
              /\ ActiveAccounts(m_sessions', m_QueuedPlayer')
                   = (ActiveAccounts(m_sessions, m_QueuedPlayer) \ {updating}) \cup admitted
<1> DEFINE active == ActiveAccounts(m_sessions, m_QueuedPlayer)
<1>1. /\ updating # NoAccount
      /\ m_sessions' = [m_sessions EXCEPT ![updating] = NoSession]
      /\ m_QueuedPlayer' = RemoveQueuedPlayer(m_sessions[updating]).queue
  BY DEF FinishClosed
<1>2. updating \in Listed /\ updating \in Accounts
  BY <1>1 DEF Places, UpdatesListed, Listed
<1>3. PICK admitted : LetsIn(updating, admitted, m_QueuedPlayer')
  BY <1>1, <1>2, RemoveLetsIn
<1>4. /\ m_sessions'[updating] = NoSession
      /\ \A b \in Accounts \ {updating} : m_sessions'[b] = m_sessions[b]
  BY <1>1, <1>2 DEF TypeOK
<1>5. active \subseteq Listed /\ admitted \subseteq Listed /\ updating \notin admitted
  BY <1>3, ActiveNow DEF LetsIn
<1>6. \A b \in Listed \ {updating} :
        m_sessions[b] \notin Range(m_QueuedPlayer') <=> b \in active \cup admitted
  BY <1>3 DEF LetsIn
<1> HIDE DEF active
<1>7. ASSUME NEW b \in Accounts
      PROVE  b \in ActiveAccounts(m_sessions', m_QueuedPlayer')
               <=> b \in (active \ {updating}) \cup admitted
  BY <1>4, <1>5, <1>6 DEF ActiveAccounts, Listed
<1>8. (active \ {updating}) \cup admitted \subseteq Accounts
  BY <1>5 DEF Listed
<1>9. ActiveAccounts(m_sessions', m_QueuedPlayer') = (active \ {updating}) \cup admitted
  BY <1>7, <1>8 DEF ActiveAccounts
<1> QED BY <1>2, <1>3, <1>9 DEF active

\* A step that lets a plain account in leaves at most m_playerLimit of them.
LEMMA StepAdmits ==
  ASSUME TypeOK, NoDeletedSession, FiniteList, Places, [Next]_vars,
         m_playerLimit > 0, stopping' # "kicked",
         ~(ActivePlayers(m_sessions', m_QueuedPlayer')
             \subseteq ActivePlayers(m_sessions, m_QueuedPlayer))
  PROVE  Cardinality(ActivePlayers(m_sessions', m_QueuedPlayer')) <= m_playerLimit
<1> DEFINE active == ActiveAccounts(m_sessions, m_QueuedPlayer)
           before == ActivePlayers(m_sessions, m_QueuedPlayer)
           active2 == ActiveAccounts(m_sessions', m_QueuedPlayer')
           after == ActivePlayers(m_sessions', m_QueuedPlayer')
           total == Cardinality(Listed)
<1>1. m_playerLimit \in Int
  BY DEF TypeOK
<1>2. before = {a \in active : Security[a] = 0} /\ after = {a \in active2 : Security[a] = 0}
  BY DEF ActivePlayers, ActiveAccounts
<1>3. /\ IsFiniteSet(active) /\ active \subseteq Listed
      /\ IsFiniteSet(Listed) /\ total \in Nat
  BY ActiveNow, FS_CardinalityType DEF FiniteList
<1>4. ASSUME NEW larger, IsFiniteSet(larger), Cardinality(larger) <= m_playerLimit,
             after \subseteq larger
      PROVE  Cardinality(after) <= m_playerLimit
  <2>1. IsFiniteSet(after) /\ Cardinality(after) <= Cardinality(larger)
    BY <1>4, FS_Subset
  <2>2. Cardinality(after) \in Nat /\ Cardinality(larger) \in Nat
    BY <1>4, <2>1, FS_CardinalityType
  <2> QED BY <1>1, <1>4, <2>1, <2>2
<1>5. CASE AddSessionNew
  <2> DEFINE a == AccountOf[Head(addSessQueue)]
  <2>1. /\ a \notin Listed
        /\ \/ active2 = active
           \/ /\ active2 = active \cup {a}
              /\ Security[a] = 0 => total < m_playerLimit
    BY <1>5, NewActive
  <2> HIDE DEF a, active, active2, before, after, total
  <2>2. active2 = active \cup {a} /\ Security[a] = 0 /\ total < m_playerLimit
    BY <1>2, <2>1 DEF before, after
  <2>3. IsFiniteSet(Listed \cup {a}) /\ Cardinality(Listed \cup {a}) = total + 1
    BY <1>3, <2>1, FS_AddElement DEF total
  <2>4. after \subseteq Listed \cup {a}
    BY <1>2, <1>3, <2>2
  <2>5. Cardinality(Listed \cup {a}) <= m_playerLimit
    BY <1>1, <1>3, <2>2, <2>3
  <2> QED BY <1>4, <2>3, <2>4, <2>5 DEF after
<1>6. CASE AddSessionReplaces
  <2> DEFINE a == AccountOf[Head(addSessQueue)]
             left == active \ {a}
             others == Cardinality(left)
  <2>1. a \in Listed
    BY <1>6, ReplacesActive
  <2>2. PICK admitted, queue :
          /\ LetsIn(a, admitted, queue)
          /\ \/ active2 = left \cup admitted
             \/ /\ active2 = (left \cup admitted) \cup {a}
                /\ Security[a] = 0 => Counted(m_sessions[a]) < m_playerLimit
    BY <1>6, ReplacesActive
  <2>3. /\ IsFiniteSet(left \cup admitted) /\ a \notin left \cup admitted
        /\ left \cup admitted \subseteq Listed
        /\ others \in Nat
        /\ \/ admitted = {}
           \/ Cardinality(left \cup admitted) = others + 1 /\ HasPlace(others)
    BY <2>1, <2>2, LetsInCount
  <2> HIDE DEF a, active, active2, before, after, total, left, others
  <2>4. CASE Security[a] = 0 /\ Counted(m_sessions[a]) < m_playerLimit
    <3>1. total <= m_playerLimit
      BY <1>1, <1>3, <2>4 DEF Counted, total
    <3>2. after \subseteq Listed
      BY <1>2, <2>1, <2>2, <2>3
    <3> QED BY <1>3, <1>4, <3>1, <3>2 DEF total, after
  <2>5. CASE ~(Security[a] = 0 /\ Counted(m_sessions[a]) < m_playerLimit)
    <3>1. after \subseteq left \cup admitted
      BY <1>2, <2>2, <2>5
    <3>2. admitted # {}
      BY <1>2, <3>1 DEF before, after, left
    <3>3. Cardinality(left \cup admitted) <= m_playerLimit
      BY <1>1, <2>3, <3>2 DEF HasPlace
    <3> QED BY <1>4, <2>3, <3>1, <3>3 DEF after
  <2> QED BY <2>4, <2>5
<1>7. CASE FinishClosed
  <2> DEFINE left == active \ {updating}
             others == Cardinality(left)
  <2>1. updating \in Listed
    BY <1>7, ClosedActive
  <2>2. PICK admitted : /\ LetsIn(updating, admitted, m_QueuedPlayer')
                        /\ active2 = left \cup admitted
    BY <1>7, ClosedActive
  <2>3. /\ IsFiniteSet(left \cup admitted)
        /\ others \in Nat
        /\ \/ admitted = {}
           \/ Cardinality(left \cup admitted) = others + 1 /\ HasPlace(others)
    BY <2>1, <2>2, LetsInCount
  <2> HIDE DEF active, active2, before, after, total, left, others
  <2>4. after \subseteq left \cup admitted
    BY <1>2, <2>2
  <2>5. admitted # {}
    BY <1>2, <2>4 DEF before, after, left
  <2>6. Cardinality(left \cup admitted) <= m_playerLimit
    BY <1>1, <2>3, <2>5 DEF HasPlace
  <2> QED BY <1>4, <2>3, <2>4, <2>6 DEF after
<1>8. CASE KickAll
  BY <1>8 DEF KickAll
<1>9. CASE UNCHANGED <<m_sessions, m_QueuedPlayer>>
  BY <1>9
<1> QED BY <1>5, <1>6, <1>7, <1>8, <1>9, StepMoves DEF QueueMoves

\* A step that does not raise the limit leaves nobody waiting beside a place
\* that was not free before.
LEMMA StepFills ==
  ASSUME TypeOK, NoDeletedSession, FiniteList, Places, [Next]_vars,
         (TypeOK /\ NoDeletedSession /\ FiniteList)',
         m_playerLimit' = m_playerLimit, stopping' # "kicked", ~WaitsBesidePlace
  PROVE  ~WaitsBesidePlace'
<1> DEFINE active == ActiveAccounts(m_sessions, m_QueuedPlayer)
           count == Cardinality(active)
           active2 == ActiveAccounts(m_sessions', m_QueuedPlayer')
           count2 == Cardinality(active2)
           total == Cardinality(Listed)
<1> SUFFICES ASSUME m_playerLimit > 0, m_QueuedPlayer' # <<>>
             PROVE  count2 >= m_playerLimit
  <2>1. GetActiveSessionCount(m_sessions', m_QueuedPlayer') = count2
        /\ IsFiniteSet(active2)
    <3>1. \A a \in Accounts : m_sessions'[a] # NoSession => AccountOf[m_sessions'[a]] = a
      BY DEF NoDeletedSession, Listed
    <3>2. Range(m_QueuedPlayer') \subseteq Sessions
      BY LenProperties DEF TypeOK, Range
    <3>3. \A k \in Range(m_QueuedPlayer') : m_sessions'[AccountOf[k]] = k
      BY <3>2 DEF NoDeletedSession
    <3>4. /\ m_sessions' \in [Accounts -> Sessions \cup {NoSession}]
          /\ m_QueuedPlayer' \in Seq(Sessions) /\ IsInjective(m_QueuedPlayer')
      BY DEF TypeOK, NoDeletedSession
    <3>5. IsFiniteSet({a \in Accounts : m_sessions'[a] # NoSession})
      BY DEF FiniteList, Listed
    <3> QED BY <3>1, <3>3, <3>4, <3>5, ActiveCount
  <2>2. count2 \in Nat
    BY <2>1, FS_CardinalityType
  <2>3. m_playerLimit \in Int
    BY DEF TypeOK
  <2> HIDE DEF count2
  <2> QED BY <2>1, <2>2, <2>3 DEF WaitsBesidePlace
<1>1. m_playerLimit \in Int
  BY DEF TypeOK
<1>2. /\ IsFiniteSet(active) /\ active \subseteq Listed
      /\ IsFiniteSet(Listed) /\ total \in Nat /\ count \in Nat
      /\ GetActiveSessionCount(m_sessions, m_QueuedPlayer) = count
  BY ActiveNow, FS_CardinalityType DEF FiniteList
<1>3. m_QueuedPlayer = <<>> \/ count >= m_playerLimit
  BY <1>1, <1>2 DEF WaitsBesidePlace
<1>4. Range(<<>>) = {}
  BY DEF Range
<1>5. m_QueuedPlayer = <<>> => active = Listed
  BY <1>4 DEF ActiveAccounts, Listed
<1>6. CASE AddSessionNew
  <2> DEFINE a == AccountOf[Head(addSessQueue)]
  <2>1. /\ a \notin Listed
        /\ \/ active2 = active /\ total >= m_playerLimit
           \/ active2 = active \cup {a} /\ m_QueuedPlayer' = m_QueuedPlayer
    BY <1>6, NewActive
  <2> HIDE DEF a, active, active2, count, count2, total
  <2>2. CASE active2 = active /\ total >= m_playerLimit
    BY <1>3, <1>5, <2>2 DEF count, count2, total
  <2>3. CASE active2 = active \cup {a} /\ m_QueuedPlayer' = m_QueuedPlayer
    <3>1. count2 = count + 1
      BY <1>2, <2>1, <2>3, FS_AddElement DEF count, count2
    <3> QED BY <1>1, <1>2, <1>3, <2>3, <3>1
  <2> QED BY <2>1, <2>2, <2>3
<1>7. CASE AddSessionReplaces
  <2> DEFINE a == AccountOf[Head(addSessQueue)]
             k == m_sessions[a]
             left == active \ {a}
             others == Cardinality(left)
  <2>1. a \in Listed
    BY <1>7, ReplacesActive
  <2>2. PICK admitted, queue :
          /\ LetsIn(a, admitted, queue)
          /\ \/ active2 = left \cup admitted /\ Counted(k) >= m_playerLimit
             \/ active2 = (left \cup admitted) \cup {a} /\ m_QueuedPlayer' = queue
    BY <1>7, ReplacesActive
  <2>3. /\ IsFiniteSet(left \cup admitted) /\ a \notin left \cup admitted
        /\ others \in Nat
        /\ count = IF a \in active THEN others + 1 ELSE others
        /\ \/ /\ admitted = {} /\ Cardinality(left \cup admitted) = others
              /\ ~HasPlace(others) \/ Range(m_QueuedPlayer) \subseteq {k}
           \/ Cardinality(left \cup admitted) = others + 1
    BY <2>1, <2>2, LetsInCount
  <2>4. queue # <<>> => ~(Range(m_QueuedPlayer) \subseteq {k})
    BY <2>2 DEF LetsIn
  <2>5. a \in active <=> k \notin Range(m_QueuedPlayer)
    BY <2>1 DEF ActiveAccounts, Listed
  <2>6. ~HasPlace(others) => others >= m_playerLimit
    BY <1>1, <2>3 DEF HasPlace
  <2> HIDE DEF a, k, active, active2, count, count2, total, left, others
  <2>7. CASE active2 = left \cup admitted /\ Counted(k) >= m_playerLimit
    <3>1. CASE m_QueuedPlayer = <<>>
      <4>1. Counted(k) = total - 1 /\ a \in active
        BY <1>4, <2>5, <3>1 DEF Counted, total
      <4>2. count = total
        BY <1>5, <3>1 DEF count, total
      <4>3. others >= m_playerLimit
        BY <1>1, <1>2, <2>3, <2>7, <4>1, <4>2
      <4> QED BY <1>1, <2>3, <2>7, <4>3 DEF count2
    <3>2. CASE m_QueuedPlayer # <<>>
      <4>1. count >= m_playerLimit
        BY <1>3, <3>2
      <4>2. CASE a \notin active
        BY <1>1, <2>3, <2>7, <4>1, <4>2 DEF count2
      <4>3. CASE a \in active
        <5>1. ~(Range(m_QueuedPlayer) \subseteq {k})
          <6>1. m_QueuedPlayer \in Seq(Sessions) /\ IsInjective(m_QueuedPlayer)
            BY DEF TypeOK, NoDeletedSession
          <6>2. Range(m_QueuedPlayer) # {}
            BY <3>2, <6>1, FirstInQueue
          <6> QED BY <2>5, <4>3, <6>2
        <5> QED BY <1>1, <2>3, <2>6, <2>7, <4>1, <4>3, <5>1 DEF count2
      <4> QED BY <4>2, <4>3
    <3> QED BY <3>1, <3>2
  <2>8. CASE active2 = (left \cup admitted) \cup {a} /\ m_QueuedPlayer' = queue
    <3>1. ~(Range(m_QueuedPlayer) \subseteq {k})
      BY <2>4, <2>8
    <3>2. count >= m_playerLimit
      BY <1>3, <1>4, <3>1
    <3>3. count2 = Cardinality(left \cup admitted) + 1
      BY <2>3, <2>8, FS_AddElement DEF count2
    <3> QED BY <1>1, <2>3, <2>6, <3>1, <3>2, <3>3
  <2> QED BY <2>2, <2>7, <2>8
<1>8. CASE FinishClosed
  <2> DEFINE k == m_sessions[updating]
             left == active \ {updating}
             others == Cardinality(left)
  <2>1. updating \in Listed
    BY <1>8, ClosedActive
  <2>2. PICK admitted : /\ LetsIn(updating, admitted, m_QueuedPlayer')
                        /\ active2 = left \cup admitted
    BY <1>8, ClosedActive
  <2>3. /\ others \in Nat
        /\ count = IF updating \in active THEN others + 1 ELSE others
        /\ \/ /\ Cardinality(left \cup admitted) = others
              /\ ~HasPlace(others) \/ Range(m_QueuedPlayer) \subseteq {k}
           \/ Cardinality(left \cup admitted) = others + 1
    BY <2>1, <2>2, LetsInCount
  <2>4. ~(Range(m_QueuedPlayer) \subseteq {k})
    BY <2>2 DEF LetsIn
  <2>5. ~HasPlace(others) => others >= m_playerLimit
    BY <1>1, <2>3 DEF HasPlace
  <2> HIDE DEF k, active, active2, count, count2, left, others
  <2>6. count >= m_playerLimit
    BY <1>3, <1>4, <2>4
  <2> QED BY <1>1, <2>2, <2>3, <2>4, <2>5, <2>6 DEF count2
<1>9. CASE KickAll
  BY <1>9 DEF KickAll
<1>10. CASE UNCHANGED <<m_sessions, m_QueuedPlayer>>
  BY <1>3, <1>10
<1> QED BY <1>6, <1>7, <1>8, <1>9, <1>10, StepMoves DEF QueueMoves

\* The invariant of the theorems below: the list is finite as well.
THEOREM FinitelyMany == Spec => []FiniteList
<1>1. IInv /\ FiniteList /\ [Next]_vars => FiniteList'
  BY FiniteStep DEF IInv
<1> QED BY <1>1, InitFinite, Invariance, PTL DEF Spec

\* However sessions are replaced, refused and removed, and whatever the limit
\* has become, a plain account is let in only within it (AdmittedWithinLimit).
THEOREM LimitKept == Spec => AdmittedWithinLimit
<1> DEFINE Admitted ==
      LET before == ActivePlayers(m_sessions, m_QueuedPlayer)
          after == ActivePlayers(m_sessions', m_QueuedPlayer')
      IN m_playerLimit > 0 /\ stopping' # "kicked" /\ ~(after \subseteq before)
           => Cardinality(after) <= m_playerLimit
<1>1. IInv /\ FiniteList /\ [Next]_vars => [Admitted]_vars
  BY StepAdmits DEF IInv, Places
<1>2. Spec => [][Admitted]_vars
  <2> HIDE DEF Admitted
  <2> QED BY <1>1, Invariance, FinitelyMany, PTL DEF Spec
<1> QED BY <1>2 DEF AdmittedWithinLimit

\* A place that a session leaves goes to one that waits (NoPlaceLeftEmpty): no
\* step but a change of the limit makes a session wait beside a free place.
THEOREM PlacesFilled == Spec => NoPlaceLeftEmpty
<1> DEFINE Filled ==
      m_playerLimit' = m_playerLimit /\ stopping' # "kicked" /\ ~WaitsBesidePlace
        => ~WaitsBesidePlace'
<1>1. (IInv /\ FiniteList) /\ (IInv /\ FiniteList)' /\ [Next]_vars => [Filled]_vars
  BY StepFills DEF IInv, Places
<1>2. Spec => [][Filled]_vars
  <2> HIDE DEF Filled
  <2> QED BY <1>1, Invariance, FinitelyMany, PTL DEF Spec
<1> QED BY <1>2 DEF NoPlaceLeftEmpty

-----------------------------------------------------------------------------
(* Loads that are not delivered yet.                                       *)

\* Where they stand in the queue of the delay thread.
LoadsIn(db) == {i \in DOMAIN db : db[i].op = "load"}

\* Session j waits for a load, in queue db or among the answers res.
AwaitsLoad(db, res, j) ==
  \/ \E i \in LoadsIn(db) : db[i].session = j
  \/ \E i \in DOMAIN res : res[i].session = j

\* An account waits for one load at most.
LoadsOnce(db, res) ==
  /\ \A i, j \in LoadsIn(db) :
       AccountOf[db[i].session] = AccountOf[db[j].session] => i = j
  /\ \A i, j \in DOMAIN res :
       AccountOf[res[i].session] = AccountOf[res[j].session] => i = j
  /\ \A i \in LoadsIn(db), j \in DOMAIN res :
       AccountOf[db[i].session] # AccountOf[res[j].session]

\* The queues by position.
LEMMA AppendAt ==
  ASSUME NEW S, NEW q \in Seq(S), NEW e \in S
  PROVE  /\ Len(q) \in Nat /\ DOMAIN q = 1..Len(q)
         /\ DOMAIN Append(q, e) = 1..(Len(q) + 1)
         /\ \A i \in 1..Len(q) : Append(q, e)[i] = q[i]
         /\ Append(q, e)[Len(q) + 1] = e
<1>1. Len(q) \in Nat /\ DOMAIN q = 1..Len(q)
  BY LenProperties
<1>2. /\ Append(q, e) \in Seq(S) /\ Len(Append(q, e)) = Len(q) + 1
      /\ \A i \in 1..Len(q) : Append(q, e)[i] = q[i]
      /\ Append(q, e)[Len(q) + 1] = e
  BY AppendProperties
<1>3. DOMAIN Append(q, e) = 1..(Len(q) + 1)
  BY <1>2, LenProperties
<1> QED BY <1>1, <1>2, <1>3

\* The same for a queue without its first element.
LEMMA TailAt ==
  ASSUME NEW S, NEW q \in Seq(S), q # <<>>
  PROVE  /\ Len(q) \in Nat \ {0} /\ DOMAIN q = 1..Len(q) /\ q[1] = Head(q)
         /\ DOMAIN Tail(q) = 1..(Len(q) - 1)
         /\ \A i \in 1..(Len(q) - 1) : Tail(q)[i] = q[i + 1]
<1>1. Len(q) \in Nat \ {0} /\ DOMAIN q = 1..Len(q)
  BY EmptySeq, LenProperties
<1>2. /\ Tail(q) \in Seq(S) /\ Len(Tail(q)) = Len(q) - 1
      /\ \A i \in 1..Len(Tail(q)) : Tail(q)[i] = q[i + 1]
  BY HeadTailProperties
<1>3. DOMAIN Tail(q) = 1..(Len(q) - 1)
  BY <1>2, LenProperties
<1>4. q[1] = Head(q)
  BY <1>1
<1> QED BY <1>1, <1>2, <1>3, <1>4

\* Another operation behind the loads changes nothing for them.
LEMMA LoadsBeforeOther ==
  ASSUME NEW db \in Seq(DbOperation), NEW res, NEW op \in DbOperation, op.op # "load"
  PROVE  /\ LoadsOnce(db, res) => LoadsOnce(Append(db, op), res)
         /\ \A j : AwaitsLoad(Append(db, op), res, j) <=> AwaitsLoad(db, res, j)
<1> DEFINE longer == Append(db, op)
<1>1. LoadsIn(longer) = LoadsIn(db) /\ \A i \in LoadsIn(db) : longer[i] = db[i]
  BY AppendAt DEF LoadsIn
<1> HIDE DEF longer
<1>2. LoadsOnce(db, res) => LoadsOnce(longer, res)
  BY <1>1 DEF LoadsOnce
<1>3. \A j : AwaitsLoad(longer, res, j) <=> AwaitsLoad(db, res, j)
  BY <1>1 DEF AwaitsLoad
<1> QED BY <1>2, <1>3 DEF longer

\* A load is asked for, for an account that waits for none.
LEMMA LoadsBeforeLoad ==
  ASSUME NEW db \in Seq(DbOperation), NEW res, NEW op \in DbOperation, op.op = "load",
         \A j : AwaitsLoad(db, res, j) => AccountOf[j] # AccountOf[op.session]
  PROVE  /\ LoadsOnce(db, res) => LoadsOnce(Append(db, op), res)
         /\ \A j : AwaitsLoad(Append(db, op), res, j)
                     <=> AwaitsLoad(db, res, j) \/ j = op.session
<1> DEFINE n == Len(db) + 1
           longer == Append(db, op)
<1>1. /\ LoadsIn(longer) = LoadsIn(db) \cup {n} /\ n \notin LoadsIn(db)
      /\ \A i \in LoadsIn(db) : longer[i] = db[i]
      /\ longer[n] = op
  BY AppendAt DEF LoadsIn
<1>2. /\ \A i \in LoadsIn(db) : AccountOf[db[i].session] # AccountOf[op.session]
      /\ \A i \in DOMAIN res : AccountOf[res[i].session] # AccountOf[op.session]
  BY DEF AwaitsLoad
<1> HIDE DEF n, longer
<1>3. LoadsOnce(db, res) => LoadsOnce(longer, res)
  BY <1>1, <1>2 DEF LoadsOnce
<1>4. \A j : AwaitsLoad(longer, res, j) <=> AwaitsLoad(db, res, j) \/ j = op.session
  BY <1>1 DEF AwaitsLoad
<1> QED BY <1>3, <1>4 DEF longer

\* The delay thread executes another operation.
LEMMA LoadsAfterOther ==
  ASSUME NEW db \in Seq(DbOperation), NEW res, db # <<>>, Head(db).op # "load"
  PROVE  /\ LoadsOnce(db, res) => LoadsOnce(Tail(db), res)
         /\ \A j : AwaitsLoad(Tail(db), res, j) <=> AwaitsLoad(db, res, j)
<1> DEFINE rest == Tail(db)
<1>1. /\ \A i \in LoadsIn(rest) : i + 1 \in LoadsIn(db) /\ rest[i] = db[i + 1] /\ i \in Int
      /\ \A i \in LoadsIn(db) : i - 1 \in LoadsIn(rest) /\ rest[i - 1] = db[i] /\ i \in Int
  BY TailAt DEF LoadsIn
<1> HIDE DEF rest
<1>2. ASSUME LoadsOnce(db, res)
      PROVE  LoadsOnce(rest, res)
  <2>1. ASSUME NEW i \in LoadsIn(rest), NEW j \in LoadsIn(rest),
               AccountOf[rest[i].session] = AccountOf[rest[j].session]
        PROVE  i = j
    <3>1. /\ i + 1 \in LoadsIn(db) /\ j + 1 \in LoadsIn(db)
          /\ AccountOf[db[i + 1].session] = AccountOf[db[j + 1].session]
      BY <1>1, <2>1
    <3>2. i + 1 = j + 1
      BY <1>2, <3>1 DEF LoadsOnce
    <3> QED BY <1>1, <3>2
  <2>2. \A i \in LoadsIn(rest), j \in DOMAIN res :
          AccountOf[rest[i].session] # AccountOf[res[j].session]
    BY <1>1, <1>2 DEF LoadsOnce
  <2> QED BY <1>2, <2>1, <2>2 DEF LoadsOnce
<1>3. \A j : AwaitsLoad(rest, res, j) <=> AwaitsLoad(db, res, j)
  BY <1>1 DEF AwaitsLoad
<1> QED BY <1>2, <1>3 DEF rest

\* The delay thread answers a load.
LEMMA LoadsAnswered ==
  ASSUME NEW db \in Seq(DbOperation), NEW res \in Seq(Holder), NEW h \in Holder,
         db # <<>>, Head(db).op = "load", h.session = Head(db).session
  PROVE  /\ LoadsOnce(db, res) => LoadsOnce(Tail(db), Append(res, h))
         /\ \A j : AwaitsLoad(Tail(db), Append(res, h), j) <=> AwaitsLoad(db, res, j)
<1> DEFINE rest == Tail(db)
           more == Append(res, h)
           n == Len(res) + 1
<1>1. /\ \A i \in LoadsIn(rest) : /\ i + 1 \in LoadsIn(db) \ {1} /\ rest[i] = db[i + 1]
                                  /\ i \in Int
      /\ \A i \in LoadsIn(db) \ {1} : i - 1 \in LoadsIn(rest) /\ rest[i - 1] = db[i]
      /\ 1 \in LoadsIn(db) /\ db[1].session = h.session
  BY TailAt DEF LoadsIn
<1>2. /\ DOMAIN more = DOMAIN res \cup {n} /\ n \notin DOMAIN res
      /\ \A i \in DOMAIN res : more[i] = res[i]
      /\ more[n] = h
  BY AppendAt
<1> HIDE DEF rest, more, n
<1>3. ASSUME LoadsOnce(db, res)
      PROVE  LoadsOnce(rest, more)
  <2>1. ASSUME NEW i \in LoadsIn(rest), NEW j \in LoadsIn(rest),
               AccountOf[rest[i].session] = AccountOf[rest[j].session]
        PROVE  i = j
    <3>1. /\ i + 1 \in LoadsIn(db) /\ j + 1 \in LoadsIn(db)
          /\ AccountOf[db[i + 1].session] = AccountOf[db[j + 1].session]
      BY <1>1, <2>1
    <3>2. i + 1 = j + 1
      BY <1>3, <3>1 DEF LoadsOnce
    <3> QED BY <1>1, <3>2
  <2>2. \A i \in DOMAIN res : AccountOf[res[i].session] # AccountOf[h.session]
    BY <1>1, <1>3 DEF LoadsOnce
  <2>3. \A i, j \in DOMAIN more :
          AccountOf[more[i].session] = AccountOf[more[j].session] => i = j
    BY <1>2, <1>3, <2>2 DEF LoadsOnce
  <2>4. \A i \in LoadsIn(rest) : AccountOf[rest[i].session] # AccountOf[h.session]
    BY <1>1, <1>3 DEF LoadsOnce
  <2>5. \A i \in LoadsIn(rest), j \in DOMAIN more :
          AccountOf[rest[i].session] # AccountOf[more[j].session]
    BY <1>1, <1>2, <1>3, <2>4 DEF LoadsOnce
  <2> QED BY <2>1, <2>3, <2>5 DEF LoadsOnce
<1>4. \A j : AwaitsLoad(rest, more, j) <=> AwaitsLoad(db, res, j)
  BY <1>1, <1>2 DEF AwaitsLoad
<1> QED BY <1>3, <1>4 DEF rest, more

\* The world thread takes an answer.
LEMMA LoadsDelivered ==
  ASSUME NEW db, NEW res \in Seq(Holder), res # <<>>, LoadsOnce(db, res)
  PROVE  /\ LoadsOnce(db, Tail(res))
         /\ AwaitsLoad(db, res, Head(res).session)
         /\ \A j : AwaitsLoad(db, Tail(res), j)
                     <=> AwaitsLoad(db, res, j) /\ j # Head(res).session
<1> DEFINE rest == Tail(res)
           h == Head(res)
<1>1. /\ \A i \in DOMAIN rest : i + 1 \in DOMAIN res \ {1} /\ rest[i] = res[i + 1] /\ i \in Int
      /\ \A i \in DOMAIN res \ {1} : i - 1 \in DOMAIN rest /\ rest[i - 1] = res[i]
      /\ 1 \in DOMAIN res /\ res[1] = h
  BY TailAt
<1> HIDE DEF rest, h
<1>2. LoadsOnce(db, rest)
  BY <1>1 DEF LoadsOnce
<1>3. AwaitsLoad(db, res, h.session)
  BY <1>1 DEF AwaitsLoad
<1>4. /\ \A i \in LoadsIn(db) : db[i].session # h.session
      /\ \A i \in DOMAIN res \ {1} : res[i].session # h.session
  BY <1>1 DEF LoadsOnce
<1>5. \A j : AwaitsLoad(db, rest, j) <=> AwaitsLoad(db, res, j) /\ j # h.session
  BY <1>1, <1>4 DEF AwaitsLoad
<1> QED BY <1>2, <1>3, <1>5 DEF rest, h

-----------------------------------------------------------------------------
(* The invariants of the logins, under calm clients.                       *)

\* A session that has not been added is still to be.
AddingQueued == \A k \in Sessions : status[k] = "adding" => k \in Range(addSessQueue)

\* A load belongs to the session of the account that loads, or to one that is
\* gone, and then the account has no other.
LoadHasSession ==
  \A j \in Sessions : AwaitsLoad(dbQueue, resultQueue, j) =>
    \/ j \in loading /\ status[j] = "live"
    \/ /\ status[j] = "deleted"
       /\ \A k \in SameAccount(j) : status[k] \notin {"adding", "live"}

\* A session that loads does not close while another of the account is to be
\* added, but for KickAll: and then AddSession_ still refuses the other one.
LoadOutlastsAdding ==
  \A j \in Sessions : AwaitsLoad(dbQueue, resultQueue, j) =>
    \A k \in SameAccount(j) : status[k] = "adding" =>
      j \notin closing \/ (stopping = "kicked" /\ phase = "add")

LoadsInv ==
  /\ LoadsOnce(dbQueue, resultQueue)
  /\ LoadHasSession
  /\ LoadOutlastsAdding

\* Every player in the world is the one of its session, which is listed, of
\* the account that owns the character; a session has one, and none while it
\* loads.
PlayersInv ==
  /\ \A k \in loading : status[k] = "live" /\ player[k] = NoChar
  /\ \A p \in world : /\ status[p.session] = "live"
                      /\ player[p.session] = p.char
                      /\ OwnerOf[p.char] = AccountOf[p.session]
  /\ \A p, q \in world : p.session = q.session => p = q

LoginInv == AddingQueued /\ LoadsInv /\ PlayersInv

\* A logout takes the player of its session, if it has one, out of the world,
\* and queues its save and the account's offline mark.
LEMMA LogoutEffect ==
  ASSUME TypeOK, PlayersInWorld, PlayersInv, NEW k \in Sessions, LogoutPlayer(k)
  PROVE  /\ player' = [player EXCEPT ![k] = NoChar]
         /\ world' = {p \in world : p.session # k}
         /\ \/ world' = world /\ dbQueue' = dbQueue /\ player[k] = NoChar
            \/ \E p \in world :
                 /\ p.session = k /\ p.char = player[k] /\ world' = world \ {p}
                 /\ dbQueue' = Append(Append(dbQueue, [op |-> "save", char |-> p.char,
                                                       ver |-> p.ver]), Offline(k))
<1>1. player' = [player EXCEPT ![k] = NoChar] /\ world' = world \ Controlled(k)
      /\ dbQueue' = dbQueue \o LogoutOperations(k)
  BY DEF LogoutPlayer
<1>2. Controlled(k) = {p \in world : p.session = k}
  BY DEF Controlled, PlayersInv
<1>3. world' = {p \in world : p.session # k}
  BY <1>1, <1>2
<1>4. CASE player[k] = NoChar
  <2>1. Controlled(k) = {}
    BY <1>4, CharsAssumption DEF Controlled, TypeOK, Player
  <2>2. dbQueue' = dbQueue
    BY <1>1, <1>4, ConcatEmptySeq DEF LogoutOperations, TypeOK
  <2> QED BY <1>1, <1>3, <1>4, <2>1, <2>2
<1>5. CASE player[k] # NoChar
  <2>1. PICK p \in world : p.session = k /\ p.char = player[k]
    BY <1>5 DEF PlayersInWorld, Controlled
  <2>2. Controlled(k) = {p}
    BY <1>2, <2>1 DEF PlayersInv
  <2> DEFINE save == [op |-> "save", char |-> p.char, ver |-> p.ver]
  <2>3. Saved(k) = {save}
    BY <2>2 DEF Saved
  <2>4. (CHOOSE o \in Saved(k) : TRUE) = save
    BY <2>3
  <2>5. LogoutOperations(k) = <<save, Offline(k)>>
    BY <1>5, <2>4 DEF LogoutOperations
  <2>6. save \in DbOperation /\ Offline(k) \in DbOperation
    BY OperationTypes, SessionsAssumption DEF Offline, TypeOK, Player
  <2> HIDE DEF save
  <2>7. dbQueue \o <<save, Offline(k)>> = Append(Append(dbQueue, save), Offline(k))
    <3>1. dbQueue \in Seq(DbOperation) /\ Len(dbQueue) \in Nat
      BY LenProperties DEF TypeOK
    <3> DEFINE s == dbQueue \o <<save, Offline(k)>>
               t == Append(Append(dbQueue, save), Offline(k))
    <3>2. /\ s \in Seq(DbOperation) /\ Len(s) = Len(dbQueue) + 2
          /\ \A i \in 1..(Len(dbQueue) + 2) :
               s[i] = IF i <= Len(dbQueue) THEN dbQueue[i]
                      ELSE <<save, Offline(k)>>[i - Len(dbQueue)]
      BY <2>6, <3>1, ConcatProperties
    <3>3. /\ Append(dbQueue, save) \in Seq(DbOperation)
          /\ Len(Append(dbQueue, save)) = Len(dbQueue) + 1
          /\ \A i \in 1..Len(dbQueue) : Append(dbQueue, save)[i] = dbQueue[i]
          /\ Append(dbQueue, save)[Len(dbQueue) + 1] = save
      BY <2>6, <3>1, AppendProperties
    <3>4. /\ t \in Seq(DbOperation) /\ Len(t) = Len(dbQueue) + 2
          /\ \A i \in 1..(Len(dbQueue) + 1) : t[i] = Append(dbQueue, save)[i]
          /\ t[Len(dbQueue) + 2] = Offline(k)
      BY <2>6, <3>1, <3>3, AppendProperties
    <3>5. \A i \in 1..Len(s) : s[i] = t[i]
      BY <3>1, <3>2, <3>3, <3>4
    <3> HIDE DEF s, t
    <3>6. s = t
      BY <3>2, <3>4, <3>5, SeqEqual
    <3> QED BY <3>6 DEF s, t
  <2> QED BY <1>1, <1>3, <2>1, <2>2, <2>5, <2>7 DEF save
<1> QED BY <1>4, <1>5

\* A logout leaves the loads as they are.
LEMMA LogoutLoads ==
  ASSUME TypeOK, PlayersInWorld, PlayersInv, NEW k \in Sessions, LogoutPlayer(k),
         UNCHANGED resultQueue
  PROVE  /\ LoadsOnce(dbQueue, resultQueue) => LoadsOnce(dbQueue, resultQueue)'
         /\ \A j : AwaitsLoad(dbQueue', resultQueue', j) <=> AwaitsLoad(dbQueue, resultQueue, j)
<1>1. CASE dbQueue' = dbQueue
  BY <1>1
<1>2. CASE dbQueue' # dbQueue
  <2> DEFINE save(p) == [op |-> "save", char |-> p.char, ver |-> p.ver]
  <2>1. PICK p \in world : dbQueue' = Append(Append(dbQueue, save(p)), Offline(k))
    BY <1>2, LogoutEffect
  <2>2. /\ save(p) \in DbOperation /\ Offline(k) \in DbOperation
        /\ save(p).op # "load" /\ Offline(k).op # "load"
    BY OperationTypes, SessionsAssumption DEF Offline, TypeOK, Player
  <2> HIDE DEF save
  <2> DEFINE saved == Append(dbQueue, save(p))
  <2>3. /\ saved \in Seq(DbOperation)
        /\ LoadsOnce(dbQueue, resultQueue) => LoadsOnce(saved, resultQueue)
        /\ \A j : AwaitsLoad(saved, resultQueue, j) <=> AwaitsLoad(dbQueue, resultQueue, j)
    BY <2>2, LoadsBeforeOther, AppendProperties DEF TypeOK
  <2> HIDE DEF saved
  <2>4. /\ LoadsOnce(saved, resultQueue) => LoadsOnce(dbQueue', resultQueue)
        /\ \A j : AwaitsLoad(dbQueue', resultQueue, j) <=> AwaitsLoad(saved, resultQueue, j)
    BY <2>1, <2>2, <2>3, LoadsBeforeOther DEF saved
  <2> QED BY <2>3, <2>4
<1> QED BY <1>1, <1>2

\* The queue of the delay thread grows by an operation that is no load.
LEMMA AppendLoads ==
  ASSUME TypeOK, NEW op \in DbOperation, op.op # "load",
         dbQueue' = Append(dbQueue, op), UNCHANGED resultQueue
  PROVE  /\ LoadsOnce(dbQueue, resultQueue) => LoadsOnce(dbQueue, resultQueue)'
         /\ \A j : AwaitsLoad(dbQueue', resultQueue', j) <=> AwaitsLoad(dbQueue, resultQueue, j)
BY LoadsBeforeOther DEF TypeOK

\* The delay thread leaves the loads with those who wait for them.
LEMMA DelayLoads ==
  ASSUME TypeOK, DelayThread
  PROVE  /\ LoadsOnce(dbQueue, resultQueue) => LoadsOnce(dbQueue, resultQueue)'
         /\ \A j : AwaitsLoad(dbQueue', resultQueue', j) <=> AwaitsLoad(dbQueue, resultQueue, j)
<1> DEFINE op == Head(dbQueue)
<1>1. dbQueue # <<>> /\ dbQueue' = Tail(dbQueue) /\ Perform(op)
  BY DEF DelayThread
<1>2. op \in DbOperation /\ dbQueue \in Seq(DbOperation) /\ resultQueue \in Seq(Holder)
  BY <1>1, HeadTailProperties DEF TypeOK
<1> HIDE DEF op
<1>3. CASE op.op # "load"
  <2>1. resultQueue' = resultQueue
    BY <1>1, <1>3 DEF Perform
  <2> QED BY <1>1, <1>2, <1>3, <2>1, LoadsAfterOther DEF op
<1>4. CASE op.op = "load"
  <2>1. resultQueue' = Append(resultQueue, Answer(op))
    BY <1>1, <1>4 DEF Perform
  <2>2. op.char \in Chars /\ op.session \in Sessions
    BY <1>2, <1>4 DEF DbOperation
  <2>3. Answer(op) \in Holder /\ Answer(op).session = op.session
    BY <2>2 DEF Answer, Holder, TypeOK
  <2> QED BY <1>1, <1>2, <1>4, <2>1, <2>3, LoadsAnswered DEF op
<1> QED BY <1>3, <1>4

\* A session that is to be added stays in addSessQueue until it is.
LEMMA StepAdding ==
  ASSUME TypeOK, Places, AddingQueued, Next
  PROVE  AddingQueued'
<1> USE DEF sessionVars, packetFrame
<1>1. CASE UNCHANGED <<status, addSessQueue>>
  BY <1>1 DEF AddingQueued
<1>2. ASSUME NEW k \in Sessions, HandleAuthSession(k) PROVE AddingQueued'
  <2>1. /\ status' = [status EXCEPT ![k] = "adding"]
        /\ addSessQueue' = Append(addSessQueue, k) /\ status[k] = "none"
    BY <1>2 DEF HandleAuthSession
  <2>2. k \notin Range(addSessQueue)
    BY <2>1 DEF Places, NoDeletedSession
  <2>3. Range(addSessQueue') = Range(addSessQueue) \cup {k}
    BY <2>1, <2>2, QueueAppend DEF TypeOK, Places, NoDeletedSession
  <2> QED BY <2>1, <2>3 DEF AddingQueued, TypeOK
<1>3. ASSUME addSessQueue # <<>>, addSessQueue' = Tail(addSessQueue),
             LET k == Head(addSessQueue)
             IN /\ status'[k] # "adding"
                /\ \A j \in Sessions \ {k} : status'[j] = "adding" => status[j] = "adding"
      PROVE  AddingQueued'
  <2>1. Range(addSessQueue') = Range(addSessQueue) \ {Head(addSessQueue)}
    BY <1>3, QueueTail DEF TypeOK, Places, NoDeletedSession
  <2> QED BY <1>3, <2>1 DEF AddingQueued
<1>4. CASE AddSessionRefused
  <2> DEFINE k == Head(addSessQueue)
  <2>1. addSessQueue # <<>> /\ addSessQueue' = Tail(addSessQueue)
        /\ status' = [status EXCEPT ![k] = "deleted"]
    BY <1>4 DEF AddSessionRefused
  <2>2. k \in Sessions
    BY <2>1, NextAdded
  <2> HIDE DEF k
  <2>3. status'[k] # "adding"
        /\ \A j \in Sessions \ {k} : status'[j] = "adding" => status[j] = "adding"
    BY <2>1, <2>2 DEF TypeOK
  <2> QED BY <1>3, <2>1, <2>3 DEF k
<1>5. CASE AddSessionNew
  <2> DEFINE k == Head(addSessQueue)
  <2>1. addSessQueue # <<>> /\ addSessQueue' = Tail(addSessQueue)
        /\ status' = [status EXCEPT ![k] = "live"]
    BY <1>5 DEF AddSessionNew
  <2>2. k \in Sessions
    BY <2>1, NextAdded
  <2> HIDE DEF k
  <2>3. status'[k] # "adding"
        /\ \A j \in Sessions \ {k} : status'[j] = "adding" => status[j] = "adding"
    BY <2>1, <2>2 DEF TypeOK
  <2> QED BY <1>3, <2>1, <2>3 DEF k
<1>6. CASE AddSessionReplaces
  <2> DEFINE k == Head(addSessQueue)
             old == m_sessions[AccountOf[k]]
  <2>1. addSessQueue # <<>> /\ addSessQueue' = Tail(addSessQueue)
        /\ status' = [status EXCEPT ![old] = "deleted", ![k] = "live"]
    BY <1>6 DEF AddSessionReplaces
  <2>2. k \in Sessions
    BY <2>1, NextAdded
  <2> HIDE DEF k, old
  <2>3. status'[k] # "adding"
        /\ \A j \in Sessions \ {k} : status'[j] = "adding" => status[j] = "adding"
    BY <2>1, <2>2 DEF TypeOK
  <2> QED BY <1>3, <2>1, <2>3 DEF k
<1>7. CASE FinishClosed
  <2>1. status' = [status EXCEPT ![m_sessions[updating]] = "deleted"]
        /\ addSessQueue' = addSessQueue
    BY <1>7 DEF FinishClosed
  <2>2. \A j \in Sessions : status'[j] = "adding" => status[j] = "adding"
    BY <2>1 DEF TypeOK
  <2> QED BY <2>1, <2>2 DEF AddingQueued
<1>8. CASE Input /\ \A k \in Sessions : ~HandleAuthSession(k)
  BY <1>1, <1>8 DEF Input, CloseSocket, HandlePlayerLoginOpcode,
      HandleCharDeleteOpcode, HandleLogoutRequestOpcode, HandleLogoutCancelOpcode,
      Play, AutoSave, KickPlayer, HandleServerPLimitCommand, StopNow
<1>9. CASE \/ BeginUpdates \/ (\E a \in Accounts : NextSession(a))
           \/ FinishOpen \/ EndUpdates \/ EndMaps \/ HandlePlayerLoginCallback
           \/ EndResults \/ EndCommands \/ KickAll \/ DelayThread
  BY <1>1, <1>9 DEF BeginUpdates, NextSession, FinishOpen, EndUpdates, EndMaps,
      HandlePlayerLoginCallback, EndResults, EndCommands, KickAll, DelayThread
<1> QED
  BY <1>2, <1>4, <1>5, <1>6, <1>7, <1>8, <1>9 DEF Next, WorldThread

\* The loads, when nothing that concerns them changes.
LEMMA LoadsFrame ==
  ASSUME LoadsInv, UNCHANGED <<status, loading, closing>>,
         LoadsOnce(dbQueue, resultQueue)',
         \A j : AwaitsLoad(dbQueue', resultQueue', j) <=> AwaitsLoad(dbQueue, resultQueue, j),
         \/ stopping = "kicked" /\ phase = "add" => stopping' = "kicked" /\ phase' = "add"
         \/ \A k \in Sessions : status[k] # "adding"
  PROVE  LoadsInv'
<1>1. LoadHasSession'
  BY DEF LoadsInv, LoadHasSession, SameAccount
<1>2. LoadOutlastsAdding'
  BY DEF LoadsInv, LoadOutlastsAdding, SameAccount
<1> QED BY <1>1, <1>2 DEF LoadsInv

\* A client that connects or closes is calm, and so are the commands.
LEMMA CalmLoads ==
  ASSUME CalmClients, TypeOK, Places, LoginInv, NEW k \in Sessions,
         HandleAuthSession(k) \/ CloseSocket(k)
  PROVE  LoadsInv'
<1>1. UNCHANGED <<dbQueue, resultQueue, loading, stopping, phase>>
  BY DEF HandleAuthSession, CloseSocket, playerVars, dbVars, loopVars
<1>2. \A j : AwaitsLoad(dbQueue', resultQueue', j) <=> AwaitsLoad(dbQueue, resultQueue, j)
  BY <1>1
<1>3. LoadsOnce(dbQueue, resultQueue)'
  BY <1>1 DEF LoginInv, LoadsInv
<1>4. CASE HandleAuthSession(k)
  <2>1. /\ status' = [status EXCEPT ![k] = "adding"] /\ closing' = closing
        /\ status[k] = "none"
    BY <1>4 DEF HandleAuthSession
  <2>2. \A j \in SameAccount(k) : Unanswered(j) => j \in loading \ closing
    BY <1>4 DEF HandleAuthSession, CalmConnect
  <2>3. \A j \in SameAccount(k) :
          AwaitsLoad(dbQueue, resultQueue, j) => j \in loading \ closing
    BY <2>2 DEF Unanswered, AwaitsLoad, LoadsIn
  <2>4. \A j \in Sessions : k \in SameAccount(j) => j \in SameAccount(k)
    BY DEF SameAccount
  <2>5. \A j \in loading : status[j] = "live"
    BY DEF LoginInv, PlayersInv
  <2>6. LoadHasSession'
    <3> SUFFICES ASSUME NEW j \in Sessions, AwaitsLoad(dbQueue, resultQueue, j)
                 PROVE  \/ j \in loading' /\ status'[j] = "live"
                        \/ /\ status'[j] = "deleted"
                           /\ \A i \in SameAccount(j) : status'[i] \notin {"adding", "live"}
      BY <1>2 DEF LoadHasSession, SameAccount
    <3>1. \/ j \in loading /\ status[j] = "live"
          \/ /\ status[j] = "deleted"
             /\ \A i \in SameAccount(j) : status[i] \notin {"adding", "live"}
      BY DEF LoginInv, LoadsInv, LoadHasSession
    <3>2. j # k
      BY <2>1, <3>1
    <3>3. k \in SameAccount(j) => status[j] = "live"
      BY <2>3, <2>4, <2>5
    <3> QED BY <1>1, <2>1, <3>1, <3>2, <3>3 DEF TypeOK, SameAccount
  <2>7. LoadOutlastsAdding'
    <3> SUFFICES ASSUME NEW j \in Sessions, AwaitsLoad(dbQueue, resultQueue, j),
                        NEW i \in SameAccount(j), status'[i] = "adding"
                 PROVE  j \notin closing' \/ (stopping' = "kicked" /\ phase' = "add")
      BY <1>2 DEF LoadOutlastsAdding, SameAccount
    <3>1. CASE i = k
      BY <2>1, <2>3, <2>4, <3>1
    <3>2. CASE i # k
      <4>1. status[i] = "adding"
        BY <2>1, <3>2 DEF TypeOK, SameAccount
      <4> QED BY <1>1, <2>1, <4>1 DEF LoginInv, LoadsInv, LoadOutlastsAdding
    <3> QED BY <3>1, <3>2
  <2> QED BY <1>3, <2>6, <2>7 DEF LoadsInv
<1>5. CASE CloseSocket(k)
  <2>1. status' = status /\ closing' = closing \cup {k} /\ CalmClose(k)
    BY <1>5 DEF CloseSocket
  <2>2. LoadHasSession'
    BY <1>1, <1>2, <2>1 DEF LoginInv, LoadsInv, LoadHasSession, SameAccount
  <2>3. LoadOutlastsAdding'
    <3> SUFFICES ASSUME NEW j \in Sessions, AwaitsLoad(dbQueue, resultQueue, j),
                        NEW i \in SameAccount(j), status[i] = "adding"
                 PROVE  j \notin closing' \/ (stopping' = "kicked" /\ phase' = "add")
      BY <1>2, <2>1 DEF LoadOutlastsAdding, SameAccount
    <3>1. j \in loading
      BY DEF LoginInv, LoadsInv, LoadHasSession
    <3>2. j # k
      BY <2>1, <3>1 DEF CalmClose
    <3> QED BY <1>1, <2>1, <3>2 DEF LoginInv, LoadsInv, LoadOutlastsAdding
  <2> QED BY <1>3, <2>2, <2>3 DEF LoadsInv
<1> QED BY <1>4, <1>5

\* A kick, by a command: as calm as a client.
LEMMA KickLoads ==
  ASSUME CalmClients, TypeOK, Places, LoginInv, NEW a \in Accounts, KickPlayer(a)
  PROVE  LoadsInv'
<1> DEFINE k == m_sessions[a]
<1>1. /\ UNCHANGED <<dbQueue, resultQueue, loading, stopping, phase, status>>
      /\ closing' = closing \cup {k} /\ CalmClose(k) /\ k # NoSession
  BY DEF KickPlayer, playerVars, dbVars, loopVars
<1>2. \A j : AwaitsLoad(dbQueue', resultQueue', j) <=> AwaitsLoad(dbQueue, resultQueue, j)
  BY <1>1
<1> HIDE DEF k
<1>3. LoadHasSession'
  BY <1>1, <1>2 DEF LoginInv, LoadsInv, LoadHasSession, SameAccount
<1>4. LoadOutlastsAdding'
  <2> SUFFICES ASSUME NEW j \in Sessions, AwaitsLoad(dbQueue, resultQueue, j),
                      NEW i \in SameAccount(j), status[i] = "adding"
               PROVE  j \notin closing' \/ (stopping' = "kicked" /\ phase' = "add")
    BY <1>1, <1>2 DEF LoadOutlastsAdding, SameAccount
  <2>1. j \in loading
    BY DEF LoginInv, LoadsInv, LoadHasSession
  <2>2. j # k
    BY <1>1, <2>1 DEF CalmClose
  <2> QED BY <1>1, <2>2 DEF LoginInv, LoadsInv, LoadOutlastsAdding
<1> QED BY <1>1, <1>3, <1>4 DEF LoginInv, LoadsInv

\* A new limit kicks nobody: an amount limit asks for no security.
LEMMA LimitKicksNobody ==
  ASSUME TypeOK, NEW limit \in Limits, HandleServerPLimitCommand(limit)
  PROVE  closing' = closing
<1>1. limit \in Int
  BY LimitAssumption
<1>2. CASE limit > 0
  <2>1. \A b \in Listed : ~(Security[b] < 0)
    BY SessionsAssumption DEF Listed
  <2>2. {b \in Listed : Security[b] < 0} = {}
    BY <2>1
  <2>3. closing' = closing \cup {m_sessions[a] : a \in {b \in Listed : Security[b] < 0}}
    BY <1>1, <1>2 DEF HandleServerPLimitCommand
  <2> QED BY <2>2, <2>3
<1>3. CASE ~(limit > 0)
  BY <1>1, <1>3 DEF HandleServerPLimitCommand
<1> QED BY <1>2, <1>3

\* KickAll closes sessions that load, and AddSession_ refuses the others then.
LEMMA KickAllLoads ==
  ASSUME LoginInv, KickAll
  PROVE  LoadsInv'
<1>1. /\ UNCHANGED <<dbQueue, resultQueue, loading, status>>
      /\ stopping' = "kicked" /\ phase' = "add"
  BY DEF KickAll, playerVars, dbVars
<1>2. \A j : AwaitsLoad(dbQueue', resultQueue', j) <=> AwaitsLoad(dbQueue, resultQueue, j)
  BY <1>1
<1>3. LoadHasSession'
  BY <1>1, <1>2 DEF LoginInv, LoadsInv, LoadHasSession, SameAccount
<1>4. LoadOutlastsAdding'
  BY <1>1 DEF LoadOutlastsAdding
<1> QED BY <1>1, <1>3, <1>4 DEF LoginInv, LoadsInv

\* A client asks for a character while its account waits for none.
LEMMA AskLoads ==
  ASSUME TypeOK, Places, LoginInv, NEW k \in Sessions, NEW c \in Chars,
         HandlePlayerLoginOpcode(k, c)
  PROVE  LoadsInv'
<1> DEFINE op == [op |-> "load", char |-> c, session |-> k]
<1>1. /\ phase = "update" /\ updating # NoAccount
      /\ k = m_sessions[updating] /\ k \notin closing /\ k \notin loading
      /\ loading' = loading \cup {k} /\ dbQueue' = Append(dbQueue, op)
      /\ UNCHANGED <<status, closing, resultQueue, stopping, phase>>
  BY DEF HandlePlayerLoginOpcode, Handles, packetFrame, sessionVars, loopVars
<1>2. status[k] = "live"
  BY <1>1 DEF Places, UpdatesListed, NoDeletedSession, Listed
<1>3. op \in DbOperation /\ op.op = "load" /\ op.session = k
  BY OperationTypes
<1> HIDE DEF op
<1>4. \A i \in DOMAIN dbQueue : dbQueue[i].op = "load" => dbQueue[i].session \in Sessions
  <2>1. \A i \in DOMAIN dbQueue : dbQueue[i] \in DbOperation
    BY ElementOfSeq, LenProperties DEF TypeOK
  <2>2. \A o \in DbOperation : o.op = "load" => o.session \in Sessions
    BY DEF DbOperation
  <2> QED BY <2>1, <2>2
<1>5. \A i \in DOMAIN resultQueue : resultQueue[i].session \in Sessions
  <2>1. \A i \in DOMAIN resultQueue : resultQueue[i] \in Holder
    BY ElementOfSeq, LenProperties DEF TypeOK
  <2>2. \A h \in Holder : h.session \in Sessions
    BY DEF Holder
  <2> QED BY <2>1, <2>2
<1>6. \A j : AwaitsLoad(dbQueue, resultQueue, j) => j \in Sessions
  BY <1>4, <1>5 DEF AwaitsLoad, LoadsIn
<1>7. ASSUME NEW j, AwaitsLoad(dbQueue, resultQueue, j)
      PROVE  AccountOf[j] # AccountOf[k]
  <2>1. j \in Sessions
    BY <1>6, <1>7
  <2>2. CASE j \in loading /\ status[j] = "live"
    BY <1>1, <1>2, <2>1, <2>2 DEF Places, NoDeletedSession
  <2>3. CASE /\ status[j] = "deleted"
             /\ \A i \in SameAccount(j) : status[i] \notin {"adding", "live"}
    BY <1>2, <2>1, <2>3 DEF SameAccount
  <2> QED BY <1>7, <2>1, <2>2, <2>3 DEF LoginInv, LoadsInv, LoadHasSession
<1>8. /\ LoadsOnce(dbQueue, resultQueue)'
      /\ \A j : AwaitsLoad(dbQueue', resultQueue', j)
                  <=> AwaitsLoad(dbQueue, resultQueue, j) \/ j = k
  BY <1>1, <1>3, <1>7, LoadsBeforeLoad DEF TypeOK, LoginInv, LoadsInv
<1>9. LoadHasSession'
  BY <1>1, <1>2, <1>8 DEF LoginInv, LoadsInv, LoadHasSession, SameAccount
<1>10. LoadOutlastsAdding'
  BY <1>1, <1>8 DEF LoginInv, LoadsInv, LoadOutlastsAdding, SameAccount
<1> QED BY <1>8, <1>9, <1>10 DEF LoadsInv

\* A session that is refused waits for no load.
LEMMA RefusedLoads ==
  ASSUME TypeOK, Places, LoginInv, AddSessionRefused
  PROVE  LoadsInv'
<1> DEFINE k == Head(addSessQueue)
<1>1. /\ addSessQueue # <<>> /\ phase = "add"
      /\ closing' = closing \cup {k} /\ status' = [status EXCEPT ![k] = "deleted"]
      /\ UNCHANGED <<dbQueue, resultQueue, loading, stopping, phase>>
  BY DEF AddSessionRefused, playerVars, dbVars, loopVars
<1>2. k \in Sessions /\ status[k] = "adding"
  BY <1>1, NextAdded
<1> HIDE DEF k
<1>3. \A j : AwaitsLoad(dbQueue', resultQueue', j) <=> AwaitsLoad(dbQueue, resultQueue, j)
  BY <1>1
<1>4. \A j \in Sessions : AwaitsLoad(dbQueue, resultQueue, j) => j # k
  BY <1>2 DEF LoginInv, LoadsInv, LoadHasSession
<1>5. /\ \A j \in Sessions \ {k} : status'[j] = status[j]
      /\ status'[k] = "deleted"
  BY <1>1, <1>2 DEF TypeOK
<1>6. LoadHasSession'
  BY <1>1, <1>3, <1>4, <1>5 DEF LoginInv, LoadsInv, LoadHasSession, SameAccount
<1>7. LoadOutlastsAdding'
  BY <1>1, <1>3, <1>4, <1>5 DEF LoginInv, LoadsInv, LoadOutlastsAdding, SameAccount
<1> QED BY <1>1, <1>6, <1>7 DEF LoginInv, LoadsInv

\* A session is added while its account waits for no load.
LEMMA AddedLoads ==
  ASSUME TypeOK, Places, LoginInv, PlayersInWorld, AddSessionNew \/ AddSessionReplaces
  PROVE  LoadsInv'
<1> DEFINE k == Head(addSessQueue)
           a == AccountOf[k]
           old == m_sessions[a]
<1>1. /\ addSessQueue # <<>> /\ phase = "add" /\ (old \notin loading \/ old = NoSession)
      /\ UNCHANGED <<resultQueue, loading, stopping, phase>>
      /\ closing' \subseteq closing \cup {old}
      /\ status' = [status EXCEPT ![k] = "live"]
           \/ status' = [status EXCEPT ![old] = "deleted", ![k] = "live"]
  BY DEF AddSessionNew, AddSessionReplaces, playerVars, dbVars, loopVars
<1>2. k \in Sessions /\ status[k] = "adding" /\ a \in Accounts
  BY <1>1, NextAdded DEF AddSessionNew, AddSessionReplaces
<1>3. old # NoSession => old \in Sessions /\ AccountOf[old] = a /\ status[old] = "live"
  BY <1>2 DEF TypeOK, Places, NoDeletedSession, Listed
<1>4. /\ LoadsOnce(dbQueue, resultQueue)'
      /\ \A j : AwaitsLoad(dbQueue', resultQueue', j) <=> AwaitsLoad(dbQueue, resultQueue, j)
  <2>1. CASE AddSessionNew
    BY <2>1 DEF AddSessionNew, dbVars, LoginInv, LoadsInv
  <2>2. CASE AddSessionReplaces
    <3>1. LogoutPlayer(old) /\ old # NoSession
      BY <2>2 DEF AddSessionReplaces
    <3> HIDE DEF old
    <3> QED BY <1>1, <1>3, <3>1, LogoutLoads DEF LoginInv, LoadsInv
  <2> QED BY <2>1, <2>2
<1>5. old \notin loading
  <2>1. NoSession \notin loading
    BY SessionsAssumption DEF TypeOK
  <2> QED BY <1>1, <2>1 DEF AddSessionNew, AddSessionReplaces
<1>6. ASSUME NEW j \in Sessions, AwaitsLoad(dbQueue, resultQueue, j)
      PROVE  AccountOf[j] # a
  <2>1. CASE j \in loading /\ status[j] = "live"
    BY <1>5, <2>1 DEF Places, NoDeletedSession
  <2>2. CASE /\ status[j] = "deleted"
             /\ \A i \in SameAccount(j) : status[i] \notin {"adding", "live"}
    BY <1>2, <2>2 DEF SameAccount
  <2> QED BY <1>6, <2>1, <2>2 DEF LoginInv, LoadsInv, LoadHasSession
<1> HIDE DEF k, old
<1>7. \A j \in Sessions : AccountOf[j] # a => status'[j] = status[j]
  <2>1. \A j \in Sessions : AccountOf[j] # a => j # k
    BY DEF a
  <2>2. \A j \in Sessions : AccountOf[j] # a => j # old
    BY <1>3, SessionsAssumption
  <2> HIDE DEF a
  <2> QED BY <1>1, <2>1, <2>2 DEF TypeOK
<1>8. \A j \in Sessions : AccountOf[j] # a /\ j \in closing' => j \in closing
  BY <1>1, <1>3, SessionsAssumption
<1> HIDE DEF a
<1>9. LoadHasSession'
  BY <1>1, <1>4, <1>6, <1>7 DEF LoginInv, LoadsInv, LoadHasSession, SameAccount
<1>10. LoadOutlastsAdding'
  BY <1>1, <1>4, <1>6, <1>7, <1>8 DEF LoginInv, LoadsInv, LoadOutlastsAdding, SameAccount
<1> QED BY <1>4, <1>9, <1>10 DEF LoadsInv

\* A session that is removed while it loads leaves its account with none.
LEMMA ClosedLoads ==
  ASSUME TypeOK, Places, LoginInv, PlayersInWorld, FinishClosed
  PROVE  LoadsInv'
<1> DEFINE k == m_sessions[updating]
<1>1. /\ phase = "update" /\ updating # NoAccount /\ k \in closing
      /\ LogoutPlayer(k)
      /\ status' = [status EXCEPT ![k] = "deleted"] /\ loading' = loading \ {k}
      /\ UNCHANGED <<closing, resultQueue, stopping, phase>>
  BY DEF FinishClosed
<1>2. k \in Sessions /\ status[k] = "live"
  BY <1>1 DEF TypeOK, Places, UpdatesListed, NoDeletedSession, Listed
<1> HIDE DEF k
<1>3. /\ LoadsOnce(dbQueue, resultQueue)'
      /\ \A j : AwaitsLoad(dbQueue', resultQueue', j) <=> AwaitsLoad(dbQueue, resultQueue, j)
  BY <1>1, <1>2, LogoutLoads DEF LoginInv, LoadsInv
<1>4. /\ \A j \in Sessions \ {k} : status'[j] = status[j]
      /\ status'[k] = "deleted"
  BY <1>1, <1>2 DEF TypeOK
<1>5. LoadHasSession'
  <2> SUFFICES ASSUME NEW j \in Sessions, AwaitsLoad(dbQueue, resultQueue, j)
               PROVE  \/ j \in loading' /\ status'[j] = "live"
                      \/ /\ status'[j] = "deleted"
                         /\ \A i \in SameAccount(j) : status'[i] \notin {"adding", "live"}
    BY <1>3 DEF LoadHasSession, SameAccount
  <2>1. CASE j = k
    <3>1. \A i \in SameAccount(k) : status[i] # "live"
      BY <1>2 DEF SameAccount, Places, NoDeletedSession
    <3>2. \A i \in SameAccount(k) : status[i] # "adding"
      BY <1>1, <1>2, <2>1 DEF LoginInv, LoadsInv, LoadOutlastsAdding
    <3> QED BY <1>4, <2>1, <3>1, <3>2 DEF SameAccount
  <2>2. CASE j # k
    BY <1>1, <1>4, <2>2 DEF LoginInv, LoadsInv, LoadHasSession, SameAccount
  <2> QED BY <2>1, <2>2
<1>6. LoadOutlastsAdding'
  BY <1>1, <1>3, <1>4 DEF LoginInv, LoadsInv, LoadOutlastsAdding, SameAccount
<1> QED BY <1>3, <1>5, <1>6 DEF LoadsInv

\* An answer is given to the session that asked for it, if it is still there.
LEMMA CallbackSession ==
  ASSUME TypeOK, Places, LoginInv, HandlePlayerLoginCallback
  PROVE  LET holder == Head(resultQueue)
             k == m_sessions[AccountOf[holder.session]]
         IN /\ holder \in Holder /\ resultQueue # <<>>
            /\ AwaitsLoad(dbQueue, resultQueue, holder.session)
            /\ k # NoSession => /\ k = holder.session /\ k \in Sessions
                                /\ k \in loading /\ status[k] = "live"
<1> DEFINE holder == Head(resultQueue)
           j == holder.session
           k == m_sessions[AccountOf[j]]
<1>1. holder \in Holder /\ resultQueue # <<>> /\ j \in Sessions /\ AccountOf[j] \in Accounts
  <2>1. resultQueue # <<>> /\ resultQueue \in Seq(Holder)
    BY DEF HandlePlayerLoginCallback, TypeOK
  <2>2. holder \in Holder
    BY <2>1, HeadTailProperties
  <2> HIDE DEF holder
  <2>3. j \in Sessions
    BY <2>2 DEF Holder
  <2> QED BY <2>1, <2>2, <2>3, SessionsAssumption
<1>2. AwaitsLoad(dbQueue, resultQueue, j)
  BY <1>1, LoadsDelivered DEF LoginInv, LoadsInv, TypeOK
<1>3. k # NoSession => k \in Sessions /\ status[k] = "live" /\ AccountOf[k] = AccountOf[j]
  BY <1>1 DEF TypeOK, Places, NoDeletedSession, Listed
<1> HIDE DEF holder
<1>4. CASE j \in loading /\ status[j] = "live"
  BY <1>1, <1>2, <1>4 DEF holder, Places, NoDeletedSession
<1>5. CASE /\ status[j] = "deleted"
           /\ \A i \in SameAccount(j) : status[i] \notin {"adding", "live"}
  BY <1>1, <1>2, <1>3, <1>5 DEF holder, SameAccount
<1> QED BY <1>1, <1>2, <1>4, <1>5 DEF LoginInv, LoadsInv, LoadHasSession

\* An answer that is delivered ends the loading of the session that asked.
LEMMA CallbackLoads ==
  ASSUME TypeOK, Places, LoginInv, HandlePlayerLoginCallback
  PROVE  LoadsInv'
<1> DEFINE holder == Head(resultQueue)
           j == holder.session
           k == m_sessions[AccountOf[j]]
           online == [op |-> "online", char |-> holder.char]
<1>1. /\ holder \in Holder /\ resultQueue # <<>>
      /\ AwaitsLoad(dbQueue, resultQueue, j)
      /\ k # NoSession => k = j /\ k \in Sessions /\ k \in loading /\ status[k] = "live"
  BY CallbackSession
<1>2. /\ resultQueue' = Tail(resultQueue)
      /\ UNCHANGED <<status, stopping, phase>>
      /\ \/ UNCHANGED <<closing, loading, dbQueue>>
         \/ /\ k # NoSession /\ closing' \in {closing, closing \cup {k}}
            /\ loading' = loading \ {k}
            /\ dbQueue' = dbQueue \/ dbQueue' = Append(dbQueue, online)
  BY DEF HandlePlayerLoginCallback, playerVars, loopVars
<1>3. online \in DbOperation /\ online.op # "load"
  <2>1. holder.char \in Chars
    BY <1>1 DEF Holder
  <2> QED BY <2>1 DEF DbOperation
<1>4. resultQueue \in Seq(Holder) /\ dbQueue \in Seq(DbOperation)
  BY DEF TypeOK
<1> HIDE DEF holder, k, online
<1>5. /\ LoadsOnce(dbQueue, resultQueue')
      /\ \A i : AwaitsLoad(dbQueue, resultQueue', i)
                  <=> AwaitsLoad(dbQueue, resultQueue, i) /\ i # j
  BY <1>1, <1>2, <1>4, LoadsDelivered DEF LoginInv, LoadsInv, holder
<1>6. /\ LoadsOnce(dbQueue', resultQueue')
      /\ \A i : AwaitsLoad(dbQueue', resultQueue', i) <=> AwaitsLoad(dbQueue, resultQueue', i)
  <2>1. CASE dbQueue' = dbQueue
    BY <1>5, <2>1
  <2>2. CASE dbQueue' = Append(dbQueue, online)
    BY <1>3, <1>4, <1>5, <2>2, LoadsBeforeOther
  <2> QED BY <1>2, <2>1, <2>2
<1>7. \A i : AwaitsLoad(dbQueue', resultQueue', i)
               <=> AwaitsLoad(dbQueue, resultQueue, i) /\ i # j
  BY <1>5, <1>6
<1>8. /\ \A i \in Sessions : i # j => (i \in loading' <=> i \in loading)
      /\ \A i \in Sessions : i # j => (i \in closing' <=> i \in closing)
  BY <1>1, <1>2
<1> HIDE DEF j
<1>9. LoadHasSession'
  BY <1>2, <1>7, <1>8 DEF LoginInv, LoadsInv, LoadHasSession, SameAccount
<1>10. LoadOutlastsAdding'
  BY <1>2, <1>7, <1>8 DEF LoginInv, LoadsInv, LoadOutlastsAdding, SameAccount
<1> QED BY <1>6, <1>9, <1>10 DEF LoadsInv

\* A logout while the session stays, asked for or due.
LEMMA LogsOutLoads ==
  ASSUME TypeOK, PlayersInWorld, LoginInv, NEW k \in Sessions, LogoutPlayer(k),
         UNCHANGED <<status, loading, closing, stopping, phase, resultQueue>>
  PROVE  LoadsInv'
<1>1. /\ LoadsOnce(dbQueue, resultQueue)'
      /\ \A j : AwaitsLoad(dbQueue', resultQueue', j) <=> AwaitsLoad(dbQueue, resultQueue, j)
  BY LogoutLoads DEF LoginInv, LoadsInv
<1> QED BY <1>1, LoadsFrame DEF LoginInv

\* Every step keeps the loads apart, when the clients are calm.
LEMMA StepLoads ==
  ASSUME CalmClients, TypeOK, Places, PlayersInWorld, LoginInv, Next
  PROVE  LoadsInv'
<1> USE DEF sessionVars, queueVars, loopVars, playerVars, dbVars, packetFrame
<1>1. LoadsInv
  BY DEF LoginInv
<1>2. CASE UNCHANGED <<dbQueue, resultQueue, status, loading, closing, stopping, phase>>
  <2>1. LoadsOnce(dbQueue, resultQueue)'
        /\ \A j : AwaitsLoad(dbQueue', resultQueue', j) <=> AwaitsLoad(dbQueue, resultQueue, j)
    BY <1>1, <1>2 DEF LoadsInv
  <2> QED BY <1>1, <1>2, <2>1, LoadsFrame
<1>3. CASE Input
  <2>1. ASSUME NEW k \in Sessions, HandleAuthSession(k) \/ CloseSocket(k) PROVE LoadsInv'
    BY <2>1, CalmLoads
  <2>2. ASSUME NEW k \in Sessions, NEW c \in Chars, HandlePlayerLoginOpcode(k, c)
        PROVE  LoadsInv'
    BY <2>2, AskLoads
  <2>3. ASSUME NEW op \in DbOperation, op.op # "load", dbQueue' = Append(dbQueue, op),
               UNCHANGED <<resultQueue, status, loading, closing, stopping, phase>>
        PROVE  LoadsInv'
    <3>1. LoadsOnce(dbQueue, resultQueue)'
          /\ \A j : AwaitsLoad(dbQueue', resultQueue', j) <=> AwaitsLoad(dbQueue, resultQueue, j)
      BY <1>1, <2>3, AppendLoads DEF LoadsInv
    <3> QED BY <1>1, <2>3, <3>1, LoadsFrame
  <2>4. ASSUME NEW k \in Sessions, NEW c \in Chars, HandleCharDeleteOpcode(k, c)
        PROVE  LoadsInv'
    <3> DEFINE op == [op |-> "delete", char |-> c]
    <3>1. op \in DbOperation /\ op.op # "load"
      BY DEF DbOperation
    <3>2. dbQueue' = Append(dbQueue, op)
          /\ UNCHANGED <<resultQueue, status, loading, closing, stopping, phase>>
      BY <2>4 DEF HandleCharDeleteOpcode
    <3> HIDE DEF op
    <3> QED BY <2>3, <3>1, <3>2
  <2>5. ASSUME NEW p \in world, AutoSave(p)
        PROVE  LoadsInv'
    <3> DEFINE op == [op |-> "save", char |-> p.char, ver |-> p.ver]
    <3>1. op \in DbOperation /\ op.op # "load"
      BY DEF DbOperation, TypeOK, Player
    <3>2. dbQueue' = Append(dbQueue, op)
          /\ UNCHANGED <<resultQueue, status, loading, closing, stopping, phase>>
      BY <2>5 DEF AutoSave
    <3> HIDE DEF op
    <3> QED BY <2>3, <3>1, <3>2
  <2>6. ASSUME NEW k \in Sessions, HandleLogoutRequestOpcode(k)
        PROVE  LoadsInv'
    <3>1. CASE LogoutPlayer(k)
      BY <2>6, <3>1, LogsOutLoads DEF HandleLogoutRequestOpcode
    <3>2. CASE ~LogoutPlayer(k)
      BY <1>2, <2>6, <3>2 DEF HandleLogoutRequestOpcode
    <3> QED BY <3>1, <3>2
  <2>7. ASSUME NEW k \in Sessions, HandleLogoutCancelOpcode(k) PROVE LoadsInv'
    BY <1>2, <2>7 DEF HandleLogoutCancelOpcode
  <2>8. ASSUME NEW p \in world, Play(p) PROVE LoadsInv'
    BY <1>2, <2>8 DEF Play
  <2>9. ASSUME NEW a \in Accounts, KickPlayer(a) PROVE LoadsInv'
    BY <2>9, KickLoads
  <2>10. ASSUME NEW limit \in Limits, HandleServerPLimitCommand(limit) PROVE LoadsInv'
    <3>1. closing' = closing
      BY <2>10, LimitKicksNobody
    <3> QED BY <1>2, <2>10, <3>1 DEF HandleServerPLimitCommand
  <2>11. CASE StopNow
    <3>1. /\ UNCHANGED <<dbQueue, resultQueue, status, loading, closing, phase>>
          /\ phase = "cli"
      BY <2>11 DEF StopNow
    <3>2. LoadsOnce(dbQueue, resultQueue)'
          /\ \A j : AwaitsLoad(dbQueue', resultQueue', j) <=> AwaitsLoad(dbQueue, resultQueue, j)
      BY <1>1, <3>1 DEF LoadsInv
    <3> QED BY <1>1, <3>1, <3>2, LoadsFrame
  <2> QED BY <1>3, <2>1, <2>2, <2>4, <2>5, <2>6, <2>7, <2>8, <2>9, <2>10, <2>11 DEF Input
<1>4. CASE WorldThread
  <2>1. CASE AddSessionRefused
    BY <2>1, RefusedLoads
  <2>2. CASE AddSessionNew \/ AddSessionReplaces
    BY <2>2, AddedLoads
  <2>3. CASE BeginUpdates
    <3>1. addSessQueue = <<>>
          /\ UNCHANGED <<dbQueue, resultQueue, status, loading, closing>>
      BY <2>3 DEF BeginUpdates
    <3>2. Range(addSessQueue) = {}
      BY <3>1 DEF Range
    <3>3. \A k \in Sessions : status[k] # "adding"
      BY <3>2 DEF LoginInv, AddingQueued
    <3>4. LoadsOnce(dbQueue, resultQueue)'
          /\ \A j : AwaitsLoad(dbQueue', resultQueue', j) <=> AwaitsLoad(dbQueue, resultQueue, j)
      BY <1>1, <3>1 DEF LoadsInv
    <3> QED BY <1>1, <3>1, <3>3, <3>4, LoadsFrame
  <2>4. ASSUME NEW a \in Accounts, NextSession(a) PROVE LoadsInv'
    BY <1>2, <2>4 DEF NextSession
  <2>5. CASE FinishOpen
    <3> DEFINE k == m_sessions[updating]
    <3>1. k \in Sessions
      BY <2>5 DEF FinishOpen, TypeOK, Places, UpdatesListed, Listed
    <3>2. UNCHANGED <<status, loading, closing, stopping, phase, resultQueue>>
      BY <2>5 DEF FinishOpen
    <3>3. LogoutPlayer(k) \/ UNCHANGED dbQueue
      BY <2>5 DEF FinishOpen
    <3> HIDE DEF k
    <3>4. CASE LogoutPlayer(k)
      BY <3>1, <3>2, <3>4, LogsOutLoads
    <3>5. CASE UNCHANGED dbQueue
      BY <1>2, <3>2, <3>5
    <3> QED BY <3>3, <3>4, <3>5
  <2>6. CASE FinishClosed
    BY <2>6, ClosedLoads
  <2>7. ASSUME phase # "add", UNCHANGED <<dbQueue, resultQueue, status, loading, closing>>
        PROVE  LoadsInv'
    <3>1. LoadsOnce(dbQueue, resultQueue)'
          /\ \A j : AwaitsLoad(dbQueue', resultQueue', j) <=> AwaitsLoad(dbQueue, resultQueue, j)
      BY <1>1, <2>7 DEF LoadsInv
    <3> QED BY <1>1, <2>7, <3>1, LoadsFrame
  <2>8. CASE EndUpdates \/ EndMaps \/ EndResults \/ EndCommands
    BY <2>7, <2>8 DEF EndUpdates, EndMaps, EndResults, EndCommands
  <2>9. CASE HandlePlayerLoginCallback
    BY <2>9, CallbackLoads
  <2>10. CASE KickAll
    BY <2>10, KickAllLoads
  <2> QED
    BY <1>4, <2>1, <2>2, <2>3, <2>4, <2>5, <2>6, <2>8, <2>9, <2>10 DEF WorldThread
<1>5. CASE DelayThread
  <2>1. /\ LoadsOnce(dbQueue, resultQueue)'
        /\ \A j : AwaitsLoad(dbQueue', resultQueue', j) <=> AwaitsLoad(dbQueue, resultQueue, j)
    BY <1>1, <1>5, DelayLoads DEF LoadsInv
  <2>2. UNCHANGED <<status, loading, closing, stopping, phase>>
    BY <1>5 DEF DelayThread
  <2> QED BY <1>1, <2>1, <2>2, LoadsFrame
<1> QED BY <1>3, <1>4, <1>5 DEF Next

\* A logout leaves the other players as they were.
LEMMA LogoutKeepsPlayers ==
  ASSUME TypeOK, PlayersInWorld, PlayersInv, NEW k \in Sessions, LogoutPlayer(k),
         loading' \subseteq loading,
         \A j \in Sessions \ {k} : status[j] = "live" => status'[j] = "live",
         k \in loading' => status'[k] = "live"
  PROVE  PlayersInv'
<1>1. /\ player' = [player EXCEPT ![k] = NoChar]
      /\ world' = {p \in world : p.session # k}
  BY LogoutEffect
<1>2. \A p \in world : p.session \in Sessions
  BY DEF TypeOK, Player
<1>3. \A j \in loading' : j \in Sessions /\ status'[j] = "live" /\ player'[j] = NoChar
  BY <1>1 DEF TypeOK, PlayersInv
<1>4. \A p \in world' : /\ status'[p.session] = "live"
                        /\ player'[p.session] = p.char
                        /\ OwnerOf[p.char] = AccountOf[p.session]
  BY <1>1, <1>2 DEF TypeOK, PlayersInv
<1>5. \A p, q \in world' : p.session = q.session => p = q
  BY <1>1 DEF PlayersInv
<1> QED BY <1>3, <1>4, <1>5 DEF PlayersInv

\* Steps that move no player.
LEMMA PlayersStay ==
  ASSUME TypeOK, PlayersInv, UNCHANGED <<player, world>>, loading' \subseteq loading,
         \A j \in Sessions : status[j] = "live" => status'[j] = "live"
  PROVE  PlayersInv'
<1>1. \A p \in world : p.session \in Sessions
  BY DEF TypeOK, Player
<1> QED BY <1>1 DEF TypeOK, PlayersInv

\* A player enters the world for the session that loaded, which had none.
LEMMA CallbackPlayers ==
  ASSUME TypeOK, Places, LoginInv, HandlePlayerLoginCallback
  PROVE  PlayersInv'
<1> DEFINE holder == Head(resultQueue)
           k == m_sessions[AccountOf[holder.session]]
           p == [char |-> holder.char, session |-> k, ver |-> holder.row.ver]
<1>1. /\ holder \in Holder
      /\ k # NoSession => k \in Sessions /\ k \in loading /\ status[k] = "live"
  BY CallbackSession
<1>2. /\ status' = status
      /\ \/ UNCHANGED <<player, world>> /\ loading' \in {loading, loading \ {k}}
         \/ /\ k # NoSession /\ OwnerOf[holder.char] = AccountOf[k]
            /\ world' = world \cup {p}
            /\ player' = [player EXCEPT ![k] = holder.char]
            /\ loading' = loading \ {k}
  BY DEF HandlePlayerLoginCallback, playerVars
<1>3. p.char = holder.char /\ p.session = k
  OBVIOUS
<1>4. \A q \in world : q.session \in Sessions /\ q.char \in Chars /\ player[q.session] = q.char
  BY DEF TypeOK, Player, LoginInv, PlayersInv
<1> HIDE DEF holder, k, p
<1>5. CASE UNCHANGED <<player, world>>
  BY <1>2, <1>5, PlayersStay DEF LoginInv
<1>6. CASE ~UNCHANGED <<player, world>>
  <2>1. /\ k \in Sessions /\ k \in loading /\ status[k] = "live"
        /\ OwnerOf[holder.char] = AccountOf[k]
        /\ world' = world \cup {p}
        /\ player' = [player EXCEPT ![k] = holder.char]
        /\ loading' = loading \ {k}
    BY <1>1, <1>2, <1>6
  <2>2. \A q \in world : q.session # k
    <3>1. player[k] = NoChar
      BY <2>1 DEF LoginInv, PlayersInv
    <3> QED BY <1>4, <3>1, CharsAssumption
  <2>3. \A j \in Sessions \ {k} : player'[j] = player[j]
    BY <2>1 DEF TypeOK
  <2>4. player'[k] = holder.char
    BY <2>1 DEF TypeOK
  <2>5. \A j \in loading' : status'[j] = "live" /\ player'[j] = NoChar
    BY <1>2, <2>1, <2>3 DEF TypeOK, LoginInv, PlayersInv
  <2>6. \A q \in world : /\ status'[q.session] = "live"
                         /\ player'[q.session] = q.char
                         /\ OwnerOf[q.char] = AccountOf[q.session]
    BY <1>2, <1>4, <2>2, <2>3 DEF LoginInv, PlayersInv
  <2>7. \A q \in world' : /\ status'[q.session] = "live"
                          /\ player'[q.session] = q.char
                          /\ OwnerOf[q.char] = AccountOf[q.session]
    BY <1>2, <1>3, <2>1, <2>4, <2>6
  <2>8. \A q, r \in world' : q.session = r.session => q = r
    BY <1>3, <2>1, <2>2 DEF LoginInv, PlayersInv
  <2> QED BY <2>5, <2>7, <2>8 DEF PlayersInv
<1> QED BY <1>5, <1>6

\* A character that changes stays with its session.
LEMMA PlayPlayers ==
  ASSUME TypeOK, PlayersInv, NEW p \in world, Play(p)
  PROVE  PlayersInv'
<1> DEFINE q == [p EXCEPT !.ver = @ + 1]
<1>1. world' = (world \ {p}) \cup {q} /\ UNCHANGED <<status, loading, player>>
  BY DEF Play, sessionVars
<1>2. q.char = p.char /\ q.session = p.session
  BY DEF TypeOK, Player
<1> HIDE DEF q
<1> QED BY <1>1, <1>2 DEF PlayersInv

\* A client that asks for a character has none yet.
LEMMA AskPlayers ==
  ASSUME TypeOK, Places, PlayersInv, NEW k \in Sessions, NEW c \in Chars,
         HandlePlayerLoginOpcode(k, c)
  PROVE  PlayersInv'
<1>1. /\ phase = "update" /\ updating # NoAccount
      /\ k = m_sessions[updating] /\ player[k] = NoChar
      /\ loading' = loading \cup {k}
      /\ UNCHANGED <<status, player, world>>
  BY DEF HandlePlayerLoginOpcode, Handles, packetFrame, sessionVars
<1>2. status[k] = "live"
  BY <1>1 DEF Places, UpdatesListed, NoDeletedSession, Listed
<1> QED BY <1>1, <1>2 DEF PlayersInv

\* Every step keeps the players with their sessions, when the clients are calm.
LEMMA StepPlayersInv ==
  ASSUME TypeOK, Places, PlayersInWorld, LoginInv, Next
  PROVE  PlayersInv'
<1> USE DEF sessionVars, queueVars, loopVars, playerVars, dbVars, packetFrame
<1>1. PlayersInv
  BY DEF LoginInv
<1>2. CASE UNCHANGED <<player, world, loading, status>>
  BY <1>1, <1>2, PlayersStay
<1>3. CASE Input
  <2>1. ASSUME NEW k \in Sessions, HandleAuthSession(k) PROVE PlayersInv'
    <3>1. /\ status' = [status EXCEPT ![k] = "adding"] /\ status[k] = "none"
          /\ UNCHANGED <<player, world, loading>>
      BY <2>1 DEF HandleAuthSession
    <3>2. \A j \in Sessions : status[j] = "live" => status'[j] = "live"
      BY <3>1 DEF TypeOK
    <3> QED BY <1>1, <3>1, <3>2, PlayersStay
  <2>2. ASSUME NEW k \in Sessions, CloseSocket(k) PROVE PlayersInv'
    BY <1>2, <2>2 DEF CloseSocket
  <2>3. ASSUME NEW k \in Sessions, NEW c \in Chars, HandlePlayerLoginOpcode(k, c)
        PROVE  PlayersInv'
    BY <1>1, <2>3, AskPlayers
  <2>4. ASSUME NEW k \in Sessions, NEW c \in Chars, HandleCharDeleteOpcode(k, c)
        PROVE  PlayersInv'
    BY <1>2, <2>4 DEF HandleCharDeleteOpcode
  <2>5. ASSUME NEW k \in Sessions, HandleLogoutRequestOpcode(k)
        PROVE  PlayersInv'
    <3>1. UNCHANGED <<status, loading>>
      BY <2>5 DEF HandleLogoutRequestOpcode
    <3>2. CASE LogoutPlayer(k)
      BY <1>1, <3>1, <3>2, LogoutKeepsPlayers DEF PlayersInv
    <3>3. CASE ~LogoutPlayer(k)
      BY <1>2, <2>5, <3>1, <3>3 DEF HandleLogoutRequestOpcode
    <3> QED BY <3>2, <3>3
  <2>6. ASSUME NEW k \in Sessions, HandleLogoutCancelOpcode(k) PROVE PlayersInv'
    BY <1>2, <2>6 DEF HandleLogoutCancelOpcode
  <2>7. ASSUME NEW p \in world, Play(p) PROVE PlayersInv'
    BY <1>1, <2>7, PlayPlayers
  <2>8. ASSUME NEW p \in world, AutoSave(p) PROVE PlayersInv'
    BY <1>2, <2>8 DEF AutoSave
  <2>9. CASE \/ \E a \in Accounts : KickPlayer(a)
             \/ \E limit \in Limits : HandleServerPLimitCommand(limit)
             \/ StopNow
    BY <1>2, <2>9 DEF KickPlayer, HandleServerPLimitCommand, StopNow
  <2> QED BY <1>3, <2>1, <2>2, <2>3, <2>4, <2>5, <2>6, <2>7, <2>8, <2>9 DEF Input
<1>4. CASE WorldThread
  <2>1. ASSUME addSessQueue # <<>>, UNCHANGED <<player, world, loading>>,
               \E s \in {"live", "deleted"} :
                 status' = [status EXCEPT ![Head(addSessQueue)] = s]
        PROVE  PlayersInv'
    <3>1. Head(addSessQueue) \in Sessions /\ status[Head(addSessQueue)] = "adding"
      BY <2>1, NextAdded
    <3>2. \A j \in Sessions : status[j] = "live" => status'[j] = "live"
      BY <2>1, <3>1 DEF TypeOK
    <3> QED BY <1>1, <2>1, <3>2, PlayersStay
  <2>2. CASE AddSessionRefused
    BY <2>1, <2>2 DEF AddSessionRefused
  <2>3. CASE AddSessionNew
    BY <2>1, <2>3 DEF AddSessionNew
  <2>4. CASE AddSessionReplaces
    <3> DEFINE k == Head(addSessQueue)
               old == m_sessions[AccountOf[k]]
    <3>1. /\ addSessQueue # <<>> /\ old # NoSession /\ old \notin loading
          /\ LogoutPlayer(old) /\ loading' = loading
          /\ status' = [status EXCEPT ![old] = "deleted", ![k] = "live"]
      BY <2>4 DEF AddSessionReplaces
    <3>2. k \in Sessions /\ status[k] = "adding" /\ old \in Sessions
      BY <3>1, NextAdded, SessionsAssumption DEF TypeOK
    <3> HIDE DEF k, old
    <3>3. \A j \in Sessions \ {old} : status[j] = "live" => status'[j] = "live"
      BY <3>1, <3>2 DEF TypeOK
    <3> QED BY <1>1, <3>1, <3>2, <3>3, LogoutKeepsPlayers
  <2>5. CASE BeginUpdates \/ (\E a \in Accounts : NextSession(a)) \/ EndUpdates
               \/ EndMaps \/ EndResults \/ EndCommands \/ KickAll
    BY <1>2, <2>5 DEF BeginUpdates, NextSession, EndUpdates, EndMaps, EndResults,
        EndCommands, KickAll
  <2>6. CASE FinishOpen
    <3> DEFINE k == m_sessions[updating]
    <3>1. k \in Sessions
      BY <2>6 DEF FinishOpen, TypeOK, Places, UpdatesListed, Listed
    <3>2. UNCHANGED <<status, loading>> /\ (LogoutPlayer(k) \/ UNCHANGED <<player, world>>)
      BY <2>6 DEF FinishOpen
    <3> HIDE DEF k
    <3>3. CASE LogoutPlayer(k)
      BY <1>1, <3>1, <3>2, <3>3, LogoutKeepsPlayers DEF PlayersInv
    <3>4. CASE UNCHANGED <<player, world>>
      BY <1>2, <3>2, <3>4
    <3> QED BY <3>2, <3>3, <3>4
  <2>7. CASE FinishClosed
    <3> DEFINE k == m_sessions[updating]
    <3>1. k \in Sessions
      BY <2>7 DEF FinishClosed, TypeOK, Places, UpdatesListed, Listed
    <3>2. /\ LogoutPlayer(k) /\ loading' = loading \ {k}
          /\ status' = [status EXCEPT ![k] = "deleted"]
      BY <2>7 DEF FinishClosed
    <3> HIDE DEF k
    <3>3. \A j \in Sessions \ {k} : status[j] = "live" => status'[j] = "live"
      BY <3>2 DEF TypeOK
    <3>4. loading' \subseteq loading /\ k \notin loading'
      BY <3>2
    <3> QED BY <1>1, <3>1, <3>2, <3>3, <3>4, LogoutKeepsPlayers
  <2>8. CASE HandlePlayerLoginCallback
    BY <2>8, CallbackPlayers
  <2> QED BY <1>4, <2>2, <2>3, <2>4, <2>5, <2>6, <2>7, <2>8 DEF WorldThread
<1>5. CASE DelayThread
  BY <1>2, <1>5 DEF DelayThread
<1> QED BY <1>3, <1>4, <1>5 DEF Next

\* Nobody loads or plays at the start.
LEMMA InitLogin == Init => LoginInv
<1> SUFFICES ASSUME Init PROVE LoginInv
  OBVIOUS
<1>1. dbQueue = <<>> /\ resultQueue = <<>> /\ world = {} /\ loading = {}
      /\ status = [k \in Sessions |-> "none"]
  BY DEF Init
<1>2. DOMAIN dbQueue = {} /\ DOMAIN resultQueue = {}
  BY <1>1
<1>3. LoadsOnce(dbQueue, resultQueue) /\ \A j : ~AwaitsLoad(dbQueue, resultQueue, j)
  BY <1>2 DEF LoadsOnce, LoadsIn, AwaitsLoad
<1>4. LoadsInv
  BY <1>3 DEF LoadsInv, LoadHasSession, LoadOutlastsAdding
<1>5. AddingQueued
  BY <1>1 DEF AddingQueued
<1>6. PlayersInv
  BY <1>1 DEF PlayersInv
<1> QED BY <1>4, <1>5, <1>6 DEF LoginInv

\* The invariant of the logins is inductive beside that of the sessions.
LEMMA StepLogin ==
  ASSUME CalmClients, IInv, LoginInv, [Next]_vars
  PROVE  LoginInv'
<1>1. CASE Next
  <2>1. TypeOK /\ Places /\ PlayersInWorld
    BY DEF IInv, Places
  <2> QED
    BY <1>1, <2>1, StepAdding, StepLoads, StepPlayersInv DEF LoginInv
<1>2. CASE UNCHANGED vars
  <2>1. UNCHANGED <<status, addSessQueue, loading, closing, stopping, phase, player,
                    world, dbQueue, resultQueue>>
    BY <1>2 DEF vars
  <2>2. LoadsInv'
    BY <2>1 DEF LoginInv, LoadsInv, LoadsOnce, LoadHasSession, LoadOutlastsAdding,
        AwaitsLoad, LoadsIn, SameAccount
  <2>3. AddingQueued' /\ PlayersInv'
    BY <2>1 DEF LoginInv, AddingQueued, PlayersInv
  <2> QED BY <2>2, <2>3 DEF LoginInv
<1> QED BY <1>1, <1>2

\* The invariant of the logins holds throughout, if the clients are calm.
THEOREM LoginsKept == CalmClients => (Spec => []LoginInv)
<1> SUFFICES ASSUME CalmClients PROVE Spec => []LoginInv
  OBVIOUS
<1>1. IInv /\ LoginInv /\ [Next]_vars => LoginInv'
  BY StepLogin
<1> QED BY <1>1, InitLogin, Invariance, PTL DEF Spec

\* An account never has two characters in the world: the loads that are
\* asked for, answered and delivered while sessions of the account replace
\* each other end in one player.
THEOREM OneOnline == CalmClients => (Spec => []OneCharacterOnline)
<1> SUFFICES ASSUME CalmClients PROVE Spec => []OneCharacterOnline
  OBVIOUS
<1>1. IInv /\ LoginInv => OneCharacterOnline
  <2> SUFFICES ASSUME IInv, LoginInv, NEW p \in world, NEW q \in world,
                      OwnerOf[p.char] = OwnerOf[q.char]
               PROVE  p = q
    BY DEF OneCharacterOnline
  <2>1. /\ status[p.session] = "live" /\ status[q.session] = "live"
        /\ AccountOf[p.session] = AccountOf[q.session]
        /\ p.session \in Sessions /\ q.session \in Sessions
    BY DEF IInv, TypeOK, Player, LoginInv, PlayersInv
  <2>2. p.session = q.session
    BY <2>1 DEF IInv, NoDeletedSession
  <2> QED BY <2>2 DEF LoginInv, PlayersInv
<1>2. Spec => []LoginInv
  BY LoginsKept
<1> QED BY <1>1, <1>2, Invariance, PTL

-----------------------------------------------------------------------------
(* What the delay thread has still to store.                               *)

\* What an operation does for character c, or for account a.
SaveOf(op, c) == op.op = "save" /\ op.char = c
OnlineOf(op, c) == op.op \in {"save", "online"} /\ op.char = c
OfflineOf(op, a) == op.op = "offline" /\ op.account = a
OwnLoadOf(op, c) ==
  op.op = "load" /\ op.char = c /\ AccountOf[op.session] = OwnerOf[c]

\* The last save of c that is queued stores state v; or none is queued, and
\* the row, if there is one, holds state v.
WillStore(queue, row, c, v) ==
  \/ \E i \in DOMAIN queue :
       /\ SaveOf(queue[i], c) /\ queue[i].ver = v
       /\ \A j \in DOMAIN queue : j > i => ~SaveOf(queue[j], c)
  \/ (\A j \in DOMAIN queue : ~SaveOf(queue[j], c)) /\ (row.exists => row.ver = v)

\* An offline mark is queued behind all that marks c online; or nothing queued
\* does, and the row is not marked online.
WillBeOffline(queue, row, c) ==
  \/ \E i \in DOMAIN queue :
       /\ OfflineOf(queue[i], OwnerOf[c])
       /\ \A j \in DOMAIN queue : j > i => ~OnlineOf(queue[j], c)
  \/ (\A j \in DOMAIN queue : ~OnlineOf(queue[j], c)) /\ ~row.online

WillBeLeft(queue, row, c, v) == WillStore(queue, row, c, v) /\ WillBeOffline(queue, row, c)

\* No save of c is queued behind a load of c by its own account.
OwnLoadsLast(queue, c) ==
  \A i, j \in DOMAIN queue : i < j /\ OwnLoadOf(queue[i], c) => ~SaveOf(queue[j], c)

\* Operations that do not mark c online leave what will be stored.
LEMMA LeftBeforeOther ==
  ASSUME NEW queue \in Seq(DbOperation), NEW op \in DbOperation, NEW row, NEW c, NEW v,
         WillBeLeft(queue, row, c, v), ~OnlineOf(op, c)
  PROVE  WillBeLeft(Append(queue, op), row, c, v)
<1> DEFINE n == Len(queue) + 1
           longer == Append(queue, op)
<1>1. /\ DOMAIN longer = DOMAIN queue \cup {n} /\ \A i \in DOMAIN queue : longer[i] = queue[i]
      /\ longer[n] = op
  BY AppendAt
<1>2. ~SaveOf(op, c)
  BY DEF SaveOf, OnlineOf
<1> HIDE DEF n, longer
<1>3. WillStore(longer, row, c, v)
  <2>1. CASE \E i \in DOMAIN queue :
               /\ SaveOf(queue[i], c) /\ queue[i].ver = v
               /\ \A j \in DOMAIN queue : j > i => ~SaveOf(queue[j], c)
    BY <1>1, <1>2, <2>1 DEF WillStore
  <2>2. CASE (\A j \in DOMAIN queue : ~SaveOf(queue[j], c)) /\ (row.exists => row.ver = v)
    BY <1>1, <1>2, <2>2 DEF WillStore
  <2> QED BY <2>1, <2>2 DEF WillBeLeft, WillStore
<1>4. WillBeOffline(longer, row, c)
  <2>1. CASE \E i \in DOMAIN queue :
               /\ OfflineOf(queue[i], OwnerOf[c])
               /\ \A j \in DOMAIN queue : j > i => ~OnlineOf(queue[j], c)
    BY <1>1, <2>1 DEF WillBeOffline
  <2>2. CASE (\A j \in DOMAIN queue : ~OnlineOf(queue[j], c)) /\ ~row.online
    BY <1>1, <2>2 DEF WillBeOffline
  <2> QED BY <2>1, <2>2 DEF WillBeLeft, WillBeOffline
<1> QED BY <1>3, <1>4 DEF WillBeLeft, longer

\* A logout queues the save, and the offline mark behind it.
LEMMA LeftByLogout ==
  ASSUME NEW queue \in Seq(DbOperation), NEW save \in DbOperation, NEW off \in DbOperation,
         NEW row, NEW c, SaveOf(save, c), OfflineOf(off, OwnerOf[c])
  PROVE  WillBeLeft(Append(Append(queue, save), off), row, c, save.ver)
<1> DEFINE n == Len(queue) + 1
           one == Append(queue, save)
           two == Append(one, off)
<1>1. /\ one \in Seq(DbOperation) /\ Len(one) = n /\ n \in Nat
      /\ DOMAIN one = 1..n /\ one[n] = save
  BY AppendAt, AppendProperties
<1> HIDE DEF one, n
<1>2. /\ DOMAIN two = 1..(n + 1) /\ two[n + 1] = off /\ two[n] = save /\ n \in 1..(n + 1)
  <2>1. n \in 1..n
    BY <1>1 DEF n
  <2> QED BY <1>1, <2>1, AppendAt
<1> HIDE DEF two
<1>3. ~SaveOf(off, c)
  BY DEF SaveOf, OfflineOf
<1>4. WillStore(two, row, c, save.ver)
  <2>1. \A j \in DOMAIN two : j > n => j = n + 1
    BY <1>1, <1>2
  <2> QED BY <1>2, <1>3, <2>1 DEF WillStore
<1>5. WillBeOffline(two, row, c)
  <2>1. \A j \in DOMAIN two : ~(j > n + 1)
    BY <1>1, <1>2
  <2>2. n + 1 \in DOMAIN two
    BY <1>1, <1>2
  <2> QED BY <1>2, <2>1, <2>2 DEF WillBeOffline
<1> QED BY <1>4, <1>5 DEF WillBeLeft, one, two

\* What the first operation does to the row is what was to come of it.
LEMMA LeftAfterFirst ==
  ASSUME NEW queue \in Seq(DbOperation), queue # <<>>, NEW row, NEW c, NEW v, NEW next,
         WillBeLeft(queue, row, c, v),
         SaveOf(Head(queue), c) => next.exists /\ next.ver = Head(queue).ver,
         ~SaveOf(Head(queue), c) /\ next.exists => row.exists /\ next.ver = row.ver,
         OfflineOf(Head(queue), OwnerOf[c]) => ~next.online,
         ~OnlineOf(Head(queue), c) /\ next.online => row.online
  PROVE  WillBeLeft(Tail(queue), next, c, v)
<1> DEFINE rest == Tail(queue)
           op == Head(queue)
<1>1. /\ \A i \in DOMAIN rest : i + 1 \in DOMAIN queue /\ rest[i] = queue[i + 1] /\ i \in Int /\ i + 1 > 1
      /\ \A i \in DOMAIN queue \ {1} : i - 1 \in DOMAIN rest /\ rest[i - 1] = queue[i] /\ i \in Int
      /\ 1 \in DOMAIN queue /\ queue[1] = op
  BY TailAt
<1>2. /\ SaveOf(op, c) => next.exists /\ next.ver = op.ver
      /\ ~SaveOf(op, c) /\ next.exists => row.exists /\ next.ver = row.ver
      /\ OfflineOf(op, OwnerOf[c]) => ~next.online
      /\ ~OnlineOf(op, c) /\ next.online => row.online
  OBVIOUS
<1> HIDE DEF rest, op
<1>3. WillStore(rest, next, c, v)
  <2>1. ASSUME NEW i \in DOMAIN queue, SaveOf(queue[i], c), queue[i].ver = v,
               \A j \in DOMAIN queue : j > i => ~SaveOf(queue[j], c)
        PROVE  WillStore(rest, next, c, v)
    <3>1. CASE i = 1
      <4>1. \A j \in DOMAIN rest : ~SaveOf(rest[j], c)
        BY <1>1, <2>1, <3>1
      <4>2. next.exists /\ next.ver = v
        BY <1>1, <1>2, <2>1, <3>1
      <4> QED BY <4>1, <4>2 DEF WillStore
    <3>2. CASE i # 1
      <4>1. /\ i - 1 \in DOMAIN rest /\ SaveOf(rest[i - 1], c) /\ rest[i - 1].ver = v
        BY <1>1, <2>1, <3>2
      <4>2. \A j \in DOMAIN rest : j > i - 1 => ~SaveOf(rest[j], c)
        BY <1>1, <2>1, <3>2
      <4> QED BY <4>1, <4>2 DEF WillStore
    <3> QED BY <3>1, <3>2
  <2>2. CASE (\A j \in DOMAIN queue : ~SaveOf(queue[j], c)) /\ (row.exists => row.ver = v)
    <3>1. \A j \in DOMAIN rest : ~SaveOf(rest[j], c)
      BY <1>1, <2>2
    <3>2. next.exists => next.ver = v
      BY <1>1, <1>2, <2>2
    <3> QED BY <3>1, <3>2 DEF WillStore
  <2> QED BY <2>1, <2>2 DEF WillBeLeft, WillStore
<1>4. WillBeOffline(rest, next, c)
  <2>1. ASSUME NEW i \in DOMAIN queue, OfflineOf(queue[i], OwnerOf[c]),
               \A j \in DOMAIN queue : j > i => ~OnlineOf(queue[j], c)
        PROVE  WillBeOffline(rest, next, c)
    <3>1. CASE i = 1
      <4>1. \A j \in DOMAIN rest : ~OnlineOf(rest[j], c)
        BY <1>1, <2>1, <3>1
      <4>2. ~next.online
        BY <1>1, <1>2, <2>1, <3>1
      <4> QED BY <4>1, <4>2 DEF WillBeOffline
    <3>2. CASE i # 1
      <4>1. i - 1 \in DOMAIN rest /\ OfflineOf(rest[i - 1], OwnerOf[c])
        BY <1>1, <2>1, <3>2
      <4>2. \A j \in DOMAIN rest : j > i - 1 => ~OnlineOf(rest[j], c)
        BY <1>1, <2>1, <3>2
      <4> QED BY <4>1, <4>2 DEF WillBeOffline
    <3> QED BY <3>1, <3>2
  <2>2. CASE (\A j \in DOMAIN queue : ~OnlineOf(queue[j], c)) /\ ~row.online
    <3>1. \A j \in DOMAIN rest : ~OnlineOf(rest[j], c)
      BY <1>1, <2>2
    <3>2. ~next.online
      BY <1>1, <1>2, <2>2
    <3> QED BY <3>1, <3>2 DEF WillBeOffline
  <2> QED BY <2>1, <2>2 DEF WillBeLeft, WillBeOffline
<1> QED BY <1>3, <1>4 DEF WillBeLeft, rest

\* The queue grows by a save only while no load of the character is queued.
LEMMA LoadsLastAppend ==
  ASSUME NEW queue \in Seq(DbOperation), NEW op \in DbOperation, NEW c,
         OwnLoadsLast(queue, c),
         SaveOf(op, c) => \A i \in DOMAIN queue : ~OwnLoadOf(queue[i], c)
  PROVE  OwnLoadsLast(Append(queue, op), c)
<1> DEFINE n == Len(queue) + 1
           longer == Append(queue, op)
<1>1. /\ DOMAIN longer = DOMAIN queue \cup {n} /\ \A i \in DOMAIN queue : longer[i] = queue[i]
      /\ longer[n] = op /\ \A i \in DOMAIN queue : i < n
      /\ \A i \in DOMAIN longer : i \in Int
  BY AppendAt
<1> HIDE DEF n, longer
<1>2. ASSUME NEW i \in DOMAIN longer, NEW j \in DOMAIN longer, i < j,
             OwnLoadOf(longer[i], c), SaveOf(longer[j], c)
      PROVE  FALSE
  <2>1. i \in DOMAIN queue
    <3>1. j <= n
      BY <1>1
    <3> QED BY <1>1, <1>2, <3>1
  <2>2. CASE j = n
    BY <1>1, <1>2, <2>1, <2>2
  <2>3. CASE j \in DOMAIN queue
    BY <1>1, <1>2, <2>1, <2>3 DEF OwnLoadsLast
  <2> QED BY <1>1, <2>2, <2>3
<1> QED BY <1>2 DEF OwnLoadsLast, longer

\* It stays so as the delay thread goes on.
LEMMA LoadsLastTail ==
  ASSUME NEW queue \in Seq(DbOperation), queue # <<>>, NEW c, OwnLoadsLast(queue, c)
  PROVE  OwnLoadsLast(Tail(queue), c)
<1> DEFINE rest == Tail(queue)
<1>1. \A i \in DOMAIN rest : i + 1 \in DOMAIN queue /\ rest[i] = queue[i + 1] /\ i \in Int
  BY TailAt
<1> HIDE DEF rest
<1>2. \A i, j \in DOMAIN rest : i < j => i + 1 < j + 1
  BY <1>1
<1> QED BY <1>1, <1>2 DEF OwnLoadsLast, rest

\* A load of c by its own account that is answered finds the last save done.
LEMMA LoadFindsLast ==
  ASSUME NEW queue \in Seq(DbOperation), queue # <<>>, NEW row, NEW c, NEW v,
         OwnLoadsLast(queue, c), OwnLoadOf(Head(queue), c), WillStore(queue, row, c, v)
  PROVE  row.exists => row.ver = v
<1>1. /\ 1 \in DOMAIN queue /\ queue[1] = Head(queue)
      /\ \A i \in DOMAIN queue : i \in Int /\ i >= 1
  BY TailAt
<1>2. ~SaveOf(queue[1], c)
  BY <1>1 DEF OwnLoadOf, SaveOf
<1>3. \A j \in DOMAIN queue : ~SaveOf(queue[j], c)
  BY <1>1, <1>2 DEF OwnLoadsLast
<1> QED BY <1>3 DEF WillStore

InWorld(c) == \E p \in world : p.char = c

\* A character that is not in the world is stored as it was left, or will be.
SavesReach ==
  \A c \in Chars : ~InWorld(c) => WillBeLeft(dbQueue, rows[c], c, progress[c])

LoadsAfterSaves == \A c \in Chars : OwnLoadsLast(dbQueue, c)

\* What has been loaded for the owner is the last state of the character.
HolderSaved(h, reached) ==
  h.row.exists /\ OwnerOf[h.char] = AccountOf[h.session] => h.row.ver = reached[h.char]
HoldersSaved == \A i \in DOMAIN resultQueue : HolderSaved(resultQueue[i], progress)

PlayersCurrent == \A p \in world : p.ver = progress[p.char]

SavesInv == SavesReach /\ LoadsAfterSaves /\ HoldersSaved /\ PlayersCurrent

\* While the account of a character waits for a load the character is not in
\* the world.
LEMMA AwaitedOut ==
  ASSUME TypeOK, Places, LoginInv, NEW p \in world, NEW j \in Sessions,
         AwaitsLoad(dbQueue, resultQueue, j)
  PROVE  AccountOf[j] # OwnerOf[p.char]
<1> SUFFICES ASSUME AccountOf[j] = OwnerOf[p.char] PROVE FALSE
  OBVIOUS
<1>1. /\ p.session \in Sessions /\ status[p.session] = "live"
      /\ player[p.session] = p.char /\ p.char \in Chars
      /\ AccountOf[p.session] = AccountOf[j]
  BY DEF TypeOK, Player, LoginInv, PlayersInv
<1>2. CASE j \in loading /\ status[j] = "live"
  <2>1. p.session = j
    BY <1>1, <1>2 DEF Places, NoDeletedSession
  <2>2. player[j] = NoChar
    BY <1>2 DEF LoginInv, PlayersInv
  <2> QED BY <1>1, <2>1, <2>2, CharsAssumption
<1>3. CASE /\ status[j] = "deleted"
           /\ \A i \in SameAccount(j) : status[i] \notin {"adding", "live"}
  BY <1>1, <1>3 DEF SameAccount
<1> QED BY <1>2, <1>3 DEF LoginInv, LoadsInv, LoadHasSession

\* So its saves are not queued behind a load.
LEMMA NoOwnLoad ==
  ASSUME TypeOK, Places, LoginInv, NEW p \in world, NEW i \in DOMAIN dbQueue
  PROVE  ~OwnLoadOf(dbQueue[i], p.char)
<1> SUFFICES ASSUME OwnLoadOf(dbQueue[i], p.char) PROVE FALSE
  OBVIOUS
<1> DEFINE op == dbQueue[i]
<1>1. op \in DbOperation
  BY ElementOfSeq, LenProperties DEF TypeOK
<1>2. op.op = "load" /\ AccountOf[op.session] = OwnerOf[p.char]
  BY DEF OwnLoadOf
<1>3. AwaitsLoad(dbQueue, resultQueue, op.session)
  BY <1>2 DEF AwaitsLoad, LoadsIn
<1> HIDE DEF op
<1>4. op.session \in Sessions
  BY <1>1, <1>2 DEF DbOperation
<1> QED BY <1>2, <1>3, <1>4, AwaitedOut

\* An operation is queued that saves or marks online only who is in the world.
LEMMA QueuedSaves ==
  ASSUME TypeOK, Places, LoginInv, SavesInv, NEW op \in DbOperation,
         dbQueue' = Append(dbQueue, op), UNCHANGED <<rows, progress>>,
         \A c \in Chars : SaveOf(op, c) => InWorld(c),
         \A c \in Chars : InWorld(c) \/ OnlineOf(op, c) => InWorld(c)'
  PROVE  SavesReach' /\ LoadsAfterSaves'
<1>1. dbQueue \in Seq(DbOperation)
  BY DEF TypeOK
<1>2. ASSUME NEW c \in Chars, ~InWorld(c)'
      PROVE  WillBeLeft(dbQueue', rows'[c], c, progress'[c])
  <2>1. ~OnlineOf(op, c) /\ WillBeLeft(dbQueue, rows[c], c, progress[c])
    BY <1>2 DEF SavesInv, SavesReach
  <2> QED BY <1>1, <2>1, LeftBeforeOther
<1>3. ASSUME NEW c \in Chars
      PROVE  OwnLoadsLast(dbQueue', c)
  <2>1. SaveOf(op, c) => \A i \in DOMAIN dbQueue : ~OwnLoadOf(dbQueue[i], c)
    BY NoOwnLoad DEF InWorld
  <2>2. OwnLoadsLast(dbQueue, c)
    BY DEF SavesInv, LoadsAfterSaves
  <2> QED BY <1>1, <2>1, <2>2, LoadsLastAppend
<1>4. SavesReach'
  BY <1>2 DEF SavesReach
<1>5. LoadsAfterSaves'
  BY <1>3 DEF LoadsAfterSaves
<1> QED BY <1>4, <1>5

\* A logout queues what is to be stored of the character that leaves.
LEMMA LogoutSaves ==
  ASSUME TypeOK, Places, PlayersInWorld, LoginInv, SavesInv, NEW k \in Sessions,
         LogoutPlayer(k), UNCHANGED <<rows, progress, resultQueue>>
  PROVE  SavesInv'
<1>1. dbQueue \in Seq(DbOperation)
  BY DEF TypeOK
<1>2. HoldersSaved'
  BY DEF SavesInv, HoldersSaved, HolderSaved
<1>3. PlayersCurrent'
  BY LogoutEffect DEF LoginInv, SavesInv, PlayersCurrent
<1>4. CASE world' = world /\ dbQueue' = dbQueue
  BY <1>2, <1>3, <1>4 DEF SavesInv, SavesReach, InWorld, LoadsAfterSaves
<1>5. CASE ~(world' = world /\ dbQueue' = dbQueue)
  <2> DEFINE save(q) == [op |-> "save", char |-> q.char, ver |-> q.ver]
  <2>1. PICK p \in world :
          /\ p.session = k /\ world' = world \ {p}
          /\ dbQueue' = Append(Append(dbQueue, save(p)), Offline(k))
    BY <1>5, LogoutEffect DEF LoginInv
  <2>2. /\ p.char \in Chars /\ AccountOf[k] \in Accounts /\ p.ver = progress[p.char]
        /\ OwnerOf[p.char] = AccountOf[k]
    BY <2>1, SessionsAssumption
    DEF TypeOK, Player, LoginInv, PlayersInv, SavesInv, PlayersCurrent
  <2>3. /\ save(p) \in DbOperation /\ Offline(k) \in DbOperation
        /\ save(p).ver = progress[p.char]
        /\ \A c \in Chars : SaveOf(save(p), c) <=> c = p.char
        /\ \A c \in Chars : OnlineOf(save(p), c) => c = p.char
        /\ OfflineOf(Offline(k), OwnerOf[p.char])
        /\ \A c \in Chars : ~SaveOf(Offline(k), c) /\ ~OnlineOf(Offline(k), c)
    <3>1. p \in Player
      BY DEF TypeOK
    <3>2. save(p) \in DbOperation /\ Offline(k) \in DbOperation
      BY <2>2, <3>1, OperationTypes DEF Offline, Player
    <3> QED BY <2>2, <3>2 DEF SaveOf, OnlineOf, OfflineOf, Offline
  <2> HIDE DEF save
  <2> DEFINE saved == Append(dbQueue, save(p))
  <2>4. saved \in Seq(DbOperation) /\ dbQueue' = Append(saved, Offline(k))
    BY <1>1, <2>1, <2>3, AppendProperties
  <2>5. ASSUME NEW c \in Chars
        PROVE  OwnLoadsLast(dbQueue', c)
    <3>1. OwnLoadsLast(dbQueue, c)
      BY DEF SavesInv, LoadsAfterSaves
    <3>2. SaveOf(save(p), c) => \A i \in DOMAIN dbQueue : ~OwnLoadOf(dbQueue[i], c)
      BY <2>3, NoOwnLoad
    <3>3. OwnLoadsLast(saved, c)
      BY <1>1, <2>3, <3>1, <3>2, LoadsLastAppend
    <3> HIDE DEF saved
    <3> QED BY <2>3, <2>4, <3>3, LoadsLastAppend
  <2>6. ASSUME NEW c \in Chars, ~InWorld(c)'
        PROVE  WillBeLeft(dbQueue', rows'[c], c, progress'[c])
    <3>1. CASE c = p.char
      BY <1>1, <2>1, <2>3, <3>1, LeftByLogout
    <3>2. CASE c # p.char
      <4>1. ~InWorld(c)
        BY <2>1, <2>6, <3>2 DEF InWorld
      <4>2. WillBeLeft(dbQueue, rows[c], c, progress[c])
        BY <4>1 DEF SavesInv, SavesReach
      <4>3. WillBeLeft(saved, rows[c], c, progress[c])
        BY <1>1, <2>3, <3>2, <4>2, LeftBeforeOther
      <4> HIDE DEF saved
      <4> QED BY <2>3, <2>4, <4>3, LeftBeforeOther
    <3> QED BY <3>1, <3>2
  <2>7. SavesReach'
    BY <2>6 DEF SavesReach
  <2>8. LoadsAfterSaves'
    BY <2>5 DEF LoadsAfterSaves
  <2> QED BY <1>2, <1>3, <2>7, <2>8 DEF SavesInv
<1> QED BY <1>4, <1>5

\* The effect of an operation on the row of a character.
LEMMA PerformRow ==
  ASSUME TypeOK, NEW op \in DbOperation, Perform(op), NEW c \in Chars
  PROVE  /\ SaveOf(op, c) => rows'[c].exists /\ rows'[c].ver = op.ver
         /\ ~SaveOf(op, c) /\ rows'[c].exists => rows[c].exists /\ rows'[c].ver = rows[c].ver
         /\ OfflineOf(op, OwnerOf[c]) => ~rows'[c].online
         /\ ~OnlineOf(op, c) /\ rows'[c].online => rows[c].online
<1>1. rows[c] \in Row
  BY DEF TypeOK
<1>2. CASE op.op = "save"
  <2>1. op.char \in Chars
    BY <1>2 DEF DbOperation
  <2> DEFINE stored == [exists |-> TRUE, ver |-> op.ver, online |-> TRUE]
  <2>2. rows' = [rows EXCEPT ![op.char] = stored]
    BY <1>2 DEF Perform
  <2>3. stored.exists /\ stored.ver = op.ver
    OBVIOUS
  <2> HIDE DEF stored
  <2>4. /\ op.char = c => rows'[c] = stored
        /\ op.char # c => rows'[c] = rows[c]
    BY <2>1, <2>2 DEF TypeOK
  <2> QED BY <1>2, <2>3, <2>4 DEF SaveOf, OnlineOf, OfflineOf
<1>3. CASE op.op = "delete"
  <2>1. op.char \in Chars
    BY <1>3 DEF DbOperation
  <2>2. rows' = [rows EXCEPT ![op.char].exists = FALSE]
    BY <1>3 DEF Perform
  <2>3. rows'[c] = rows[c] \/ rows'[c] = [rows[c] EXCEPT !.exists = FALSE]
    BY <2>1, <2>2 DEF TypeOK
  <2>4. /\ rows'[c].exists => rows[c].exists
        /\ rows'[c].ver = rows[c].ver /\ rows'[c].online = rows[c].online
    BY <1>1, <2>3 DEF Row
  <2> QED BY <1>3, <2>4 DEF SaveOf, OnlineOf, OfflineOf
<1>4. CASE op.op = "online"
  <2>1. op.char \in Chars
    BY <1>4 DEF DbOperation
  <2>2. rows' = [rows EXCEPT ![op.char].online = rows[op.char].exists]
    BY <1>4 DEF Perform
  <2>3. /\ op.char = c => rows'[c] = [rows[c] EXCEPT !.online = rows[op.char].exists]
        /\ op.char # c => rows'[c] = rows[c]
    BY <2>1, <2>2 DEF TypeOK
  <2>4. /\ rows'[c].exists = rows[c].exists /\ rows'[c].ver = rows[c].ver
        /\ op.char # c => rows'[c].online = rows[c].online
    BY <1>1, <2>3 DEF Row
  <2> QED BY <1>4, <2>4 DEF SaveOf, OnlineOf, OfflineOf
<1>5. CASE op.op = "offline"
  <2>1. rows'[c] = [rows[c] EXCEPT !.online = @ /\ OwnerOf[c] # op.account]
    BY <1>5 DEF Perform
  <2>2. /\ rows'[c].exists = rows[c].exists /\ rows'[c].ver = rows[c].ver
        /\ rows'[c].online = (rows[c].online /\ OwnerOf[c] # op.account)
    BY <1>1, <2>1 DEF Row
  <2> QED BY <1>5, <2>2 DEF SaveOf, OnlineOf, OfflineOf
<1>6. CASE op.op = "load"
  BY <1>6 DEF Perform, SaveOf, OnlineOf, OfflineOf
<1> QED BY <1>2, <1>3, <1>4, <1>5, <1>6 DEF Perform

\* The delay thread stores what is to be stored, and answers a load of the
\* owner with the last state.
LEMMA DelaySaves ==
  ASSUME TypeOK, Places, LoginInv, SavesInv, DelayThread
  PROVE  SavesInv'
<1> DEFINE op == Head(dbQueue)
<1>1. /\ dbQueue # <<>> /\ dbQueue' = Tail(dbQueue) /\ Perform(op)
      /\ UNCHANGED <<world, progress>>
  BY DEF DelayThread, playerVars
<1>2. op \in DbOperation /\ dbQueue \in Seq(DbOperation) /\ resultQueue \in Seq(Holder)
  BY <1>1, HeadTailProperties DEF TypeOK
<1>3. SavesReach'
  <2> SUFFICES ASSUME NEW c \in Chars, ~InWorld(c)'
               PROVE  WillBeLeft(dbQueue', rows'[c], c, progress'[c])
    BY DEF SavesReach
  <2>1. WillBeLeft(dbQueue, rows[c], c, progress[c])
    BY <1>1 DEF SavesInv, SavesReach, InWorld
  <2> QED BY <1>1, <1>2, <2>1, PerformRow, LeftAfterFirst
<1>4. LoadsAfterSaves'
  BY <1>1, <1>2, LoadsLastTail DEF SavesInv, LoadsAfterSaves
<1>5. PlayersCurrent'
  BY <1>1 DEF SavesInv, PlayersCurrent
<1>6. HoldersSaved'
  <2>1. CASE resultQueue' = resultQueue
    BY <1>1, <2>1 DEF SavesInv, HoldersSaved, HolderSaved
  <2>2. CASE op.op = "load" /\ resultQueue' = Append(resultQueue, Answer(op))
    <3> DEFINE h == Answer(op)
    <3>1. op.char \in Chars /\ op.session \in Sessions
      BY <1>2, <2>2 DEF DbOperation
    <3>2. /\ h \in Holder /\ h.char = op.char /\ h.session = op.session
          /\ h.row = rows[op.char]
      BY <3>1 DEF Answer, Holder, TypeOK
    <3>3. ASSUME h.row.exists, OwnerOf[h.char] = AccountOf[h.session]
          PROVE  h.row.ver = progress[h.char]
      <4>1. OwnLoadOf(op, op.char)
        BY <2>2, <3>2, <3>3 DEF OwnLoadOf
      <4>2. 1 \in DOMAIN dbQueue /\ dbQueue[1] = op
        BY <1>1, <1>2, TailAt
      <4>3. ~InWorld(op.char)
        BY <4>1, <4>2, NoOwnLoad DEF InWorld
      <4>4. /\ OwnLoadsLast(dbQueue, op.char)
            /\ WillStore(dbQueue, rows[op.char], op.char, progress[op.char])
        BY <3>1, <4>3 DEF SavesInv, LoadsAfterSaves, SavesReach, WillBeLeft
      <4>5. rows[op.char].exists => rows[op.char].ver = progress[op.char]
        BY <1>1, <1>2, <4>1, <4>4, LoadFindsLast
      <4> QED BY <3>2, <3>3, <4>5
    <3>4. HolderSaved(h, progress)
      BY <3>3 DEF HolderSaved
    <3>5. /\ DOMAIN resultQueue' = DOMAIN resultQueue \cup {Len(resultQueue) + 1}
          /\ \A i \in DOMAIN resultQueue : resultQueue'[i] = resultQueue[i]
          /\ resultQueue'[Len(resultQueue) + 1] = h
      BY <1>2, <2>2, <3>2, AppendAt
    <3>6. \A i \in DOMAIN resultQueue : HolderSaved(resultQueue[i], progress)
      BY DEF SavesInv, HoldersSaved
    <3> HIDE DEF h
    <3>7. \A i \in DOMAIN resultQueue' : HolderSaved(resultQueue'[i], progress)
      BY <3>4, <3>5, <3>6
    <3> QED BY <1>1, <3>7 DEF HoldersSaved
  <2> QED BY <1>1, <2>1, <2>2 DEF Perform
<1> QED BY <1>3, <1>4, <1>5, <1>6 DEF SavesInv

\* The first answer is to the session of the owner, or brings no player; and
\* what it brings is the last state.
LEMMA CallbackSaves ==
  ASSUME TypeOK, Places, LoginInv, SavesInv, HandlePlayerLoginCallback
  PROVE  /\ SavesInv'
         /\ \A p \in world' \ world : p.ver = progress[p.char]
<1> DEFINE holder == Head(resultQueue)
           k == m_sessions[AccountOf[holder.session]]
           p == [char |-> holder.char, session |-> k, ver |-> holder.row.ver]
           online == [op |-> "online", char |-> holder.char]
<1>1. /\ holder \in Holder /\ resultQueue # <<>>
      /\ k # NoSession => k = holder.session
  BY CallbackSession
<1>2. /\ resultQueue' = Tail(resultQueue) /\ UNCHANGED <<rows, progress>>
      /\ \/ UNCHANGED <<world, dbQueue>>
         \/ /\ k # NoSession /\ holder.row.exists /\ OwnerOf[holder.char] = AccountOf[k]
            /\ world' = world \cup {p} /\ dbQueue' = Append(dbQueue, online)
  BY DEF HandlePlayerLoginCallback, playerVars
<1>3. /\ resultQueue \in Seq(Holder) /\ holder.char \in Chars
      /\ p.char = holder.char /\ p.ver = holder.row.ver
  <2>1. holder.char \in Chars
    BY <1>1 DEF Holder
  <2> QED BY <2>1 DEF TypeOK
<1>4. /\ online \in DbOperation
      /\ \A c \in Chars : ~SaveOf(online, c) /\ (OnlineOf(online, c) => c = holder.char)
  <2>1. online \in DbOperation
    BY <1>3 DEF DbOperation
  <2> QED BY <2>1 DEF SaveOf, OnlineOf
<1> HIDE DEF holder, k, p, online
<1>5. HoldersSaved'
  <2>1. /\ \A i \in DOMAIN Tail(resultQueue) : /\ i + 1 \in DOMAIN resultQueue
                                               /\ Tail(resultQueue)[i] = resultQueue[i + 1]
    BY <1>1, <1>3, TailAt
  <2>2. \A i \in DOMAIN resultQueue' : HolderSaved(resultQueue'[i], progress)
    BY <1>2, <2>1 DEF SavesInv, HoldersSaved
  <2> QED BY <1>2, <2>2 DEF HoldersSaved, HolderSaved
<1>6. CASE UNCHANGED <<world, dbQueue>>
  BY <1>2, <1>5, <1>6
  DEF SavesInv, SavesReach, InWorld, LoadsAfterSaves, PlayersCurrent
<1>7. CASE ~UNCHANGED <<world, dbQueue>>
  <2>1. /\ k # NoSession /\ holder.row.exists /\ OwnerOf[holder.char] = AccountOf[k]
        /\ world' = world \cup {p} /\ dbQueue' = Append(dbQueue, online)
    BY <1>2, <1>7
  <2>2. holder.row.ver = progress[holder.char]
    <3>1. 1 \in DOMAIN resultQueue /\ resultQueue[1] = holder
      BY <1>1, <1>3, TailAt DEF holder
    <3>2. HolderSaved(holder, progress)
      BY <3>1 DEF SavesInv, HoldersSaved
    <3> QED BY <1>1, <2>1, <3>2 DEF HolderSaved
  <2>3. \A c \in Chars : InWorld(c) \/ OnlineOf(online, c) => InWorld(c)'
    BY <1>3, <1>4, <2>1 DEF InWorld
  <2>4. SavesReach' /\ LoadsAfterSaves'
    BY <1>2, <1>4, <2>1, <2>3, QueuedSaves
  <2>5. p.ver = progress[p.char]
    BY <1>3, <2>2
  <2>6. PlayersCurrent'
    BY <1>2, <2>1, <2>5 DEF SavesInv, PlayersCurrent
  <2> QED BY <1>5, <2>1, <2>4, <2>5, <2>6 DEF SavesInv
<1> QED BY <1>6, <1>7

\* A character changes in the world alone, while no load of it is answered.
LEMMA PlaySaves ==
  ASSUME TypeOK, Places, LoginInv, SavesInv, NEW p \in world, Play(p)
  PROVE  SavesInv'
<1> DEFINE q == [p EXCEPT !.ver = @ + 1]
<1>1. /\ world' = (world \ {p}) \cup {q} /\ progress' = [progress EXCEPT ![p.char] = p.ver + 1]
      /\ UNCHANGED <<dbQueue, rows, resultQueue>>
  BY DEF Play
<1>2. q.char = p.char /\ q.session = p.session /\ q.ver = p.ver + 1 /\ p.char \in Chars
  BY DEF TypeOK, Player
<1> HIDE DEF q
<1>3. \A c \in Chars \ {p.char} : progress'[c] = progress[c]
  BY <1>1, <1>2 DEF TypeOK
<1>4. progress'[p.char] = p.ver + 1
  BY <1>1, <1>2 DEF TypeOK
<1>5. \A c \in Chars : InWorld(c) <=> InWorld(c)'
  BY <1>1, <1>2 DEF InWorld
<1>6. SavesReach'
  <2>1. \A c \in Chars : ~InWorld(c) => c # p.char
    BY DEF InWorld
  <2> QED BY <1>1, <1>3, <1>5, <2>1 DEF SavesInv, SavesReach
<1>7. LoadsAfterSaves'
  BY <1>1 DEF SavesInv, LoadsAfterSaves
<1>8. PlayersCurrent'
  <2>1. \A r \in world : r.char \in Chars /\ r.ver = progress[r.char]
    BY DEF TypeOK, Player, SavesInv, PlayersCurrent
  <2>2. \A r \in world : r # p => r.char # p.char
    <3> SUFFICES ASSUME NEW r \in world, r.char = p.char PROVE r = p
      OBVIOUS
    <3>1. /\ r.session \in Sessions /\ status[r.session] = "live"
          /\ p.session \in Sessions /\ status[p.session] = "live"
          /\ AccountOf[r.session] = AccountOf[p.session]
      BY DEF TypeOK, Player, LoginInv, PlayersInv
    <3>2. r.session = p.session
      BY <3>1 DEF Places, NoDeletedSession
    <3> QED BY <3>2 DEF LoginInv, PlayersInv
  <2> QED BY <1>1, <1>2, <1>3, <1>4, <2>1, <2>2 DEF PlayersCurrent
<1>9. HoldersSaved'
  <2> SUFFICES ASSUME NEW i \in DOMAIN resultQueue, NEW h, h = resultQueue[i]
               PROVE  HolderSaved(h, progress')
    BY <1>1 DEF HoldersSaved
  <2>1. h \in Holder
    BY ElementOfSeq, LenProperties DEF TypeOK
  <2>2. HolderSaved(h, progress) /\ AwaitsLoad(dbQueue, resultQueue, h.session)
    BY DEF SavesInv, HoldersSaved, AwaitsLoad
  <2>3. h.session \in Sessions /\ h.char \in Chars
    BY <2>1 DEF Holder
  <2>4. CASE h.char = p.char
    BY <2>2, <2>3, <2>4, AwaitedOut DEF HolderSaved
  <2>5. CASE h.char # p.char
    BY <1>3, <2>2, <2>3, <2>5 DEF HolderSaved
  <2> QED BY <2>4, <2>5
<1> QED BY <1>6, <1>7, <1>8, <1>9 DEF SavesInv

\* Steps that concern no character.
LEMMA SavesFrame ==
  ASSUME SavesInv, UNCHANGED <<world, dbQueue, rows, resultQueue, progress>>
  PROVE  SavesInv'
BY DEF SavesInv, SavesReach, InWorld, LoadsAfterSaves, HoldersSaved, HolderSaved,
  PlayersCurrent

\* Another operation is queued in the name of a client.
LEMMA OtherSaves ==
  ASSUME TypeOK, Places, LoginInv, SavesInv, NEW op \in DbOperation,
         dbQueue' = Append(dbQueue, op),
         UNCHANGED <<world, rows, resultQueue, progress>>,
         \A c \in Chars : OnlineOf(op, c) => InWorld(c)
  PROVE  SavesInv'
<1>1. \A c \in Chars : InWorld(c)' <=> InWorld(c)
  BY DEF InWorld
<1>2. \A c \in Chars : SaveOf(op, c) => OnlineOf(op, c)
  BY DEF SaveOf, OnlineOf
<1>3. SavesReach' /\ LoadsAfterSaves'
  BY <1>1, <1>2, QueuedSaves
<1>4. HoldersSaved' /\ PlayersCurrent'
  BY DEF SavesInv, HoldersSaved, HolderSaved, PlayersCurrent
<1> QED BY <1>3, <1>4 DEF SavesInv

\* Every step keeps what has been saved, and what will be, when the clients
\* are calm.
LEMMA StepSaves ==
  ASSUME TypeOK, Places, PlayersInWorld, LoginInv, SavesInv, Next
  PROVE  SavesInv'
<1> USE DEF sessionVars, queueVars, loopVars, playerVars, dbVars, packetFrame
<1>1. CASE UNCHANGED <<world, dbQueue, rows, resultQueue, progress>>
  BY <1>1, SavesFrame
<1>2. CASE Input
  <2>1. ASSUME NEW k \in Sessions, \/ HandleAuthSession(k) \/ CloseSocket(k)
                                   \/ HandleLogoutCancelOpcode(k)
        PROVE  SavesInv'
    BY <1>1, <2>1 DEF HandleAuthSession, CloseSocket, HandleLogoutCancelOpcode
  <2>2. ASSUME NEW k \in Sessions, NEW c \in Chars, HandlePlayerLoginOpcode(k, c)
        PROVE  SavesInv'
    <3> DEFINE op == [op |-> "load", char |-> c, session |-> k]
    <3>1. op \in DbOperation /\ \A d \in Chars : ~OnlineOf(op, d)
      BY DEF DbOperation, OnlineOf
    <3>2. dbQueue' = Append(dbQueue, op) /\ UNCHANGED <<world, rows, resultQueue, progress>>
      BY <2>2 DEF HandlePlayerLoginOpcode
    <3> HIDE DEF op
    <3> QED BY <3>1, <3>2, OtherSaves
  <2>3. ASSUME NEW k \in Sessions, NEW c \in Chars, HandleCharDeleteOpcode(k, c)
        PROVE  SavesInv'
    <3> DEFINE op == [op |-> "delete", char |-> c]
    <3>1. op \in DbOperation /\ \A d \in Chars : ~OnlineOf(op, d)
      BY DEF DbOperation, OnlineOf
    <3>2. dbQueue' = Append(dbQueue, op) /\ UNCHANGED <<world, rows, resultQueue, progress>>
      BY <2>3 DEF HandleCharDeleteOpcode
    <3> HIDE DEF op
    <3> QED BY <3>1, <3>2, OtherSaves
  <2>4. ASSUME NEW k \in Sessions, HandleLogoutRequestOpcode(k) PROVE SavesInv'
    <3>1. CASE LogoutPlayer(k)
      BY <2>4, <3>1, LogoutSaves DEF HandleLogoutRequestOpcode
    <3>2. CASE ~LogoutPlayer(k)
      BY <1>1, <2>4, <3>2 DEF HandleLogoutRequestOpcode
    <3> QED BY <3>1, <3>2
  <2>5. ASSUME NEW p \in world, Play(p) PROVE SavesInv'
    BY <2>5, PlaySaves
  <2>6. ASSUME NEW p \in world, AutoSave(p) PROVE SavesInv'
    <3> DEFINE op == [op |-> "save", char |-> p.char, ver |-> p.ver]
    <3>1. op \in DbOperation /\ \A d \in Chars : OnlineOf(op, d) => InWorld(d)
      BY DEF DbOperation, OnlineOf, InWorld, TypeOK, Player
    <3>2. dbQueue' = Append(dbQueue, op) /\ UNCHANGED <<world, rows, resultQueue, progress>>
      BY <2>6 DEF AutoSave
    <3> HIDE DEF op
    <3> QED BY <3>1, <3>2, OtherSaves
  <2>7. CASE \/ \E a \in Accounts : KickPlayer(a)
             \/ \E limit \in Limits : HandleServerPLimitCommand(limit)
             \/ StopNow
    BY <1>1, <2>7 DEF KickPlayer, HandleServerPLimitCommand, StopNow
  <2> QED BY <1>2, <2>1, <2>2, <2>3, <2>4, <2>5, <2>6, <2>7 DEF Input
<1>3. CASE WorldThread
  <2>1. CASE AddSessionReplaces
    <3> DEFINE old == m_sessions[AccountOf[Head(addSessQueue)]]
    <3>1. /\ addSessQueue # <<>> /\ old # NoSession /\ LogoutPlayer(old)
          /\ UNCHANGED <<rows, progress, resultQueue>>
      BY <2>1 DEF AddSessionReplaces
    <3>2. old \in Sessions
      BY <3>1, NextAdded, SessionsAssumption DEF TypeOK
    <3> HIDE DEF old
    <3> QED BY <3>1, <3>2, LogoutSaves
  <2>2. CASE FinishOpen \/ FinishClosed
    <3> DEFINE k == m_sessions[updating]
    <3>1. k \in Sessions
      BY <2>2 DEF FinishOpen, FinishClosed, TypeOK, Places, UpdatesListed, Listed
    <3>2. /\ LogoutPlayer(k) \/ UNCHANGED <<world, dbQueue>>
          /\ UNCHANGED <<rows, progress, resultQueue>>
      BY <2>2 DEF FinishOpen, FinishClosed
    <3> HIDE DEF k
    <3>3. CASE LogoutPlayer(k)
      BY <3>1, <3>2, <3>3, LogoutSaves
    <3>4. CASE UNCHANGED <<world, dbQueue>>
      BY <1>1, <3>2, <3>4
    <3> QED BY <3>2, <3>3, <3>4
  <2>3. CASE HandlePlayerLoginCallback
    BY <2>3, CallbackSaves
  <2>4. CASE AddSessionRefused \/ AddSessionNew \/ BeginUpdates
               \/ (\E a \in Accounts : NextSession(a)) \/ EndUpdates
               \/ EndMaps \/ EndResults \/ EndCommands \/ KickAll
    BY <1>1, <2>4 DEF AddSessionRefused, AddSessionNew, BeginUpdates, NextSession,
        EndUpdates, EndMaps, EndResults, EndCommands, KickAll
  <2> QED BY <1>3, <2>1, <2>2, <2>3, <2>4 DEF WorldThread
<1>4. CASE DelayThread
  BY <1>4, DelaySaves
<1> QED BY <1>2, <1>3, <1>4 DEF Next

-----------------------------------------------------------------------------
(* The end of the world thread.                                            *)

\* After KickAll the loop runs its sessions once more and ends; until then
\* every player has a closed session that is still to be updated.
KickedPlayers ==
  /\ stopping = "kicked" => phase \in {"add", "update", "stopped"}
  /\ phase = "stopped" => world = {} /\ stopping = "kicked"
  /\ stopping = "kicked" => \A p \in world :
       /\ p.session \in closing
       /\ phase = "update" => AccountOf[p.session] \in toUpdate \cup {updating}

\* Steps that keep the loop where it is and bring nobody into the world.
LEMMA KickedStay ==
  ASSUME KickedPlayers, world' \subseteq world, closing \subseteq closing',
         UNCHANGED <<phase, toUpdate, updating, stopping>>
  PROVE  KickedPlayers'
BY DEF KickedPlayers

\* The player of a session that UpdateSessions has come to is the one of the
\* account it updates.
LEMMA KickedUpdated ==
  ASSUME TypeOK, Places, LoginInv, phase = "update", updating # NoAccount,
         NEW p \in world, AccountOf[p.session] = updating
  PROVE  p.session = m_sessions[updating]
<1>1. p.session \in Sessions /\ status[p.session] = "live"
  BY DEF TypeOK, Player, LoginInv, PlayersInv
<1> QED BY <1>1 DEF Places, NoDeletedSession

\* Every step keeps to the plan of the last round.
LEMMA StepKicked ==
  ASSUME TypeOK, Places, PlayersInWorld, LoginInv, KickedPlayers, Next
  PROVE  KickedPlayers'
<1> USE DEF sessionVars, queueVars, loopVars, playerVars, dbVars, packetFrame
<1>1. CASE world' \subseteq world /\ closing \subseteq closing'
             /\ UNCHANGED <<phase, toUpdate, updating, stopping>>
  BY <1>1, KickedStay
<1>2. ASSUME NEW k \in Sessions, LogoutPlayer(k)
      PROVE  world' = {p \in world : p.session # k}
  BY <1>2, LogoutEffect DEF LoginInv
<1>3. \A p \in world : /\ p.session \in Sessions /\ status[p.session] = "live"
                       /\ AccountOf[p.session] \in Accounts
                       /\ m_sessions[AccountOf[p.session]] = p.session
                       /\ AccountOf[p.session] \in Listed
  <2>1. \A p \in world : /\ p.session \in Sessions /\ status[p.session] = "live"
                         /\ AccountOf[p.session] \in Accounts
    BY SessionsAssumption DEF TypeOK, Player, LoginInv, PlayersInv
  <2> QED BY <2>1, SessionsAssumption DEF Places, NoDeletedSession, Listed
<1>4. CASE Input
  <2>1. CASE \/ \E k \in Sessions : HandleAuthSession(k) \/ CloseSocket(k)
             \/ \E k \in Sessions, c \in Chars :
                  HandlePlayerLoginOpcode(k, c) \/ HandleCharDeleteOpcode(k, c)
             \/ \E k \in Sessions : HandleLogoutCancelOpcode(k)
             \/ \E p \in world : AutoSave(p)
             \/ \E a \in Accounts : KickPlayer(a)
             \/ \E limit \in Limits : HandleServerPLimitCommand(limit)
    BY <1>1, <2>1 DEF HandleAuthSession, CloseSocket, HandlePlayerLoginOpcode,
        HandleCharDeleteOpcode, HandleLogoutCancelOpcode, AutoSave, KickPlayer,
        HandleServerPLimitCommand
  <2>2. ASSUME NEW k \in Sessions, HandleLogoutRequestOpcode(k) PROVE KickedPlayers'
    <3>1. /\ LogoutPlayer(k) \/ world' = world
          /\ UNCHANGED <<closing, phase, toUpdate, updating, stopping>>
      BY <2>2 DEF HandleLogoutRequestOpcode
    <3>2. world' \subseteq world
      BY <1>2, <3>1
    <3> QED BY <1>1, <3>1, <3>2
  <2>3. ASSUME NEW p \in world, Play(p) PROVE KickedPlayers'
    <3>1. phase = "maps" /\ UNCHANGED <<phase, stopping>>
      BY <2>3 DEF Play
    <3> QED BY <3>1 DEF KickedPlayers
  <2>4. CASE StopNow
    BY <2>4 DEF StopNow, KickedPlayers
  <2> QED BY <1>4, <2>1, <2>2, <2>3, <2>4 DEF Input
<1>5. CASE WorldThread
  <2>1. CASE AddSessionRefused \/ AddSessionNew
    BY <1>1, <2>1 DEF AddSessionRefused, AddSessionNew
  <2>2. CASE AddSessionReplaces
    BY <1>1, <2>2 DEF AddSessionReplaces, LogoutPlayer
  <2>3. CASE BeginUpdates
    <3>1. /\ phase = "add" /\ phase' = "update" /\ toUpdate' = Listed
          /\ UNCHANGED <<stopping, world, closing>>
      BY <2>3 DEF BeginUpdates
    <3> QED BY <1>3, <3>1 DEF KickedPlayers
  <2>4. ASSUME NEW a \in Accounts, NextSession(a) PROVE KickedPlayers'
    <3>1. /\ phase = "update" /\ updating = NoAccount /\ updating' = a
          /\ toUpdate' = toUpdate \ {a} /\ UNCHANGED <<phase, stopping, world, closing>>
      BY <2>4 DEF NextSession
    <3>2. \A p \in world : AccountOf[p.session] # NoAccount
      BY <1>3, SessionsAssumption
    <3> QED BY <3>1, <3>2 DEF KickedPlayers
  <2>5. CASE FinishOpen \/ FinishClosed
    <3> DEFINE k == m_sessions[updating]
    <3>1. k \in Sessions
      BY <2>5 DEF FinishOpen, FinishClosed, TypeOK, Places, UpdatesListed, Listed
    <3>2. /\ phase = "update" /\ updating # NoAccount /\ updating' = NoAccount
          /\ \/ LogoutPlayer(k)
             \/ k \notin closing /\ world' = world
          /\ UNCHANGED <<phase, toUpdate, stopping, closing>>
      BY <2>5 DEF FinishOpen, FinishClosed
    <3>3. \A p \in world : AccountOf[p.session] = updating => p.session = k
      BY <3>2, KickedUpdated
    <3> HIDE DEF k
    <3>4. world' \subseteq world
      BY <1>2, <3>1, <3>2
    <3>5. stopping = "kicked" => \A p \in world' : p.session # k
      BY <1>2, <3>1, <3>2 DEF KickedPlayers
    <3> QED BY <3>2, <3>3, <3>4, <3>5 DEF KickedPlayers
  <2>6. CASE EndUpdates
    <3>1. /\ phase = "update" /\ updating = NoAccount /\ toUpdate = {}
          /\ phase' = IF stopping = "kicked" THEN "stopped" ELSE "maps"
          /\ UNCHANGED <<toUpdate, updating, stopping, world, closing>>
      BY <2>6 DEF EndUpdates
    <3>2. \A p \in world : AccountOf[p.session] # NoAccount
      BY <1>3, SessionsAssumption
    <3>3. stopping = "kicked" => world = {}
      BY <3>1, <3>2 DEF KickedPlayers
    <3> QED BY <3>1, <3>3 DEF KickedPlayers
  <2>7. CASE EndMaps \/ EndResults \/ EndCommands
    BY <2>7 DEF EndMaps, EndResults, EndCommands, KickedPlayers
  <2>8. CASE HandlePlayerLoginCallback
    <3>1. phase = "results" /\ UNCHANGED <<phase, stopping>>
      BY <2>8 DEF HandlePlayerLoginCallback
    <3> QED BY <3>1 DEF KickedPlayers
  <2>9. CASE KickAll
    <3>1. /\ closing' = closing \cup {m_sessions[a] : a \in Listed}
          /\ phase' = "add" /\ stopping' = "kicked" /\ world' = world
      BY <2>9 DEF KickAll
    <3>2. \A p \in world : p.session \in closing'
      BY <1>3, <3>1
    <3> QED BY <3>1, <3>2 DEF KickedPlayers
  <2> QED BY <1>5, <2>1, <2>2, <2>3, <2>4, <2>5, <2>6, <2>7, <2>8, <2>9 DEF WorldThread
<1>6. CASE DelayThread
  BY <1>1, <1>6 DEF DelayThread
<1> QED BY <1>4, <1>5, <1>6 DEF Next

-----------------------------------------------------------------------------
(* The theorems.                                                           *)

CharactersInv == LoginInv /\ SavesInv /\ KickedPlayers

\* It holds at the start.
LEMMA InitCharacters == Init => CharactersInv
<1> SUFFICES ASSUME Init PROVE CharactersInv
  OBVIOUS
<1>1. /\ dbQueue = <<>> /\ resultQueue = <<>> /\ world = {} /\ phase = "add"
      /\ stopping = "no"
      /\ rows = [c \in Chars |-> [exists |-> TRUE, ver |-> 0, online |-> FALSE]]
      /\ progress = [c \in Chars |-> 0]
  BY DEF Init
<1>2. DOMAIN dbQueue = {} /\ DOMAIN resultQueue = {}
  BY <1>1
<1>3. \A c \in Chars : rows[c].ver = 0 /\ ~rows[c].online /\ progress[c] = 0
  BY <1>1
<1>4. SavesReach
  BY <1>2, <1>3 DEF SavesReach, WillBeLeft, WillStore, WillBeOffline
<1>5. LoadsAfterSaves /\ HoldersSaved /\ PlayersCurrent
  BY <1>1, <1>2 DEF LoadsAfterSaves, OwnLoadsLast, HoldersSaved, PlayersCurrent
<1>6. KickedPlayers
  BY <1>1 DEF KickedPlayers
<1> QED BY <1>4, <1>5, <1>6, InitLogin DEF CharactersInv, SavesInv

\* It is inductive beside the invariant of the sessions.
LEMMA StepCharacters ==
  ASSUME CalmClients, IInv, CharactersInv, [Next]_vars
  PROVE  CharactersInv'
<1>1. LoginInv'
  BY StepLogin DEF CharactersInv
<1>2. CASE Next
  <2>1. TypeOK /\ Places /\ PlayersInWorld
    BY DEF IInv, Places
  <2> QED BY <1>1, <1>2, <2>1, StepSaves, StepKicked DEF CharactersInv
<1>3. CASE UNCHANGED vars
  <2>1. UNCHANGED <<closing, phase, stopping, toUpdate, updating, world, dbQueue, rows,
                    resultQueue, progress>>
    BY <1>3 DEF vars
  <2>2. SavesInv'
    BY <2>1, SavesFrame DEF CharactersInv
  <2>3. KickedPlayers'
    BY <2>1, KickedStay DEF CharactersInv
  <2> QED BY <1>1, <2>2, <2>3 DEF CharactersInv
<1> QED BY <1>2, <1>3

\* What is loaded, saved and still to be saved stays consistent throughout, if
\* the clients are calm.
THEOREM CharactersKept == CalmClients => (Spec => []CharactersInv)
<1> SUFFICES ASSUME CalmClients PROVE Spec => []CharactersInv
  OBVIOUS
<1>1. IInv /\ CharactersInv /\ [Next]_vars => CharactersInv'
  BY StepCharacters
<1> QED BY <1>1, InitCharacters, Invariance, PTL DEF Spec

\* Nobody enters the world but by an answered load, in the last state that the
\* character had reached.
LEMMA StepEnters ==
  ASSUME IInv, CharactersInv, Next, NEW p \in world' \ world,
         \A q \in world : q.char # p.char
  PROVE  p.ver = progress[p.char]
<1> USE DEF sessionVars, queueVars, loopVars, playerVars, dbVars, packetFrame
<1>1. TypeOK /\ Places /\ LoginInv /\ SavesInv
  BY DEF IInv, Places, CharactersInv
<1>2. CASE HandlePlayerLoginCallback
  BY <1>1, <1>2, CallbackSaves
<1>3. ASSUME NEW q \in world, Play(q) PROVE FALSE
  <2>1. world' = (world \ {q}) \cup {[q EXCEPT !.ver = @ + 1]}
    BY <1>3 DEF Play
  <2>2. [q EXCEPT !.ver = @ + 1].char = q.char
    BY <1>1 DEF TypeOK, Player
  <2> QED BY <2>1, <2>2
<1>4. CASE world' \subseteq world
  BY <1>4
<1>5. CASE Input /\ ~(\E q \in world : Play(q))
  BY <1>4, <1>5 DEF Input, HandleAuthSession, CloseSocket, HandlePlayerLoginOpcode,
      HandleCharDeleteOpcode, HandleLogoutRequestOpcode, HandleLogoutCancelOpcode,
      LogoutPlayer, AutoSave, KickPlayer, HandleServerPLimitCommand, StopNow
<1>6. CASE WorldThread /\ ~HandlePlayerLoginCallback
  BY <1>4, <1>6 DEF WorldThread, AddSessionRefused, AddSessionNew,
      AddSessionReplaces, BeginUpdates, NextSession, FinishOpen, FinishClosed,
      EndUpdates, EndMaps, EndResults, EndCommands, KickAll, LogoutPlayer
<1>7. CASE DelayThread
  BY <1>4, <1>7 DEF DelayThread
<1> QED BY <1>2, <1>3, <1>5, <1>6, <1>7 DEF Next

\* A character enters the world in the last state it had reached, however the
\* sessions of its account have followed each other: no load overtakes the
\* save of an earlier session.
THEOREM LoadsLastSave == CalmClients => (Spec => LoadSeesLastSave)
<1> SUFFICES ASSUME CalmClients PROVE Spec => LoadSeesLastSave
  OBVIOUS
<1> DEFINE Enters == \A p \in world' \ world :
                       (\A q \in world : q.char # p.char) => p.ver = progress[p.char]
<1>1. IInv /\ CharactersInv /\ [Next]_vars => [Enters]_vars
  BY StepEnters
<1>2. Spec => []CharactersInv
  BY CharactersKept
<1>3. Spec => [][Enters]_vars
  <2> HIDE DEF Enters
  <2> QED BY <1>1, <1>2, Invariance, PTL DEF Spec
<1> QED BY <1>3 DEF LoadSeesLastSave

\* When the world thread has ended and the delay thread has executed what it
\* was handed, every character is stored as it was left, marked offline.
THEOREM StoppedSaved == CalmClients => (Spec => []AllSavedAtStop)
<1> SUFFICES ASSUME CalmClients PROVE Spec => []AllSavedAtStop
  OBVIOUS
<1>1. CharactersInv => AllSavedAtStop
  <2> SUFFICES ASSUME CharactersInv, phase = "stopped"
               PROVE  /\ world = {}
                      /\ dbQueue = <<>> => \A c \in Chars : rows[c].exists =>
                           rows[c].ver = progress[c] /\ ~rows[c].online
    BY DEF AllSavedAtStop
  <2>1. world = {}
    BY DEF CharactersInv, KickedPlayers
  <2>2. \A c \in Chars : WillBeLeft(dbQueue, rows[c], c, progress[c])
    BY <2>1 DEF CharactersInv, SavesInv, SavesReach, InWorld
  <2>3. ASSUME dbQueue = <<>>, NEW c \in Chars, rows[c].exists
        PROVE  rows[c].ver = progress[c] /\ ~rows[c].online
    <3>1. DOMAIN dbQueue = {}
      BY <2>3
    <3> QED BY <2>2, <2>3, <3>1 DEF WillBeLeft, WillStore, WillBeOffline
  <2> QED BY <2>1, <2>3
<1>2. Spec => []CharactersInv
  BY CharactersKept
<1> QED BY <1>1, <1>2, PTL
=============================================================================
