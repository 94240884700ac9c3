--------------------------- MODULE WorldSessions ---------------------------
(***************************************************************************)
(* The life of the client sessions in the world server (src/game):         *)
(*                                                                         *)
(*   - a network thread authenticates a socket and hands its new session   *)
(*     to World::addSessQueue; sockets may close at any time;              *)
(*   - the world thread adds the sessions, keeps those over the player     *)
(*     limit in the wait queue, updates them, and removes those whose      *)
(*     socket has closed (World::UpdateSessions, WorldSession::Update);    *)
(*   - a character is loaded by a query holder that the delay thread       *)
(*     answers, and the answer is delivered to whatever session the        *)
(*     account has by then; logging out saves it through the same queue.   *)
(*                                                                         *)
(* A session and its socket are one to one and share a name.  The delay    *)
(* thread is the abstract one of SqlStore: first in, first out, each       *)
(* operation whole.  The text of packets is left out; a client may send    *)
(* any of them whenever its session is updated.                            *)
(***************************************************************************)
EXTENDS Integers, Sequences, FiniteSets, Functions

CONSTANTS
  Accounts, AccountOf,     \* AccountOf[k]: the account of session k
  Security,                \* Security[a]: the security level, 0 is SEC_PLAYER
  Sessions, NoSession,
  Chars, OwnerOf, NoChar,  \* OwnerOf[c]: the account of character c
  NoAccount,
  InitLimit, Limits,       \* m_playerLimit at the start, and those set later
  CalmClients,             \* environment: see Calm
  MaxLogins, MaxProgress   \* bounds: character loads, changes of a character

ASSUME SessionsAssumption ==
  /\ AccountOf \in [Sessions -> Accounts]
  /\ Security \in [Accounts -> 0..3]
  /\ NoSession \notin Sessions
  /\ NoAccount \notin Accounts
ASSUME CharsAssumption ==
  /\ OwnerOf \in [Chars -> Accounts]
  /\ NoChar \notin Chars
ASSUME LimitAssumption ==
  /\ InitLimit \in Int
  /\ Limits \subseteq Int
  /\ CalmClients \in BOOLEAN
  /\ MaxLogins \in Nat /\ MaxProgress \in Nat

VARIABLES
  status,          \* of each session: see TypeOK
  closing,         \* the sessions whose socket has closing_ set
  addSessQueue,    \* World::addSessQueue
  m_sessions,      \* World::m_sessions
  m_QueuedPlayer,  \* World::m_QueuedPlayer
  inQueue,         \* the sessions with m_inQueue
  m_playerLimit,
  phase,           \* where the world thread is in its loop
  toUpdate,        \* the accounts UpdateSessions has not reached yet
  updating,        \* the account whose session is in WorldSession::Update
  stopping,        \* "no", "event" (m_stopEvent) or "kicked" (after KickAll)
  player,          \* WorldSession::_player, as the name of the character
  loading,         \* the sessions with m_playerLoading
  logoutTime,      \* the sessions with _logoutTime # 0
  world,           \* the Player objects in the world
  dbQueue,         \* operations handed to the delay thread of the characters
  rows,            \* the characters table
  resultQueue,     \* answered login holders
  logins,          \* loads asked for so far
  progress         \* history: the last state each character had reached

sessionVars == <<status, closing, addSessQueue, m_sessions>>
queueVars == <<m_QueuedPlayer, inQueue, m_playerLimit>>
loopVars == <<phase, toUpdate, updating, stopping>>
playerVars == <<player, loading, logoutTime, world>>
dbVars == <<dbQueue, rows, resultQueue, logins, progress>>
vars == <<status, closing, addSessQueue, m_sessions, m_QueuedPlayer, inQueue,
          m_playerLimit, phase, toUpdate, updating, stopping, player, loading,
          logoutTime, world, dbQueue, rows, resultQueue, logins, progress>>

Player == [char : Chars, session : Sessions, ver : Nat]
Row == [exists : BOOLEAN, ver : Nat, online : BOOLEAN]
DbOperation ==
       [op : {"save"}, char : Chars, ver : Nat]
  \cup [op : {"delete", "online"}, char : Chars]
  \cup [op : {"offline"}, account : Accounts]
  \cup [op : {"load"}, char : Chars, session : Sessions]
Holder == [char : Chars, session : Sessions, row : Row]

TypeOK ==
  /\ status \in [Sessions -> {"none", "adding", "live", "deleted"}]
  /\ closing \subseteq Sessions
  /\ addSessQueue \in Seq(Sessions)
  /\ m_sessions \in [Accounts -> Sessions \cup {NoSession}]
  /\ m_QueuedPlayer \in Seq(Sessions)
  /\ inQueue \subseteq Sessions
  /\ m_playerLimit \in Int
  /\ phase \in {"add", "update", "maps", "results", "cli", "stopped"}
  /\ toUpdate \subseteq Accounts
  /\ updating \in Accounts \cup {NoAccount}
  /\ stopping \in {"no", "event", "kicked"}
  /\ player \in [Sessions -> Chars \cup {NoChar}]
  /\ loading \subseteq Sessions
  /\ logoutTime \subseteq Sessions
  /\ world \subseteq Player
  /\ dbQueue \in Seq(DbOperation)
  /\ rows \in [Chars -> Row]
  /\ resultQueue \in Seq(Holder)
  /\ logins \in Nat
  /\ progress \in [Chars -> Nat]

Init ==
  /\ status = [k \in Sessions |-> "none"]
  /\ closing = {}
  /\ addSessQueue = <<>>
  /\ m_sessions = [a \in Accounts |-> NoSession]
  /\ m_QueuedPlayer = <<>>
  /\ inQueue = {}
  /\ m_playerLimit = InitLimit
  /\ phase = "add"
  /\ toUpdate = {}
  /\ updating = NoAccount
  /\ stopping = "no"
  /\ player = [k \in Sessions |-> NoChar]
  /\ loading = {}
  /\ logoutTime = {}
  /\ world = {}
  /\ dbQueue = <<>>
  /\ rows = [c \in Chars |-> [exists |-> TRUE, ver |-> 0, online |-> FALSE]]
  /\ resultQueue = <<>>
  /\ logins = 0
  /\ progress = [c \in Chars |-> 0]

-----------------------------------------------------------------------------
(* Operators on the state.                                                 *)

Listed == {a \in Accounts : m_sessions[a] # NoSession}
GetActiveAndQueuedSessionCount(sessions) ==
  Cardinality({a \in Accounts : sessions[a] # NoSession})
GetActiveSessionCount(sessions, queue) ==
  GetActiveAndQueuedSessionCount(sessions) - Len(queue)
GetPlayerAmountLimit == IF m_playerLimit >= 0 THEN m_playerLimit ELSE 0
GetPlayerSecurityLimit == IF m_playerLimit <= 0 THEN -m_playerLimit ELSE 0

Position(queue, k) == CHOOSE i \in DOMAIN queue : queue[i] = k
\* The queue without session k.
Erase(queue, k) ==
  IF k \notin Range(queue)
    THEN queue
    ELSE [j \in 1..(Len(queue) - 1) |->
            IF j < Position(queue, k) THEN queue[j] ELSE queue[j + 1]]

\* Active sessions but for k, which is being removed.
\* Mutant: k is counted.
OthersActiveAndOwn(k) == GetActiveSessionCount(m_sessions, m_QueuedPlayer)
OthersActive(k) ==
  LET active == GetActiveSessionCount(m_sessions, m_QueuedPlayer)
  IN IF k \notin Range(m_QueuedPlayer) /\ active # 0 THEN active - 1 ELSE active

\* Mutant: one more than the limit.
HasPlaceOver(others) == m_playerLimit = 0 \/ others <= m_playerLimit
HasPlace(others) == m_playerLimit = 0 \/ others < m_playerLimit

\* The session let in: the first in the queue.  Mutant: the last.
NextInLast(queue) == queue[Len(queue)]
NextIn(queue) == queue[1]

\* World::RemoveQueuedPlayer(k): the new wait queue, whether k was in it, and
\* the sessions whose m_inQueue it clears.  One session at most is let in.
\* Mutant: the session let in keeps its flag.
RemoveQueuedPlayerFlagged(k) ==
  LET rest == Erase(m_QueuedPlayer, k)
  IN [queue |-> IF HasPlace(OthersActive(k)) /\ rest # <<>>
                  THEN Erase(rest, NextIn(rest)) ELSE rest,
      found  |-> k \in Range(m_QueuedPlayer),
      passed |-> {k} \cap Range(m_QueuedPlayer)]
RemoveQueuedPlayer(k) ==
  LET rest == Erase(m_QueuedPlayer, k)
      letIn == IF HasPlace(OthersActive(k)) /\ rest # <<>> THEN {NextIn(rest)} ELSE {}
  IN [queue  |-> IF letIn = {} THEN rest ELSE Erase(rest, NextIn(rest)),
      found  |-> k \in Range(m_QueuedPlayer),
      passed |-> ({k} \cap Range(m_QueuedPlayer)) \cup letIn]

\* The Player object session k controls: none, or one.
Controlled(k) == {p \in world : p.session = k /\ p.char = player[k]}
\* What WorldSession::LogoutPlayer hands to the delay thread: the save of the
\* character, and online = 0 for all characters of the account.
Saved(k) == {[op |-> "save", char |-> p.char, ver |-> p.ver] : p \in Controlled(k)}
Offline(k) == [op |-> "offline", account |-> AccountOf[k]]
\* Mutants: the character is not saved; it is marked offline before the save.
LogoutOperationsUnsaved(k) ==
  IF player[k] = NoChar THEN <<>> ELSE <<Offline(k)>>
LogoutOperationsOfflineFirst(k) ==
  IF player[k] = NoChar THEN <<>>
                        ELSE <<Offline(k), CHOOSE s \in Saved(k) : TRUE>>
LogoutOperations(k) ==
  IF player[k] = NoChar THEN <<>>
                        ELSE <<CHOOSE s \in Saved(k) : TRUE, Offline(k)>>

\* WorldSession::LogoutPlayer(true)
LogoutPlayer(k) ==
  /\ world' = world \ Controlled(k)
  /\ player' = [player EXCEPT ![k] = NoChar]
  /\ logoutTime' = logoutTime \ {k}
  /\ dbQueue' = dbQueue \o LogoutOperations(k)

-----------------------------------------------------------------------------
(* The clients and the network threads.                                    *)

Unanswered(k) ==
  \/ \E i \in DOMAIN dbQueue : dbQueue[i].op = "load" /\ dbQueue[i].session = k
  \/ \E i \in DOMAIN resultQueue : resultQueue[i].session = k
SameAccount(k) == {j \in Sessions \ {k} : AccountOf[j] = AccountOf[k]}

\* The environment that CalmClients assumes: an account does not connect
\* again while a load asked for over a closed connection is unanswered, ...
CalmConnect(k) ==
  CalmClients => \A j \in SameAccount(k) :
                   Unanswered(j) => j \in loading \ closing
\* ... and a connection that loads does not close while the next one of the
\* account waits to be added.
CalmClose(k) ==
  CalmClients /\ k \in loading => \A j \in SameAccount(k) : status[j] # "adding"

\* WorldSocket::HandleAuthSession: the checks passed, World::AddSession.
HandleAuthSession(k) ==
  /\ status[k] = "none"
  /\ GetPlayerSecurityLimit > 0 => Security[AccountOf[k]] >= GetPlayerSecurityLimit
  /\ CalmConnect(k)
  /\ status' = [status EXCEPT ![k] = "adding"]
  /\ addSessQueue' = Append(addSessQueue, k)
  /\ UNCHANGED <<closing, m_sessions, queueVars, loopVars, playerVars, dbVars>>

\* The peer closes, or a network thread closes the socket after an error.
CloseSocket(k) ==
  /\ status[k] \in {"adding", "live"}
  /\ k \notin closing
  /\ CalmClose(k)
  /\ closing' = closing \cup {k}
  /\ UNCHANGED <<status, addSessQueue, m_sessions, queueVars, loopVars,
                 playerVars, dbVars>>

-----------------------------------------------------------------------------
(* The world thread: World::UpdateSessions.                                *)

\* AddSession_ when RemoveSession refuses: the session of the account is
\* loading a character; the new one is kicked and deleted.
AddSessionRefused ==
  /\ phase = "add"
  /\ addSessQueue # <<>>
  /\ LET k == Head(addSessQueue)
         old == m_sessions[AccountOf[k]]
     IN /\ old \in loading
        /\ closing' = closing \cup {k}
        /\ status' = [status EXCEPT ![k] = "deleted"]
  /\ addSessQueue' = Tail(addSessQueue)
  /\ UNCHANGED <<m_sessions, queueVars, loopVars, playerVars, dbVars>>

\* AddSession_ for an account with no session: over the limit the new
\* session waits.
AddSessionNew ==
  /\ phase = "add"
  /\ addSessQueue # <<>>
  /\ LET k == Head(addSessQueue)
         a == AccountOf[k]
         sessions == GetActiveAndQueuedSessionCount([m_sessions EXCEPT ![a] = k]) - 1
     IN /\ m_sessions[a] = NoSession
        /\ m_sessions' = [m_sessions EXCEPT ![a] = k]
        /\ status' = [status EXCEPT ![k] = "live"]
        /\ IF /\ GetPlayerAmountLimit > 0
              /\ sessions >= GetPlayerAmountLimit
              /\ Security[a] = 0
             THEN /\ m_QueuedPlayer' = Append(m_QueuedPlayer, k)
                  /\ inQueue' = inQueue \cup {k}
             ELSE UNCHANGED <<m_QueuedPlayer, inQueue>>
  /\ addSessQueue' = Tail(addSessQueue)
  /\ UNCHANGED <<closing, m_playerLimit, loopVars, playerVars, dbVars>>

\* AddSession_ for an account that has a session: the old one is kicked, taken
\* from the wait queue, logged out and deleted, and the new one replaces it.
AddSessionReplaces ==
  /\ phase = "add"
  /\ addSessQueue # <<>>
  /\ LET k == Head(addSessQueue)
         a == AccountOf[k]
         old == m_sessions[a]
         removed == RemoveQueuedPlayer(old)
         total == GetActiveAndQueuedSessionCount(m_sessions)
         sessions == IF removed.found THEN total ELSE total - 1
     IN /\ old # NoSession
        /\ old \notin loading
        /\ closing' = closing \cup {old}
        /\ LogoutPlayer(old)
        /\ m_sessions' = [m_sessions EXCEPT ![a] = k]
        /\ status' = [status EXCEPT ![old] = "deleted", ![k] = "live"]
        /\ IF /\ GetPlayerAmountLimit > 0
              /\ sessions >= GetPlayerAmountLimit
              /\ Security[a] = 0
             THEN /\ m_QueuedPlayer' = Append(removed.queue, k)
                  /\ inQueue' = (inQueue \ removed.passed) \cup {k}
             ELSE /\ m_QueuedPlayer' = removed.queue
                  /\ inQueue' = inQueue \ removed.passed
  /\ addSessQueue' = Tail(addSessQueue)
  /\ UNCHANGED <<m_playerLimit, loopVars, loading, rows, resultQueue, logins,
                 progress>>

\* Mutant: the sessions that wait are not updated.
BeginActiveUpdates ==
  /\ phase = "add"
  /\ addSessQueue = <<>>
  /\ phase' = "update"
  /\ toUpdate' = {a \in Listed : m_sessions[a] \notin inQueue}
  /\ UNCHANGED <<updating, stopping, sessionVars, queueVars, playerVars, dbVars>>

BeginUpdates ==
  /\ phase = "add"
  /\ addSessQueue = <<>>
  /\ phase' = "update"
  /\ toUpdate' = Listed
  /\ UNCHANGED <<updating, stopping, sessionVars, queueVars, playerVars, dbVars>>

NextSession(a) ==
  /\ phase = "update"
  /\ updating = NoAccount
  /\ a \in toUpdate
  /\ updating' = a
  /\ toUpdate' = toUpdate \ {a}
  /\ UNCHANGED <<phase, stopping, sessionVars, queueVars, playerVars, dbVars>>

\* All sessions updated; at shutdown the world thread ends here.
EndUpdates ==
  /\ phase = "update"
  /\ updating = NoAccount
  /\ toUpdate = {}
  /\ phase' = IF stopping = "kicked" THEN "stopped" ELSE "maps"
  /\ UNCHANGED <<toUpdate, updating, stopping, sessionVars, queueVars, playerVars,
                 dbVars>>

-----------------------------------------------------------------------------
(* WorldSession::Update of the session k of the account updating: packets  *)
(* are handled while its socket is open.                                   *)

Handles(k) ==
  /\ phase = "update"
  /\ updating # NoAccount
  /\ k = m_sessions[updating]
  /\ k \notin closing

packetFrame == <<sessionVars, queueVars, loopVars>>

\* Mutant: a second login is not refused while the first one loads.
HandleSecondLoginOpcode(k, c) ==
  /\ Handles(k)
  /\ k \notin inQueue
  /\ logins < MaxLogins
  /\ loading' = loading \cup {k}
  /\ dbQueue' = Append(dbQueue, [op |-> "load", char |-> c, session |-> k])
  /\ logins' = logins + 1
  /\ UNCHANGED <<packetFrame, player, logoutTime, world, rows, resultQueue, progress>>

\* CMSG_PLAYER_LOGIN, STATUS_AUTHED.
HandlePlayerLoginOpcode(k, c) ==
  /\ Handles(k)
  /\ k \notin inQueue
  /\ k \notin loading
  /\ player[k] = NoChar
  /\ logins < MaxLogins
  /\ loading' = loading \cup {k}
  /\ dbQueue' = Append(dbQueue, [op |-> "load", char |-> c, session |-> k])
  /\ logins' = logins + 1
  /\ UNCHANGED <<packetFrame, player, logoutTime, world, rows, resultQueue, progress>>

\* CMSG_CHAR_DELETE, STATUS_AUTHED: the row is read directly, the deletion is
\* queued.
HandleCharDeleteOpcode(k, c) ==
  /\ Handles(k)
  /\ k \notin inQueue
  /\ \A p \in world : p.char # c
  /\ rows[c].exists
  /\ OwnerOf[c] = AccountOf[k]
  /\ \A i \in DOMAIN dbQueue : dbQueue[i] # [op |-> "delete", char |-> c]  \* bound
  /\ dbQueue' = Append(dbQueue, [op |-> "delete", char |-> c])
  /\ UNCHANGED <<packetFrame, playerVars, rows, resultQueue, logins, progress>>

\* CMSG_LOGOUT_REQUEST, STATUS_LOGGEDIN: refused, at once, or in 20 seconds.
HandleLogoutRequestOpcode(k) ==
  /\ Handles(k)
  /\ player[k] # NoChar
  /\ \/ LogoutPlayer(k)
     \/ /\ logoutTime' = logoutTime \cup {k}
        /\ UNCHANGED <<player, world, dbQueue>>
     \/ /\ logoutTime' = logoutTime \ {k}
        /\ UNCHANGED <<player, world, dbQueue>>
  /\ UNCHANGED <<packetFrame, loading, rows, resultQueue, logins, progress>>

\* CMSG_LOGOUT_CANCEL
HandleLogoutCancelOpcode(k) ==
  /\ Handles(k)
  /\ player[k] # NoChar
  /\ k \in logoutTime
  /\ logoutTime' = logoutTime \ {k}
  /\ UNCHANGED <<packetFrame, player, loading, world, dbVars>>

\* The end of Update for an open socket: a logout may be due.
FinishOpen ==
  /\ phase = "update"
  /\ updating # NoAccount
  /\ LET k == m_sessions[updating]
     IN /\ k \notin closing
        /\ \/ /\ k \in logoutTime \ loading
              /\ LogoutPlayer(k)
           \/ UNCHANGED <<player, logoutTime, world, dbQueue>>
  /\ updating' = NoAccount
  /\ UNCHANGED <<phase, toUpdate, stopping, sessionVars, queueVars, loading, rows,
                 resultQueue, logins, progress>>

\* Mutant: the session stays in the wait queue.
FinishClosedQueued ==
  /\ phase = "update"
  /\ updating # NoAccount
  /\ LET k == m_sessions[updating]
     IN /\ k \in closing
        /\ LogoutPlayer(k)
        /\ status' = [status EXCEPT ![k] = "deleted"]
        /\ loading' = loading \ {k}
        /\ m_sessions' = [m_sessions EXCEPT ![updating] = NoSession]
  /\ updating' = NoAccount
  /\ UNCHANGED <<closing, addSessQueue, queueVars, phase, toUpdate, stopping, rows,
                 resultQueue, logins, progress>>

\* The end of Update for a closed socket: the character is saved, and the
\* session leaves the wait queue and the list and is deleted.
FinishClosed ==
  /\ phase = "update"
  /\ updating # NoAccount
  /\ LET k == m_sessions[updating]
         removed == RemoveQueuedPlayer(k)
     IN /\ k \in closing
        /\ LogoutPlayer(k)
        /\ m_QueuedPlayer' = removed.queue
        /\ inQueue' = inQueue \ removed.passed
        /\ status' = [status EXCEPT ![k] = "deleted"]
        /\ loading' = loading \ {k}
        /\ m_sessions' = [m_sessions EXCEPT ![updating] = NoSession]
  /\ updating' = NoAccount
  /\ UNCHANGED <<closing, addSessQueue, m_playerLimit, phase, toUpdate, stopping,
                 rows, resultQueue, logins, progress>>

-----------------------------------------------------------------------------
(* The world thread: maps, results, commands.                              *)

\* A character changes while the maps are updated.
Play(p) ==
  /\ phase = "maps"
  /\ p \in world
  /\ p.ver < MaxProgress
  /\ world' = (world \ {p}) \cup {[p EXCEPT !.ver = @ + 1]}
  /\ progress' = [progress EXCEPT ![p.char] = p.ver + 1]
  /\ UNCHANGED <<sessionVars, queueVars, loopVars, player, loading, logoutTime,
                 dbQueue, rows, resultQueue, logins>>

\* Player::Update: the autosave.
AutoSave(p) ==
  /\ phase = "maps"
  /\ p \in world
  /\ \A i \in DOMAIN dbQueue : dbQueue[i].op # "save"                      \* bound
  /\ dbQueue' = Append(dbQueue, [op |-> "save", char |-> p.char, ver |-> p.ver])
  /\ UNCHANGED <<sessionVars, queueVars, loopVars, playerVars, rows, resultQueue,
                 logins, progress>>

EndMaps ==
  /\ phase = "maps"
  /\ phase' = "results"
  /\ UNCHANGED <<toUpdate, updating, stopping, sessionVars, queueVars, playerVars,
                 dbVars>>

\* Mutants: the account without a session is not refused; m_playerLoading
\* stays set.
HandlePlayerLoginCallbackAnyway ==
  /\ phase = "results"
  /\ resultQueue # <<>>
  /\ LET holder == Head(resultQueue)
         a == AccountOf[holder.session]
         k == m_sessions[a]
         c == holder.char
     IN IF holder.row.exists /\ OwnerOf[c] = a
          THEN /\ world' = world \cup {[char |-> c, session |-> k,
                                        ver |-> holder.row.ver]}
               /\ player' = [player EXCEPT ![k] = c]
               /\ dbQueue' = Append(dbQueue, [op |-> "online", char |-> c])
               /\ UNCHANGED closing
          ELSE /\ closing' = closing \cup {k}
               /\ UNCHANGED <<player, world, dbQueue>>
  /\ loading' = loading \ {m_sessions[AccountOf[Head(resultQueue).session]]}
  /\ resultQueue' = Tail(resultQueue)
  /\ UNCHANGED <<status, addSessQueue, m_sessions, queueVars, loopVars, logoutTime,
                 rows, logins, progress>>
HandlePlayerLoginCallbackLoading ==
  /\ phase = "results"
  /\ resultQueue # <<>>
  /\ LET holder == Head(resultQueue)
         k == m_sessions[AccountOf[holder.session]]
         c == holder.char
     IN IF k # NoSession /\ holder.row.exists
          THEN /\ world' = world \cup {[char |-> c, session |-> k,
                                        ver |-> holder.row.ver]}
               /\ player' = [player EXCEPT ![k] = c]
               /\ dbQueue' = Append(dbQueue, [op |-> "online", char |-> c])
          ELSE UNCHANGED <<player, world, dbQueue>>
  /\ resultQueue' = Tail(resultQueue)
  /\ UNCHANGED <<sessionVars, queueVars, loopVars, loading, logoutTime, rows, logins,
                 progress>>

\* CharacterHandler::HandlePlayerLoginCallback: the session is looked up by
\* account; HandlePlayerLogin builds the player, or kicks the client when the
\* row is missing or belongs to another account.
HandlePlayerLoginCallback ==
  /\ phase = "results"
  /\ resultQueue # <<>>
  /\ LET holder == Head(resultQueue)
         k == m_sessions[AccountOf[holder.session]]
         c == holder.char
     IN \/ /\ k = NoSession
           /\ UNCHANGED <<closing, playerVars, dbQueue>>
        \/ /\ k # NoSession
           /\ ~(holder.row.exists /\ OwnerOf[c] = AccountOf[k])
           /\ closing' = closing \cup {k}
           /\ loading' = loading \ {k}
           /\ UNCHANGED <<player, logoutTime, world, dbQueue>>
        \/ /\ k # NoSession
           /\ holder.row.exists /\ OwnerOf[c] = AccountOf[k]
           /\ world' = world \cup {[char |-> c, session |-> k, ver |-> holder.row.ver]}
           /\ player' = [player EXCEPT ![k] = c]
           /\ loading' = loading \ {k}
           /\ dbQueue' = Append(dbQueue, [op |-> "online", char |-> c])
           /\ UNCHANGED <<closing, logoutTime>>
  /\ resultQueue' = Tail(resultQueue)
  /\ UNCHANGED <<status, addSessQueue, m_sessions, queueVars, loopVars, rows, logins,
                 progress>>

EndResults ==
  /\ phase = "results"
  /\ resultQueue = <<>>
  /\ phase' = "cli"
  /\ UNCHANGED <<toUpdate, updating, stopping, sessionVars, queueVars, playerVars,
                 dbVars>>

\* World::BanAccount, .kick: the session of an account is kicked.
KickPlayer(a) ==
  /\ phase = "cli"
  /\ m_sessions[a] # NoSession
  /\ CalmClose(m_sessions[a])
  /\ closing' = closing \cup {m_sessions[a]}
  /\ UNCHANGED <<status, addSessQueue, m_sessions, queueVars, loopVars, playerVars,
                 dbVars>>

\* ChatHandler::HandleServerPLimitCommand: SetPlayerLimit, and KickAllLess
\* only if there is an amount limit.
HandleServerPLimitCommand(limit) ==
  /\ phase = "cli"
  /\ m_playerLimit' = limit
  /\ LET amount == IF limit >= 0 THEN limit ELSE 0
         security == IF limit <= 0 THEN -limit ELSE 0
     IN closing' = IF amount > 0
                     THEN closing \cup {m_sessions[a] : a \in
                            {b \in Listed : Security[b] < security}}
                     ELSE closing
  /\ UNCHANGED <<status, addSessQueue, m_sessions, m_QueuedPlayer, inQueue, loopVars,
                 playerVars, dbVars>>

\* World::StopNow, from a command.
StopNow ==
  /\ phase = "cli"
  /\ stopping = "no"
  /\ stopping' = "event"
  /\ UNCHANGED <<phase, toUpdate, updating, sessionVars, queueVars, playerVars, dbVars>>

EndCommands ==
  /\ phase = "cli"
  /\ stopping = "no"
  /\ phase' = "add"
  /\ UNCHANGED <<toUpdate, updating, stopping, sessionVars, queueVars, playerVars,
                 dbVars>>

\* The end of WorldRunnable::run: KickAll, then UpdateSessions once more.
KickAll ==
  /\ phase = "cli"
  /\ stopping = "event"
  /\ m_QueuedPlayer' = <<>>
  /\ closing' = closing \cup {m_sessions[a] : a \in Listed}
  /\ stopping' = "kicked"
  /\ phase' = "add"
  /\ UNCHANGED <<status, addSessQueue, m_sessions, inQueue, m_playerLimit, toUpdate,
                 updating, playerVars, dbVars>>

-----------------------------------------------------------------------------
(* The delay thread executes the oldest operation.                         *)

Answer(op) == [char |-> op.char, session |-> op.session, row |-> rows[op.char]]

Perform(op) ==
  \/ /\ op.op = "save"
     /\ rows' = [rows EXCEPT ![op.char] =
                   [exists |-> TRUE, ver |-> op.ver, online |-> TRUE]]
     /\ UNCHANGED resultQueue
  \/ /\ op.op = "delete"
     /\ rows' = [rows EXCEPT ![op.char].exists = FALSE]
     /\ UNCHANGED resultQueue
  \/ /\ op.op = "online"
     /\ rows' = [rows EXCEPT ![op.char].online = rows[op.char].exists]
     /\ UNCHANGED resultQueue
  \/ /\ op.op = "offline"
     /\ rows' = [c \in Chars |->
                   [rows[c] EXCEPT !.online = @ /\ OwnerOf[c] # op.account]]
     /\ UNCHANGED resultQueue
  \/ /\ op.op = "load"
     /\ resultQueue' = Append(resultQueue, Answer(op))
     /\ UNCHANGED rows

DelayThread ==
  /\ dbQueue # <<>>
  /\ Perform(Head(dbQueue))
  /\ dbQueue' = Tail(dbQueue)
  /\ UNCHANGED <<sessionVars, queueVars, loopVars, playerVars, logins, progress>>

-----------------------------------------------------------------------------
(* The steps the world thread is sure to take.                             *)
WorldThread ==
  \/ AddSessionRefused \/ AddSessionNew \/ AddSessionReplaces
  \/ BeginUpdates \/ (\E a \in Accounts : NextSession(a))
  \/ FinishOpen \/ FinishClosed \/ EndUpdates
  \/ EndMaps \/ HandlePlayerLoginCallback \/ EndResults
  \/ EndCommands \/ KickAll

\* The steps that depend on a client or on an operator.
Input ==
  \/ \E k \in Sessions : HandleAuthSession(k) \/ CloseSocket(k)
  \/ \E k \in Sessions, c \in Chars :
       HandlePlayerLoginOpcode(k, c) \/ HandleCharDeleteOpcode(k, c)
  \/ \E k \in Sessions : HandleLogoutRequestOpcode(k) \/ HandleLogoutCancelOpcode(k)
  \/ \E p \in world : Play(p) \/ AutoSave(p)
  \/ \E a \in Accounts : KickPlayer(a)
  \/ \E limit \in Limits : HandleServerPLimitCommand(limit)
  \/ StopNow

Next == Input \/ WorldThread \/ DelayThread

Spec == Init /\ [][Next]_vars /\ WF_vars(WorldThread) /\ WF_vars(DelayThread)

-----------------------------------------------------------------------------
(* Properties.                                                             *)

\* The list, the wait queue and addSessQueue name only sessions that are not
\* deleted, each where it belongs and once: no deleted session is used.
NoDeletedSession ==
  /\ \A a \in Listed : status[m_sessions[a]] = "live" /\ AccountOf[m_sessions[a]] = a
  /\ \A k \in Sessions : status[k] = "live" => m_sessions[AccountOf[k]] = k
  /\ \A k \in Range(addSessQueue) : status[k] = "adding"
  /\ \A k \in Range(m_QueuedPlayer) : status[k] = "live"
  /\ IsInjective(addSessQueue) /\ IsInjective(m_QueuedPlayer)

\* Until the server stops, a live session waits exactly if it is in the wait
\* queue: none is let in twice or held back for ever with the flag set.
WaitsIffQueued ==
  stopping # "kicked" =>
    \A k \in Sessions : status[k] = "live" =>
      ((k \in inQueue) <=> (k \in Range(m_QueuedPlayer)))

\* Active sessions of the plain accounts.
ActivePlayers(sessions, queue) ==
  {a \in Accounts : /\ sessions[a] # NoSession
                    /\ sessions[a] \notin Range(queue)
                    /\ Security[a] = 0}

\* However sessions are replaced, refused and removed, and whatever the limit
\* becomes meanwhile, no plain account is let in beyond the limit of the moment.
AdmittedWithinLimit ==
  [][LET before == ActivePlayers(m_sessions, m_QueuedPlayer)
         after == ActivePlayers(m_sessions', m_QueuedPlayer')
     IN m_playerLimit > 0 /\ stopping' # "kicked" /\ ~(after \subseteq before)
          => Cardinality(after) <= m_playerLimit]_vars

\* A place that a session leaves goes to one that waits: as long as the limit
\* stays, no step makes somebody wait beside a free place.
WaitsBesidePlace ==
  /\ m_playerLimit > 0 /\ m_QueuedPlayer # <<>>
  /\ GetActiveSessionCount(m_sessions, m_QueuedPlayer) < m_playerLimit
NoPlaceLeftEmpty ==
  [][m_playerLimit' = m_playerLimit /\ stopping' # "kicked" /\ ~WaitsBesidePlace
       => ~WaitsBesidePlace']_vars

\* The wait queue is first come, first served: while a session waits nobody
\* gets ahead of it, and a live one that leaves the queue leaves nobody behind
\* who was ahead of it.
Ahead(queue, k) == {queue[i] : i \in 1..(Position(queue, k) - 1)}
QueueKeepsOrder ==
  [][\A k \in Range(m_QueuedPlayer) :
       IF k \in Range(m_QueuedPlayer')
         THEN Ahead(m_QueuedPlayer', k) \subseteq Ahead(m_QueuedPlayer, k)
         ELSE status'[k] = "live" =>
                Ahead(m_QueuedPlayer, k) \cap Range(m_QueuedPlayer') = {}]_vars

\* "each account can only have one online character at any given time"
\* (WorldSession.cpp).
OneCharacterOnline ==
  \A p, q \in world : OwnerOf[p.char] = OwnerOf[q.char] => p = q

\* A character enters the world in the last state it had reached: its load
\* is never overtaken by the save of an earlier session.
LoadSeesLastSave ==
  [][\A p \in world' \ world :
       (\A q \in world : q.char # p.char) => p.ver = progress[p.char]]_vars

\* "save and kick all players" (WorldRunnable.cpp): once the world thread has
\* ended and the delay thread has executed what it was handed, nobody is in
\* the world and every character is stored as it was left, marked offline.
AllSavedAtStop ==
  phase = "stopped" =>
    /\ world = {}
    /\ dbQueue = <<>> =>
         \A c \in Chars : rows[c].exists =>
           rows[c].ver = progress[c] /\ ~rows[c].online

\* A session whose socket has closed is removed, wherever it is by then:
\* waiting to be added, in the wait queue or playing.
ClosedSessionRemoved ==
  \A k \in Sessions :
    (k \in closing /\ status[k] \in {"adding", "live"}) ~>
      (status[k] = "deleted" \/ phase = "stopped")

\* A load is answered: no session stays in loading for ever, which would
\* also refuse the account every later session.
LoadingEnds ==
  \A k \in Sessions : (k \in loading) ~> (k \notin loading \/ phase = "stopped")
=============================================================================
