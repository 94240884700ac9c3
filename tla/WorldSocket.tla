---------------------------- MODULE WorldSocket ----------------------------
(***************************************************************************)
(* The life of client sockets and of the sessions behind them               *)
(* (src/game/WorldSocket.cpp, WorldSocketMgr.cpp, WorldSession.cpp, and the *)
(* ACE_Dev_Poll_Reactor that calls the sockets).  A socket is destroyed     *)
(* when its reference count reaches zero.  Three threads change it: the     *)
(* acceptor opens it, its network thread reads packets and creates its      *)
(* session, the world thread kicks and deletes the session.  A thread's     *)
(* step goes from one lock or unlocked access of shared state to the next.  *)
(*                                                                         *)
(* Abstracted: what packets say; the output (module SocketOutput), of which *)
(* only the write events that can end a socket are here; the accounts of    *)
(* sessions and the wait queue (module WorldSessions).                      *)
(***************************************************************************)
EXTENDS Integers, FiniteSets

CONSTANTS
  Sockets, NoSocket,
  Sessions, NoSession,  \* bound: the sessions there can be
  MaxPackets            \* bound: the packets a socket receives

ASSUME SocketsAssumption ==
  /\ NoSocket \notin Sockets /\ NoSession \notin Sessions
  /\ IsFiniteSet(Sessions) /\ MaxPackets \in Nat

VARIABLES
  life,        \* "none", "live" or "deleted"
  refs,        \* the reference count of ACE_Event_Handler
  closing,     \* closing_
  session,     \* m_Session
  mask,        \* the events the reactor waits for
  bound,       \* sockets in the reactor's handler repository
  newSockets,  \* m_NewSockets
  sockets,     \* m_Sockets
  status,      \* of a session
  sock,        \* m_Socket of a session
  gone,        \* the peers that closed the connection
  received,    \* packets so far, a bound
  acc, net, wrld  \* what the three threads do

socketVars == <<life, refs, closing, session, mask, bound>>
listVars == <<newSockets, sockets>>
sessionVars == <<status, sock>>
peerVars == <<gone, received>>
vars == <<socketVars, listVars, sessionVars, peerVars, acc, net, wrld>>

Masks == {"READ", "WRITE"}

\* The types; a reference count is never negative.
TypeOK ==
  /\ life \in [Sockets -> {"none", "live", "deleted"}]
  /\ refs \in [Sockets -> Nat]
  /\ closing \in [Sockets -> BOOLEAN]
  /\ session \in [Sockets -> Sessions \cup {NoSession}]
  /\ mask \in [Sockets -> SUBSET Masks]
  /\ bound \subseteq Sockets /\ newSockets \subseteq Sockets
  /\ sockets \subseteq Sockets /\ gone \subseteq Sockets
  \* A session that is "lost" was never given to the world.
  /\ status \in [Sessions -> {"none", "made", "queued", "listed", "deleted", "lost"}]
  /\ sock \in [Sessions -> Sockets \cup {NoSocket}]
  /\ received \in [Sockets -> 0..MaxPackets]
  /\ acc \in [at : {"idle", "open", "register", "opened", "close"},
              s : Sockets \cup {NoSocket}]
  /\ net \in [at : {"idle", "input", "packet", "made", "failed", "forget",
                    "unbind", "drop", "dropForget", "dropped"},
              s : Sockets \cup {NoSocket}, guard : BOOLEAN,
              ev : SUBSET Masks, x : Sessions \cup {NoSession}]
  /\ wrld \in [at : {"idle", "close", "forget", "release", "delete"},
               x : Sessions \cup {NoSession}, deletes : BOOLEAN]

Idle == [at |-> "idle", s |-> NoSocket]
NetIdle == [at |-> "idle", s |-> NoSocket, guard |-> FALSE, ev |-> {},
            x |-> NoSession]
WorldIdle == [at |-> "idle", x |-> NoSession, deletes |-> FALSE]

Init ==
  /\ life = [s \in Sockets |-> "none"]
  /\ refs = [s \in Sockets |-> 0]
  /\ closing = [s \in Sockets |-> FALSE]
  /\ session = [s \in Sockets |-> NoSession]
  /\ mask = [s \in Sockets |-> {}]
  /\ bound = {} /\ newSockets = {} /\ sockets = {} /\ gone = {}
  /\ status = [x \in Sessions |-> "none"]
  /\ sock = [x \in Sessions |-> NoSocket]
  /\ received = [s \in Sockets |-> 0]
  /\ acc = Idle /\ net = NetIdle /\ wrld = WorldIdle

-----------------------------------------------------------------------------
(* Reference counts.                                                        *)

AddReference(s) ==
  /\ refs' = [refs EXCEPT ![s] = @ + 1]
  /\ UNCHANGED life

\* Release n references; the last one destroys the socket.
RemoveReferences(s, n) ==
  /\ refs' = [refs EXCEPT ![s] = @ - n]
  /\ life' = [life EXCEPT ![s] = IF n > 0 /\ refs[s] - n <= 0 THEN "deleted" ELSE @]

RemoveReference(s) == RemoveReferences(s, 1)

\* CloseSocket has two critical sections: the first is skipped with the second
\* when the socket is closing already.
CloseSocket(s) == closing' = [closing EXCEPT ![s] = TRUE]
Forget(s) == session' = [session EXCEPT ![s] = NoSession]

-----------------------------------------------------------------------------
(* The acceptor.                                                            *)

Accept(s) ==
  /\ acc.at = "idle" /\ life[s] = "none"
  /\ life' = [life EXCEPT ![s] = "live"]
  /\ refs' = [refs EXCEPT ![s] = 1]
  /\ acc' = [at |-> "open", s |-> s]
  /\ UNCHANGED <<closing, session, mask, bound, listVars, sessionVars, peerVars, net, wrld>>

\* OnSocketOpen hands the socket to its network thread.
AddSocket ==
  /\ acc.at = "open"
  /\ AddReference(acc.s)
  /\ newSockets' = newSockets \cup {acc.s}
  /\ acc' = [acc EXCEPT !.at = "register"]
  /\ UNCHANGED <<closing, session, mask, bound, sockets, sessionVars, peerVars, net, wrld>>

\* A socket option, the buffer, the peer's address, the first packet or the
\* reactor may fail.
OpenFails ==
  /\ acc.at \in {"open", "register"}
  /\ acc' = [acc EXCEPT !.at = "close"]
  /\ UNCHANGED <<socketVars, listVars, sessionVars, peerVars, net, wrld>>

RegisterHandler ==
  /\ acc.at = "register"
  /\ AddReference(acc.s)
  /\ bound' = bound \cup {acc.s}
  /\ mask' = [mask EXCEPT ![acc.s] = Masks]
  /\ acc' = [acc EXCEPT !.at = "opened"]
  /\ UNCHANGED <<closing, session, listVars, sessionVars, peerVars, net, wrld>>

\* "reactor takes care of the socket from now on"
Opened ==
  /\ acc.at = "opened"
  /\ RemoveReference(acc.s)
  /\ acc' = Idle
  /\ UNCHANGED <<closing, session, mask, bound, listVars, sessionVars, peerVars, net, wrld>>

Close ==
  /\ acc.at = "close"
  /\ CloseSocket(acc.s)
  /\ RemoveReference(acc.s)
  /\ acc' = Idle
  /\ UNCHANGED <<session, mask, bound, listVars, sessionVars, peerVars, net, wrld>>

PeerCloses(s) ==
  /\ life[s] = "live" /\ s \notin gone
  /\ gone' = gone \cup {s}
  /\ UNCHANGED <<socketVars, listVars, sessionVars, received, acc, net, wrld>>

-----------------------------------------------------------------------------
(* The network thread in its reactor.  During an upcall the reactor holds a *)
(* reference; a result of -1 makes it remove the handler for that event.    *)

Upcall(s, at, ev) ==
  /\ net.at = "idle" /\ ev \subseteq mask[s]
  /\ AddReference(s)
  /\ net' = [NetIdle EXCEPT !.at = at, !.s = s, !.guard = TRUE, !.ev = ev]
  /\ UNCHANGED <<closing, session, mask, bound, listVars, sessionVars, peerVars, acc, wrld>>

\* handle_input with data to read.
HandleInput(s) ==
  /\ ~closing[s] /\ received[s] < MaxPackets
  /\ Upcall(s, "input", {"READ"})

\* A closing socket, or the peer's end of the connection.
InputFails(s) ==
  /\ closing[s] \/ s \in gone
  /\ Upcall(s, "failed", {"READ"})

OutputFails(s) ==
  /\ closing[s] \/ s \in gone
  /\ Upcall(s, "failed", {"WRITE"})

\* handle_output has sent everything, cancel_wakeup_output.
OutputDone(s) ==
  /\ net.at = "idle" /\ "WRITE" \in mask[s] /\ ~closing[s]
  /\ mask' = [mask EXCEPT ![s] = @ \ {"WRITE"}]
  /\ UNCHANGED <<life, refs, closing, session, bound, listVars, sessionVars, peerVars, acc, net, wrld>>

\* An error event alone: no upcall, and every event goes.
HandleError(s) ==
  /\ net.at = "idle" /\ s \in gone /\ s \in bound
  /\ net' = [NetIdle EXCEPT !.at = "failed", !.s = s, !.ev = Masks]
  /\ UNCHANGED <<socketVars, listVars, sessionVars, peerVars, acc, wrld>>

\* ProcessIncoming up to its test of closing_.
NextPacket ==
  /\ net.at = "input" /\ received[net.s] < MaxPackets
  /\ received' = [received EXCEPT ![net.s] = @ + 1]
  /\ net' = [net EXCEPT !.at = IF closing[net.s] THEN "failed" ELSE "packet"]
  /\ UNCHANGED <<socketVars, listVars, sessionVars, gone, acc, wrld>>

\* CMSG_KEEP_ALIVE, or a packet caught with ByteBufferException.
PacketDone ==
  /\ net.at = "packet"
  /\ net' = [net EXCEPT !.at = "input"]
  /\ UNCHANGED <<socketVars, listVars, sessionVars, peerVars, acc, wrld>>

\* An opcode there is not, bad data, or HandleAuthSession that refuses.
PacketFails ==
  /\ net.at = "packet"
  /\ net' = [net EXCEPT !.at = "failed"]
  /\ UNCHANGED <<socketVars, listVars, sessionVars, peerVars, acc, wrld>>

\* QueuePacket, or SetLatency of HandlePing, under m_SessionLock.
UseSession ==
  /\ net.at = "packet"
  /\ net' = [net EXCEPT !.at = IF session[net.s] = NoSession THEN "failed" ELSE "input"]
  /\ UNCHANGED <<socketVars, listVars, sessionVars, peerVars, acc, wrld>>

AuthTwice ==
  /\ net.at = "packet" /\ session[net.s] # NoSession
  /\ net' = [net EXCEPT !.at = "failed"]
  /\ UNCHANGED <<socketVars, listVars, sessionVars, peerVars, acc, wrld>>

HandleAuthSession(x) ==
  /\ net.at = "packet" /\ session[net.s] = NoSession
  /\ status[x] = "none"
  /\ AddReference(net.s)
  /\ session' = [session EXCEPT ![net.s] = x]
  /\ status' = [status EXCEPT ![x] = "made"]
  /\ sock' = [sock EXCEPT ![x] = net.s]
  /\ net' = [net EXCEPT !.at = "made", !.x = x]
  /\ UNCHANGED <<closing, mask, bound, listVars, peerVars, acc, wrld>>

\* AddSession, of what m_Session is now.
AddSession ==
  /\ net.at = "made" /\ session[net.s] # NoSession
  /\ status' = [status EXCEPT ![session[net.s]] = "queued"]
  /\ net' = [net EXCEPT !.at = "input", !.x = NoSession]
  /\ UNCHANGED <<socketVars, listVars, sock, peerVars, acc, wrld>>

\* ReadAddonsInfo throws; the handler in ProcessIncoming returns -1 or 0.
AuthThrows ==
  /\ net.at = "made"
  /\ status' = [status EXCEPT ![net.x] = "lost"]
  /\ \E at \in {"failed", "input"} : net' = [net EXCEPT !.at = at, !.x = NoSession]
  /\ UNCHANGED <<socketVars, listVars, sock, peerVars, acc, wrld>>

\* After the last packet, Update.
InputDone ==
  /\ net.at = "input" /\ ~closing[net.s]
  /\ RemoveReference(net.s)
  /\ net' = NetIdle
  /\ UNCHANGED <<closing, session, mask, bound, listVars, sessionVars, peerVars, acc, wrld>>

InputDoneFails ==
  /\ net.at = "input" /\ (closing[net.s] \/ net.s \in gone)
  /\ net' = [net EXCEPT !.at = "failed"]
  /\ UNCHANGED <<socketVars, listVars, sessionVars, peerVars, acc, wrld>>

\* Mutant: handle_close leaves closing_ as it is.
HandleCloseKeepsOpen ==
  /\ net.at = "failed"
  /\ mask' = [mask EXCEPT ![net.s] = @ \ net.ev]
  /\ net' = [net EXCEPT !.at = "forget"]
  /\ UNCHANGED <<life, refs, closing, session, bound, listVars, sessionVars, peerVars, acc, wrld>>

\* remove_handler_i: the event goes, handle_close, and the handler goes with
\* its last event.
HandleClose ==
  /\ net.at = "failed"
  /\ mask' = [mask EXCEPT ![net.s] = @ \ net.ev]
  /\ closing' = [closing EXCEPT ![net.s] = TRUE]
  /\ net' = [net EXCEPT !.at = "forget"]
  /\ UNCHANGED <<life, refs, session, bound, listVars, sessionVars, peerVars, acc, wrld>>

HandleCloseForgets ==
  /\ net.at = "forget"
  /\ Forget(net.s)
  /\ net' = [net EXCEPT !.at = "unbind"]
  /\ UNCHANGED <<life, refs, closing, mask, bound, listVars, sessionVars, peerVars, acc, wrld>>

\* Mutant: the handler goes with any of its events.
AnyIsLast(s) == TRUE
Last(s) == mask[s] = {}

Unbind ==
  /\ net.at = "unbind"
  /\ bound' = IF Last(net.s) THEN bound \ {net.s} ELSE bound
  /\ RemoveReferences(net.s, (IF Last(net.s) THEN 1 ELSE 0) + (IF net.guard THEN 1 ELSE 0))
  /\ net' = NetIdle
  /\ UNCHANGED <<closing, session, mask, listVars, sessionVars, peerVars, acc, wrld>>

-----------------------------------------------------------------------------
(* The network thread in its own loop.                                      *)

AddNewSockets ==
  /\ net.at = "idle" /\ newSockets # {}
  /\ refs' = [s \in Sockets |-> IF s \in newSockets /\ closing[s] THEN refs[s] - 1 ELSE refs[s]]
  /\ life' = [s \in Sockets |-> IF s \in newSockets /\ closing[s] /\ refs[s] = 1
                                  THEN "deleted" ELSE life[s]]
  /\ sockets' = sockets \cup {s \in newSockets : ~closing[s]}
  /\ newSockets' = {}
  /\ UNCHANGED <<closing, session, mask, bound, sessionVars, peerVars, acc, net, wrld>>

\* Update has something to send, schedule_wakeup_output.
UpdateSocket(s) ==
  /\ net.at = "idle" /\ s \in sockets /\ ~closing[s] /\ s \in bound
  /\ mask' = [mask EXCEPT ![s] = @ \cup {"WRITE"}]
  /\ UNCHANGED <<life, refs, closing, session, bound, listVars, sessionVars, peerVars, acc, net, wrld>>

\* Update is -1: the socket is closing, or sending fails.
UpdateFails(s) ==
  /\ net.at = "idle" /\ s \in sockets /\ (closing[s] \/ s \in gone)
  /\ net' = [NetIdle EXCEPT !.at = "drop", !.s = s]
  /\ UNCHANGED <<socketVars, listVars, sessionVars, peerVars, acc, wrld>>

Drop ==
  /\ net.at = "drop"
  /\ CloseSocket(net.s)
  /\ net' = [net EXCEPT !.at = IF closing[net.s] THEN "dropped" ELSE "dropForget"]
  /\ UNCHANGED <<life, refs, session, mask, bound, listVars, sessionVars, peerVars, acc, wrld>>

DropForgets ==
  /\ net.at = "dropForget"
  /\ Forget(net.s)
  /\ net' = [net EXCEPT !.at = "dropped"]
  /\ UNCHANGED <<life, refs, closing, mask, bound, listVars, sessionVars, peerVars, acc, wrld>>

Dropped ==
  /\ net.at = "dropped"
  /\ RemoveReference(net.s)
  /\ sockets' = sockets \ {net.s}
  /\ net' = NetIdle
  /\ UNCHANGED <<closing, session, mask, bound, newSockets, sessionVars, peerVars, acc, wrld>>

-----------------------------------------------------------------------------
(* The world thread.                                                        *)

Admit(x) ==
  /\ wrld.at = "idle" /\ status[x] = "queued"
  /\ status' = [status EXCEPT ![x] = "listed"]
  /\ UNCHANGED <<socketVars, listVars, sock, peerVars, acc, net, wrld>>

\* AddSession_ while the account's other session loads a character.
Refuse(x) ==
  /\ wrld.at = "idle" /\ status[x] = "queued"
  /\ wrld' = [at |-> "close", x |-> x, deletes |-> TRUE]
  /\ UNCHANGED <<socketVars, listVars, sessionVars, peerVars, acc, net>>

\* AddSession_ of an account that has a session: the old one goes.
Replace(x, old) ==
  /\ wrld.at = "idle" /\ status[x] = "queued" /\ status[old] = "listed"
  /\ status' = [status EXCEPT ![x] = "listed"]
  /\ wrld' = [at |-> "close", x |-> old, deletes |-> TRUE]
  /\ UNCHANGED <<socketVars, listVars, sock, peerVars, acc, net>>

\* By a command, a bad packet, or SendPacket that fails.
KickPlayer(x) ==
  /\ wrld.at = "idle" /\ status[x] = "listed"
  /\ wrld' = [at |-> "close", x |-> x, deletes |-> FALSE]
  /\ UNCHANGED <<socketVars, listVars, sessionVars, peerVars, acc, net>>

Kicked == IF wrld.deletes THEN [wrld EXCEPT !.at = "release"] ELSE WorldIdle

\* Mutant: CloseSocket without its second section.
WorldOnlyCloses ==
  /\ wrld.at = "close"
  /\ CloseSocket(sock[wrld.x])
  /\ wrld' = Kicked
  /\ UNCHANGED <<life, refs, session, mask, bound, listVars, sessionVars, peerVars, acc, net>>

WorldCloses ==
  /\ wrld.at = "close"
  /\ CloseSocket(sock[wrld.x])
  /\ wrld' = IF closing[sock[wrld.x]] THEN Kicked ELSE [wrld EXCEPT !.at = "forget"]
  /\ UNCHANGED <<life, refs, session, mask, bound, listVars, sessionVars, peerVars, acc, net>>

WorldForgets ==
  /\ wrld.at = "forget"
  /\ Forget(sock[wrld.x])
  /\ wrld' = Kicked
  /\ UNCHANGED <<life, refs, closing, mask, bound, listVars, sessionVars, peerVars, acc, net>>

\* Mutant: the pointer is cleared and its reference kept.
LeaveSocket(x) ==
  /\ sock' = [sock EXCEPT ![x] = NoSocket]
  /\ wrld' = [at |-> "delete", x |-> x, deletes |-> TRUE]
  /\ UNCHANGED <<socketVars, listVars, status, peerVars, acc, net>>

ReleaseSocket(x) ==
  /\ RemoveReference(sock[x])
  /\ sock' = [sock EXCEPT ![x] = NoSocket]
  /\ wrld' = [at |-> "delete", x |-> x, deletes |-> TRUE]
  /\ UNCHANGED <<closing, session, mask, bound, listVars, status, peerVars, acc, net>>

WorldReleases == wrld.at = "release" /\ ReleaseSocket(wrld.x)

\* WorldSession::Update finds its socket closed; UpdateSessions then deletes it.
UpdateSession(x) ==
  /\ wrld.at = "idle" /\ status[x] = "listed" /\ closing[sock[x]]
  /\ ReleaseSocket(x)

DeleteSession ==
  /\ wrld.at = "delete"
  /\ status' = [status EXCEPT ![wrld.x] = "deleted"]
  /\ wrld' = WorldIdle
  /\ UNCHANGED <<socketVars, listVars, sock, peerVars, acc, net>>

-----------------------------------------------------------------------------

Acceptor ==
  \/ AddSocket
  \/ OpenFails
  \/ RegisterHandler
  \/ Opened
  \/ Close

Packet ==
  \/ PacketDone
  \/ PacketFails
  \/ UseSession
  \/ AuthTwice
  \/ \E x \in Sessions : HandleAuthSession(x)

Network ==
  \/ NextPacket
  \/ Packet
  \/ AddSession
  \/ AuthThrows
  \/ InputDone
  \/ InputDoneFails
  \/ HandleClose
  \/ HandleCloseForgets
  \/ Unbind
  \/ Drop
  \/ DropForgets
  \/ Dropped

World ==
  \/ WorldCloses
  \/ WorldForgets
  \/ WorldReleases
  \/ DeleteSession

Next ==
  \/ \E s \in Sockets : Accept(s)
  \/ Acceptor
  \/ \E s \in Sockets : PeerCloses(s)
  \/ \E s \in Sockets : HandleInput(s)
  \/ \E s \in Sockets : InputFails(s)
  \/ \E s \in Sockets : OutputFails(s)
  \/ \E s \in Sockets : OutputDone(s)
  \/ \E s \in Sockets : HandleError(s)
  \/ \E s \in Sockets : UpdateSocket(s)
  \/ \E s \in Sockets : UpdateFails(s)
  \/ AddNewSockets
  \/ Network
  \/ \E x \in Sessions : Admit(x)
  \/ \E x \in Sessions : Refuse(x)
  \/ \E x, old \in Sessions : Replace(x, old)
  \/ \E x \in Sessions : KickPlayer(x)
  \/ \E x \in Sessions : UpdateSession(x)
  \/ World

\* The threads run.  Every ready socket gets its turn in the reactor (an event
\* stays ready until it is taken), the loop of the network thread visits all its
\* sockets, and the world's update all queued and all listed sessions.
Fairness ==
  /\ WF_vars(Acceptor) /\ WF_vars(Network) /\ WF_vars(World)
  /\ SF_vars(AddNewSockets)
  /\ \A s \in Sockets :
       /\ SF_vars(s \in gone /\ (InputFails(s) \/ OutputFails(s) \/ HandleError(s)))
       /\ SF_vars(closing[s] /\ UpdateFails(s))
  /\ \A x \in Sessions :
       /\ SF_vars(Admit(x) \/ Refuse(x) \/ \E old \in Sessions : Replace(x, old))
       /\ SF_vars(UpdateSession(x))

Spec == Init /\ [][Next]_vars /\ Fairness

-----------------------------------------------------------------------------
(* Properties.                                                              *)

Opening(s) == acc.at # "idle" /\ acc.s = s
InUpcall(s) == net.guard /\ net.s = s
One(b) == IF b THEN 1 ELSE 0

Holders(s) ==
  One(Opening(s)) + One(s \in newSockets) + One(s \in sockets) + One(s \in bound)
    + One(InUpcall(s)) + Cardinality({x \in Sessions : sock[x] = s})

\* A socket's reference count is the number of those who hold it: the acceptor
\* while it opens the socket, the two lists of the network thread, the reactor's
\* repository, the upcall in progress and the sessions.  So it is destroyed when
\* the last one lets go, by whichever thread, and never under another's hands.
RefsHeld ==
  \A s \in Sockets :
    /\ refs[s] = Holders(s)
    /\ life[s] = "live" <=> Holders(s) > 0

Alive == {x \in Sessions : status[x] \in {"made", "queued", "listed"}}

\* m_Session is read and written without one common lock, by a thread that does
\* not delete sessions, while another deletes them.  Still a packet that passed the
\* test of closing_ finds no deleted session; the session the network thread makes
\* is the one it hands to the world; and a session in the world, whose socket is
\* open, gets that socket's packets.
SessionPointers ==
  /\ net.at = "packet" /\ session[net.s] # NoSession =>
       session[net.s] \in Alive \/ status[session[net.s]] = "lost"
  /\ net.at = "made" => session[net.s] = net.x
  /\ \A x \in Alive : sock[x] # NoSocket /\ ~closing[sock[x]] => session[sock[x]] = x

\* When the peer of a socket has gone, the socket is destroyed, however far the
\* acceptor, the reactor and the world had come with it; a session that was lost
\* while it was made keeps its socket for ever.
EveryConnectionEnds ==
  \A s \in Sockets :
    s \in gone ~> (life[s] = "deleted" \/ \E x \in Sessions : status[x] = "lost" /\ sock[x] = s)
=============================================================================
