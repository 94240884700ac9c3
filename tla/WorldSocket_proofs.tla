------------------------- MODULE WorldSocket_proofs -------------------------
(* The inductive invariant of WorldSocket, and the proofs of its safety      *)
(* properties.                                                              *)
EXTENDS WorldSocket, FiniteSetTheorems, TLAPS

\* Where the acceptor and the network thread are, and which lists the socket in
\* their hands is on.
ThreadsInv ==
  /\ acc.at # "idle" => acc.s \in Sockets
  /\ acc.at = "open" => acc.s \notin newSockets \cup sockets
  /\ acc.at \in {"open", "register", "close"} => acc.s \notin bound
  /\ net.at # "idle" => net.s \in Sockets
  /\ net.at = "idle" => ~net.guard
  /\ net.at \in {"input", "packet", "made"} => net.guard
  /\ net.at \in {"input", "packet", "made", "failed", "forget", "unbind"} =>
       net.s \in bound
  /\ net.at \in {"drop", "dropForget", "dropped"} => net.s \in sockets /\ ~net.guard
  /\ net.at \in {"forget", "dropForget"} => closing[net.s]
  /\ \A s \in Sockets : mask[s] # {} => s \in bound
  /\ newSockets \cap sockets = {}

\* Which sessions have a socket, and what the world thread does to one.
SessionsInv ==
  /\ wrld.at # "idle" => wrld.x \in Sessions /\ status[wrld.x] \in {"queued", "listed"}
  /\ wrld.at \in {"forget", "release"} => closing[sock[wrld.x]]
  /\ \A x \in Sessions : sock[x] # NoSocket => x \in Alive \/ status[x] = "lost"
  /\ \A x \in Alive : sock[x] = NoSocket <=> wrld.at = "delete" /\ wrld.x = x
  /\ net.at = "made" => net.x \in Sessions /\ status[net.x] = "made"

\* What m_Session may be: its session's socket is this one or was released; while
\* the socket is open it is not released; a packet past the test of closing_ finds
\* a pointer to a closed socket's session only before the kick's second section.
PointersInv ==
  /\ \A s \in Sockets : session[s] # NoSession =>
       /\ status[session[s]] # "none"
       /\ sock[session[s]] \in {s, NoSocket}
       /\ ~closing[s] => sock[session[s]] = s
  /\ net.at = "packet" /\ closing[net.s] =>
       session[net.s] = NoSession \/ (wrld.at = "forget" /\ sock[wrld.x] = net.s)
  /\ net.at \in {"input", "packet", "made"} /\ wrld.at = "forget" /\ sock[wrld.x] = net.s =>
       session[net.s] = wrld.x /\ net.at # "made"
  /\ net.at = "packet" /\ wrld.at = "delete" => session[net.s] # wrld.x

\* The type invariant in three parts.
SocketTypes ==
  /\ life \in [Sockets -> {"none", "live", "deleted"}]
  /\ refs \in [Sockets -> Nat]
  /\ closing \in [Sockets -> BOOLEAN]
  /\ session \in [Sockets -> Sessions \cup {NoSession}]
  /\ mask \in [Sockets -> SUBSET Masks]
  /\ received \in [Sockets -> 0..MaxPackets]

ListTypes ==
  /\ bound \subseteq Sockets /\ newSockets \subseteq Sockets
  /\ sockets \subseteq Sockets /\ gone \subseteq Sockets
  /\ status \in [Sessions -> {"none", "made", "queued", "listed", "deleted", "lost"}]
  /\ sock \in [Sessions -> Sockets \cup {NoSocket}]

ThreadTypes ==
  /\ acc \in [at : {"idle", "open", "register", "opened", "close"},
              s : Sockets \cup {NoSocket}]
  /\ net \in [at : {"idle", "input", "packet", "made", "failed", "forget",
                    "unbind", "drop", "dropForget", "dropped"},
              s : Sockets \cup {NoSocket}, guard : BOOLEAN,
              ev : SUBSET Masks, x : Sessions \cup {NoSession}]
  /\ wrld \in [at : {"idle", "close", "forget", "release", "delete"},
               x : Sessions \cup {NoSession}, deletes : BOOLEAN]

IInv ==
  /\ TypeOK
  /\ ThreadsInv
  /\ SessionsInv
  /\ RefsHeld
  /\ PointersInv
  /\ SessionPointers

\* The sessions that hold a socket are finitely many.
LEMMA SessionHolders ==
  ASSUME NEW s \in Sockets
  PROVE  /\ IsFiniteSet({x \in Sessions : sock[x] = s})
         /\ Cardinality({x \in Sessions : sock[x] = s}) \in Nat
<1>1. IsFiniteSet({x \in Sessions : sock[x] = s})
  BY FS_Subset, SocketsAssumption
<1> QED
  BY <1>1, FS_CardinalityType

\* A socket with no holder is in nobody's hands.
LEMMA NoHolder ==
  ASSUME NEW s \in Sockets, ~(Holders(s) > 0)
  PROVE  /\ ~Opening(s) /\ ~InUpcall(s)
         /\ s \notin newSockets \cup sockets \cup bound
<1> DEFINE c == Cardinality({x \in Sessions : sock[x] = s})
<1>1. c \in Nat
  BY SessionHolders
<1>2. Holders(s) = One(Opening(s)) + One(s \in newSockets) + One(s \in sockets)
                     + One(s \in bound) + One(InUpcall(s)) + c
  BY DEF Holders
<1> HIDE DEF c
<1> QED
  BY <1>1, <1>2 DEF One

\* A socket in somebody's hands is held.
LEMMA Held ==
  ASSUME NEW s \in Sockets,
         Opening(s) \/ InUpcall(s) \/ s \in newSockets \cup sockets \cup bound
  PROVE  Holders(s) > 0
<1> SUFFICES ASSUME ~(Holders(s) > 0) PROVE FALSE
  OBVIOUS
<1> QED
  BY NoHolder

\* So is one that a session has.
LEMMA HeldBySession ==
  ASSUME NEW x \in Sessions, sock[x] \in Sockets
  PROVE  Holders(sock[x]) > 0
<1> DEFINE s == sock[x]
           H == {y \in Sessions : sock[y] = s}
<1>1. IsFiniteSet(H) /\ Cardinality(H) \in Nat
  BY SessionHolders
<1>2. x \in H
  OBVIOUS
<1>3. Cardinality(H) # 0
  BY <1>1, <1>2, FS_EmptySet
<1>4. Holders(s) = One(Opening(s)) + One(s \in newSockets) + One(s \in sockets)
                     + One(s \in bound) + One(InUpcall(s)) + Cardinality(H)
  BY DEF Holders
<1> HIDE DEF H, s
<1>5. Holders(s) > 0
  BY <1>1, <1>3, <1>4 DEF One
<1> QED
  BY <1>5 DEF s

\* One in the reactor during its upcall is held twice.
LEMMA HeldTwice ==
  ASSUME NEW s \in Sockets, s \in bound, InUpcall(s)
  PROVE  Holders(s) >= 2
<1> DEFINE c == Cardinality({x \in Sessions : sock[x] = s})
<1>1. c \in Nat
  BY SessionHolders
<1>2. Holders(s) = One(Opening(s)) + One(s \in newSockets) + One(s \in sockets)
                     + One(s \in bound) + One(InUpcall(s)) + c
  BY DEF Holders
<1> HIDE DEF c
<1> QED
  BY <1>1, <1>2 DEF One

\* A new reference keeps the types.
LEMMA AddReferenceTypes ==
  ASSUME TypeOK, NEW s \in Sockets, AddReference(s)
  PROVE  /\ refs' \in [Sockets -> Nat]
         /\ life' \in [Sockets -> {"none", "live", "deleted"}]
<1>1. refs[s] + 1 \in Nat
  BY DEF TypeOK
<1> QED
  BY <1>1 DEF TypeOK, AddReference

\* So does the release of references.
LEMMA RemoveReferencesTypes ==
  ASSUME TypeOK, NEW s \in Sockets, NEW n \in Nat, refs[s] >= n, RemoveReferences(s, n)
  PROVE  /\ refs' \in [Sockets -> Nat]
         /\ life' \in [Sockets -> {"none", "live", "deleted"}]
<1>1. refs[s] - n \in Nat
  BY DEF TypeOK
<1> QED
  BY <1>1 DEF TypeOK, RemoveReferences

\* What the sockets hold keeps its type.
LEMMA SocketTypesStep == IInv /\ [Next]_vars => SocketTypes'
<1> SUFFICES ASSUME IInv, [Next]_vars
             PROVE  SocketTypes'
  OBVIOUS
<1>0. /\ TypeOK /\ ThreadsInv /\ SessionsInv
      /\ \A s \in Sockets : refs[s] = Holders(s)
  BY DEF IInv, RefsHeld
<1> USE SocketsAssumption, <1>0 DEF TypeOK, SocketTypes, vars, socketVars,
      listVars, sessionVars, peerVars
<1>1. CASE \E s \in Sockets : Accept(s)
  BY <1>1 DEF Accept
<1>2. CASE AddSocket
  <2>1. acc.s \in Sockets
    BY <1>2 DEF AddSocket, ThreadsInv
  <2>2. /\ refs' \in [Sockets -> Nat]
        /\ life' \in [Sockets -> {"none", "live", "deleted"}]
    BY <1>2, <2>1, AddReferenceTypes DEF AddSocket
  <2> QED
    BY <1>2, <2>1, <2>2 DEF AddSocket
<1>3. CASE OpenFails
  BY <1>3 DEF OpenFails
<1>4. CASE RegisterHandler
  <2>1. acc.s \in Sockets
    BY <1>4 DEF RegisterHandler, ThreadsInv
  <2>2. /\ refs' \in [Sockets -> Nat]
        /\ life' \in [Sockets -> {"none", "live", "deleted"}]
    BY <1>4, <2>1, AddReferenceTypes DEF RegisterHandler
  <2> QED
    BY <1>4, <2>1, <2>2 DEF RegisterHandler
<1>5. CASE Opened
  <2>1. acc.s \in Sockets
    BY <1>5 DEF Opened, ThreadsInv
  <2>3. refs[acc.s] >= 1
    BY <1>5, <2>1, Held DEF Opened, Opening, InUpcall, ThreadsInv
  <2>2. /\ refs' \in [Sockets -> Nat]
        /\ life' \in [Sockets -> {"none", "live", "deleted"}]
    BY <1>5, <2>1, <2>3, RemoveReferencesTypes DEF Opened, Idle, RemoveReference
  <2> QED
    BY <1>5, <2>1, <2>2 DEF Opened, Idle
<1>6. CASE Close
  <2>1. acc.s \in Sockets
    BY <1>6 DEF Close, ThreadsInv
  <2>3. refs[acc.s] >= 1
    BY <1>6, <2>1, Held DEF Close, Opening, InUpcall, ThreadsInv
  <2>2. /\ refs' \in [Sockets -> Nat]
        /\ life' \in [Sockets -> {"none", "live", "deleted"}]
    BY <1>6, <2>1, <2>3, RemoveReferencesTypes DEF Close, Idle, CloseSocket,
       RemoveReference
  <2> QED
    BY <1>6, <2>1, <2>2 DEF Close, Idle, CloseSocket
<1>7. CASE \E s \in Sockets : PeerCloses(s)
  BY <1>7 DEF PeerCloses
<1>8. CASE \E s \in Sockets : HandleInput(s)
  BY <1>8 DEF HandleInput, Upcall, NetIdle, AddReference
<1>9. CASE \E s \in Sockets : InputFails(s)
  BY <1>9 DEF InputFails, Upcall, NetIdle, AddReference
<1>10. CASE \E s \in Sockets : OutputFails(s)
  BY <1>10 DEF OutputFails, Upcall, NetIdle, AddReference
<1>11. CASE \E s \in Sockets : OutputDone(s)
  BY <1>11 DEF OutputDone
<1>12. CASE \E s \in Sockets : HandleError(s)
  BY <1>12 DEF HandleError, NetIdle
<1>13. CASE \E s \in Sockets : UpdateSocket(s)
  <2> PICK s \in Sockets : UpdateSocket(s)
    BY <1>13
  <2>1. mask[s] \cup {"WRITE"} \in SUBSET Masks
    BY DEF Masks
  <2> QED
    BY <2>1 DEF UpdateSocket
<1>14. CASE \E s \in Sockets : UpdateFails(s)
  BY <1>14 DEF UpdateFails, NetIdle
<1>15. CASE AddNewSockets
  <2>1. \A s \in newSockets : s \in Sockets /\ refs[s] - 1 \in Nat
    BY Held
  <2> QED
    BY <1>15, <2>1 DEF AddNewSockets
<1>16. CASE NextPacket
  <2>1. net.s \in Sockets /\ received[net.s] + 1 \in 0..MaxPackets
    BY <1>16 DEF NextPacket, ThreadsInv
  <2> QED
    BY <1>16, <2>1 DEF NextPacket
<1>17. CASE PacketDone
  BY <1>17 DEF PacketDone
<1>18. CASE PacketFails
  BY <1>18 DEF PacketFails
<1>19. CASE UseSession
  BY <1>19 DEF UseSession
<1>20. CASE AuthTwice
  BY <1>20 DEF AuthTwice
<1>21. CASE \E x \in Sessions : HandleAuthSession(x)
  <2> PICK x \in Sessions : HandleAuthSession(x)
    BY <1>21
  <2>1. net.s \in Sockets
    BY DEF HandleAuthSession, ThreadsInv
  <2>2. /\ refs' \in [Sockets -> Nat]
        /\ life' \in [Sockets -> {"none", "live", "deleted"}]
    BY <2>1, AddReferenceTypes DEF HandleAuthSession
  <2> QED
    BY <2>1, <2>2 DEF HandleAuthSession
<1>22. CASE AddSession
  BY <1>22 DEF AddSession
<1>23. CASE AuthThrows
  BY <1>23 DEF AuthThrows
<1>24. CASE InputDone
  <2>1. net.s \in Sockets
    BY <1>24 DEF InputDone, ThreadsInv
  <2>3. refs[net.s] >= 1
    BY <1>24, <2>1, Held DEF InputDone, Opening, InUpcall, ThreadsInv
  <2>2. /\ refs' \in [Sockets -> Nat]
        /\ life' \in [Sockets -> {"none", "live", "deleted"}]
    BY <1>24, <2>1, <2>3, RemoveReferencesTypes DEF InputDone, NetIdle,
       RemoveReference
  <2> QED
    BY <1>24, <2>1, <2>2 DEF InputDone, NetIdle
<1>25. CASE InputDoneFails
  BY <1>25 DEF InputDoneFails
<1>26. CASE HandleClose
  BY <1>26 DEF HandleClose
<1>27. CASE HandleCloseForgets
  BY <1>27 DEF HandleCloseForgets, Forget
<1>28. CASE Unbind
  <2> DEFINE n == (IF Last(net.s) THEN 1 ELSE 0) + (IF net.guard THEN 1 ELSE 0)
  <2>1. net.s \in Sockets /\ n \in Nat
    BY <1>28 DEF Unbind, ThreadsInv
  <2>4. refs[net.s] >= n
    BY <1>28, <2>1, Held, HeldTwice DEF Unbind, InUpcall, ThreadsInv
  <2>2. RemoveReferences(net.s, n)
    BY <1>28 DEF Unbind
  <2> HIDE DEF n
  <2>3. /\ refs' \in [Sockets -> Nat]
        /\ life' \in [Sockets -> {"none", "live", "deleted"}]
    BY <2>1, <2>2, <2>4, RemoveReferencesTypes
  <2> QED
    BY <1>28, <2>3 DEF Unbind
<1>29. CASE Drop
  BY <1>29 DEF Drop, CloseSocket
<1>30. CASE DropForgets
  BY <1>30 DEF DropForgets, Forget
<1>31. CASE Dropped
  <2>1. net.s \in Sockets
    BY <1>31 DEF Dropped, ThreadsInv
  <2>3. refs[net.s] >= 1
    BY <1>31, <2>1, Held DEF Dropped, Opening, InUpcall, ThreadsInv
  <2>2. /\ refs' \in [Sockets -> Nat]
        /\ life' \in [Sockets -> {"none", "live", "deleted"}]
    BY <1>31, <2>1, <2>3, RemoveReferencesTypes DEF Dropped, NetIdle, RemoveReference
  <2> QED
    BY <1>31, <2>1, <2>2 DEF Dropped, NetIdle
<1>32. CASE \E x \in Sessions : Admit(x)
  BY <1>32 DEF Admit
<1>33. CASE \E x \in Sessions : Refuse(x)
  BY <1>33 DEF Refuse
<1>34. CASE \E x, old \in Sessions : Replace(x, old)
  BY <1>34 DEF Replace
<1>35. CASE \E x \in Sessions : KickPlayer(x)
  BY <1>35 DEF KickPlayer
<1>36. CASE \E x \in Sessions : UpdateSession(x)
  <2> PICK x \in Sessions : UpdateSession(x)
    BY <1>36
  <2>1. sock[x] \in Sockets
    BY DEF UpdateSession, SessionsInv, Alive
  <2>3. refs[sock[x]] >= 1
    BY <2>1, HeldBySession
  <2>2. /\ refs' \in [Sockets -> Nat]
        /\ life' \in [Sockets -> {"none", "live", "deleted"}]
    BY <2>1, <2>3, RemoveReferencesTypes DEF UpdateSession, ReleaseSocket,
       RemoveReference
  <2> QED
    BY <2>1, <2>2 DEF UpdateSession, ReleaseSocket
<1>37. CASE WorldCloses
  BY <1>37 DEF WorldCloses, CloseSocket, Kicked, WorldIdle
<1>38. CASE WorldForgets
  BY <1>38 DEF WorldForgets, Forget, Kicked, WorldIdle
<1>39. CASE WorldReleases
  <2>1. sock[wrld.x] \in Sockets
    BY <1>39 DEF WorldReleases, SessionsInv, Alive
  <2>3. refs[sock[wrld.x]] >= 1
    BY <1>39, <2>1, HeldBySession DEF WorldReleases, SessionsInv
  <2>2. /\ refs' \in [Sockets -> Nat]
        /\ life' \in [Sockets -> {"none", "live", "deleted"}]
    BY <1>39, <2>1, <2>3, RemoveReferencesTypes DEF WorldReleases,
       ReleaseSocket, RemoveReference
  <2> QED
    BY <1>39, <2>1, <2>2 DEF WorldReleases, ReleaseSocket
<1>40. CASE DeleteSession
  BY <1>40 DEF DeleteSession, WorldIdle
<1>41. CASE UNCHANGED vars
  BY <1>41
<1> QED
  BY <1>1, <1>2, <1>3, <1>4, <1>5, <1>6, <1>7, <1>8, <1>9, <1>10, <1>11,
    <1>12, <1>13, <1>14, <1>15, <1>16, <1>17, <1>18, <1>19, <1>20, <1>21,
    <1>22, <1>23, <1>24, <1>25, <1>26, <1>27, <1>28, <1>29, <1>30, <1>31,
    <1>32, <1>33, <1>34, <1>35, <1>36, <1>37, <1>38, <1>39, <1>40, <1>41
    DEF Next, Acceptor, Packet, Network, World

\* So do the lists and the sessions.
LEMMA ListTypesStep == TypeOK /\ ThreadsInv /\ SessionsInv /\ [Next]_vars
      => ListTypes'
<1> SUFFICES ASSUME TypeOK /\ ThreadsInv /\ SessionsInv, [Next]_vars
             PROVE  ListTypes'
  OBVIOUS
<1> USE SocketsAssumption DEF TypeOK, ListTypes, vars, socketVars,
      listVars, sessionVars, peerVars
<1>1. CASE \E s \in Sockets : Accept(s)
  BY <1>1 DEF Accept
<1>2. CASE AddSocket
  <2>1. acc.s \in Sockets
    BY <1>2 DEF AddSocket, ThreadsInv
  <2> QED
    BY <1>2, <2>1 DEF AddSocket
<1>3. CASE OpenFails
  BY <1>3 DEF OpenFails
<1>4. CASE RegisterHandler
  <2>1. acc.s \in Sockets
    BY <1>4 DEF RegisterHandler, ThreadsInv
  <2> QED
    BY <1>4, <2>1 DEF RegisterHandler
<1>5. CASE Opened
  BY <1>5 DEF Opened, Idle
<1>6. CASE Close
  BY <1>6 DEF Close, Idle, CloseSocket
<1>7. CASE \E s \in Sockets : PeerCloses(s)
  BY <1>7 DEF PeerCloses
<1>8. CASE \E s \in Sockets : HandleInput(s)
  BY <1>8 DEF HandleInput, Upcall, NetIdle
<1>9. CASE \E s \in Sockets : InputFails(s)
  BY <1>9 DEF InputFails, Upcall, NetIdle
<1>10. CASE \E s \in Sockets : OutputFails(s)
  BY <1>10 DEF OutputFails, Upcall, NetIdle
<1>11. CASE \E s \in Sockets : OutputDone(s)
  BY <1>11 DEF OutputDone
<1>12. CASE \E s \in Sockets : HandleError(s)
  BY <1>12 DEF HandleError, NetIdle
<1>13. CASE \E s \in Sockets : UpdateSocket(s)
  BY <1>13 DEF UpdateSocket
<1>14. CASE \E s \in Sockets : UpdateFails(s)
  BY <1>14 DEF UpdateFails, NetIdle
<1>15. CASE AddNewSockets
  BY <1>15 DEF AddNewSockets
<1>16. CASE NextPacket
  BY <1>16 DEF NextPacket
<1>17. CASE PacketDone
  BY <1>17 DEF PacketDone
<1>18. CASE PacketFails
  BY <1>18 DEF PacketFails
<1>19. CASE UseSession
  BY <1>19 DEF UseSession
<1>20. CASE AuthTwice
  BY <1>20 DEF AuthTwice
<1>21. CASE \E x \in Sessions : HandleAuthSession(x)
  BY <1>21 DEF HandleAuthSession
<1>22. CASE AddSession
  BY <1>22 DEF AddSession
<1>23. CASE AuthThrows
  BY <1>23 DEF AuthThrows
<1>24. CASE InputDone
  BY <1>24 DEF InputDone, NetIdle
<1>25. CASE InputDoneFails
  BY <1>25 DEF InputDoneFails
<1>26. CASE HandleClose
  BY <1>26 DEF HandleClose
<1>27. CASE HandleCloseForgets
  BY <1>27 DEF HandleCloseForgets, Forget
<1>28. CASE Unbind
  BY <1>28 DEF Unbind, NetIdle, Last
<1>29. CASE Drop
  BY <1>29 DEF Drop, CloseSocket
<1>30. CASE DropForgets
  BY <1>30 DEF DropForgets, Forget
<1>31. CASE Dropped
  BY <1>31 DEF Dropped, NetIdle
<1>32. CASE \E x \in Sessions : Admit(x)
  BY <1>32 DEF Admit
<1>33. CASE \E x \in Sessions : Refuse(x)
  BY <1>33 DEF Refuse
<1>34. CASE \E x, old \in Sessions : Replace(x, old)
  BY <1>34 DEF Replace
<1>35. CASE \E x \in Sessions : KickPlayer(x)
  BY <1>35 DEF KickPlayer
<1>36. CASE \E x \in Sessions : UpdateSession(x)
  BY <1>36 DEF UpdateSession, ReleaseSocket
<1>37. CASE WorldCloses
  BY <1>37 DEF WorldCloses, CloseSocket, Kicked, WorldIdle
<1>38. CASE WorldForgets
  BY <1>38 DEF WorldForgets, Forget, Kicked, WorldIdle
<1>39. CASE WorldReleases
  BY <1>39 DEF WorldReleases, ReleaseSocket
<1>40. CASE DeleteSession
  BY <1>40 DEF DeleteSession, WorldIdle
<1>41. CASE UNCHANGED vars
  BY <1>41
<1> QED
  BY <1>1, <1>2, <1>3, <1>4, <1>5, <1>6, <1>7, <1>8, <1>9, <1>10, <1>11,
    <1>12, <1>13, <1>14, <1>15, <1>16, <1>17, <1>18, <1>19, <1>20, <1>21,
    <1>22, <1>23, <1>24, <1>25, <1>26, <1>27, <1>28, <1>29, <1>30, <1>31,
    <1>32, <1>33, <1>34, <1>35, <1>36, <1>37, <1>38, <1>39, <1>40, <1>41
    DEF Next, Acceptor, Packet, Network, World

\* An event of the reactor, and one of the network thread's own, make a record
\* of the kind that net is.
LEMMA NetTypes ==
  ASSUME NEW at \in {"input", "failed", "drop"}, NEW s \in Sockets,
         NEW g \in BOOLEAN, NEW ev \in SUBSET Masks, ThreadTypes,
         net' = [at |-> at, s |-> s, guard |-> g, ev |-> ev, x |-> NoSession],
         UNCHANGED <<acc, wrld>>
  PROVE  ThreadTypes'
<1>1. net' = [at |-> at, s |-> s, guard |-> g, ev |-> ev, x |-> NoSession]
  OBVIOUS
<1>2. net' \in [at : {"idle", "input", "packet", "made", "failed", "forget",
                     "unbind", "drop", "dropForget", "dropped"},
               s : Sockets \cup {NoSocket}, guard : BOOLEAN,
               ev : SUBSET Masks, x : Sessions \cup {NoSession}]
  BY ONLY <1>1, at \in {"input", "failed", "drop"}, s \in Sockets,
     g \in BOOLEAN, ev \in SUBSET Masks
<1> QED
  BY <1>2 DEF ThreadTypes

\* The network thread goes on to another place in its work for the same socket.
LEMMA NetGoesOn ==
  ASSUME NEW at \in {"input", "packet", "made", "failed", "forget", "unbind",
                     "dropForget", "dropped"},
         ThreadTypes, net' = [net EXCEPT !.at = at], UNCHANGED <<acc, wrld>>
  PROVE  ThreadTypes'
BY DEF ThreadTypes

\* So it does with another session in its hands, or none.
LEMMA NetGoesOnWith ==
  ASSUME NEW at \in {"input", "made", "failed"}, NEW x \in Sessions \cup {NoSession},
         ThreadTypes, net' = [net EXCEPT !.at = at, !.x = x], UNCHANGED <<acc, wrld>>
  PROVE  ThreadTypes'
BY DEF ThreadTypes

\* So does what the threads do.
LEMMA ThreadTypesStep == TypeOK /\ ThreadsInv /\ SessionsInv /\
      [Next]_vars => ThreadTypes'
<1> SUFFICES ASSUME TypeOK /\ ThreadsInv /\ SessionsInv, [Next]_vars
             PROVE  ThreadTypes'
  OBVIOUS
<1> USE SocketsAssumption DEF TypeOK, ThreadTypes, vars, socketVars,
      listVars, sessionVars, peerVars
<1>1. CASE \E s \in Sockets : Accept(s)
  BY <1>1 DEF Accept
<1>2. CASE AddSocket
  BY <1>2 DEF AddSocket
<1>3. CASE OpenFails
  BY <1>3 DEF OpenFails
<1>4. CASE RegisterHandler
  BY <1>4 DEF RegisterHandler
<1>5. CASE Opened
  BY <1>5 DEF Opened, Idle
<1>6. CASE Close
  BY <1>6 DEF Close, Idle, CloseSocket
<1>7. CASE \E s \in Sockets : PeerCloses(s)
  BY <1>7 DEF PeerCloses
<1>8. CASE \E s \in Sockets : HandleInput(s)
  <2> PICK s \in Sockets : HandleInput(s)
    BY <1>8
  <2>1. {"READ"} \in SUBSET Masks
    BY DEF Masks
  <2>2. Upcall(s, "input", {"READ"}) /\ ThreadTypes
    BY DEF HandleInput
  <2>3. /\ net' = [NetIdle EXCEPT !.at = "input", !.s = s, !.guard = TRUE, !.ev = {"READ"}]
        /\ UNCHANGED <<acc, wrld>>
    BY ONLY <2>2 DEF Upcall
  <2>4. net' = [at |-> "input", s |-> s, guard |-> TRUE, ev |-> {"READ"}, x |-> NoSession]
    BY ONLY <2>3 DEF NetIdle
  <2> QED
    BY ONLY <2>1, <2>2, <2>3, <2>4, NetTypes, s \in Sockets
<1>9. CASE \E s \in Sockets : InputFails(s)
  <2> PICK s \in Sockets : InputFails(s)
    BY <1>9
  <2>1. {"READ"} \in SUBSET Masks
    BY DEF Masks
  <2>2. Upcall(s, "failed", {"READ"}) /\ ThreadTypes
    BY DEF InputFails
  <2>3. /\ net' = [NetIdle EXCEPT !.at = "failed", !.s = s, !.guard = TRUE, !.ev = {"READ"}]
        /\ UNCHANGED <<acc, wrld>>
    BY ONLY <2>2 DEF Upcall
  <2>4. net' = [at |-> "failed", s |-> s, guard |-> TRUE, ev |-> {"READ"}, x |-> NoSession]
    BY ONLY <2>3 DEF NetIdle
  <2> QED
    BY ONLY <2>1, <2>2, <2>3, <2>4, NetTypes, s \in Sockets
<1>10. CASE \E s \in Sockets : OutputFails(s)
  <2> PICK s \in Sockets : OutputFails(s)
    BY <1>10
  <2>1. {"WRITE"} \in SUBSET Masks
    BY DEF Masks
  <2>2. Upcall(s, "failed", {"WRITE"}) /\ ThreadTypes
    BY DEF OutputFails
  <2>3. /\ net' = [NetIdle EXCEPT !.at = "failed", !.s = s, !.guard = TRUE, !.ev = {"WRITE"}]
        /\ UNCHANGED <<acc, wrld>>
    BY ONLY <2>2 DEF Upcall
  <2>4. net' = [at |-> "failed", s |-> s, guard |-> TRUE, ev |-> {"WRITE"}, x |-> NoSession]
    BY ONLY <2>3 DEF NetIdle
  <2> QED
    BY ONLY <2>1, <2>2, <2>3, <2>4, NetTypes, s \in Sockets
<1>11. CASE \E s \in Sockets : OutputDone(s)
  BY <1>11 DEF OutputDone
<1>12. CASE \E s \in Sockets : HandleError(s)
  <2> PICK s \in Sockets : HandleError(s)
    BY <1>12
  <2>1. /\ net' = [NetIdle EXCEPT !.at = "failed", !.s = s, !.ev = Masks]
        /\ UNCHANGED <<acc, wrld>> /\ ThreadTypes
    BY DEF HandleError
  <2>2. net' = [at |-> "failed", s |-> s, guard |-> FALSE, ev |-> Masks, x |-> NoSession]
    BY ONLY <2>1 DEF NetIdle
  <2>3. Masks \in SUBSET Masks
    OBVIOUS
  <2> QED
    BY ONLY <2>1, <2>2, <2>3, NetTypes, s \in Sockets
<1>13. CASE \E s \in Sockets : UpdateSocket(s)
  BY <1>13 DEF UpdateSocket
<1>14. CASE \E s \in Sockets : UpdateFails(s)
  <2> PICK s \in Sockets : UpdateFails(s)
    BY <1>14
  <2>1. /\ net' = [NetIdle EXCEPT !.at = "drop", !.s = s]
        /\ UNCHANGED <<acc, wrld>> /\ ThreadTypes
    BY DEF UpdateFails
  <2>2. net' = [at |-> "drop", s |-> s, guard |-> FALSE, ev |-> {}, x |-> NoSession]
    BY ONLY <2>1 DEF NetIdle
  <2>3. {} \in SUBSET Masks
    OBVIOUS
  <2> QED
    BY ONLY <2>1, <2>2, <2>3, NetTypes, s \in Sockets
<1>15. CASE AddNewSockets
  BY <1>15 DEF AddNewSockets
<1>16. CASE NextPacket
  BY <1>16 DEF NextPacket
<1>17. CASE PacketDone
  BY <1>17 DEF PacketDone
<1>18. CASE PacketFails
  <2>1. net' = [net EXCEPT !.at = "failed"] /\ UNCHANGED <<acc, wrld>> /\ ThreadTypes
    BY <1>18 DEF PacketFails
  <2> QED
    BY ONLY <2>1, NetGoesOn
<1>19. CASE UseSession
  BY <1>19 DEF UseSession
<1>20. CASE AuthTwice
  <2>1. net' = [net EXCEPT !.at = "failed"] /\ UNCHANGED <<acc, wrld>> /\ ThreadTypes
    BY <1>20 DEF AuthTwice
  <2> QED
    BY ONLY <2>1, NetGoesOn
<1>21. CASE \E x \in Sessions : HandleAuthSession(x)
  <2> PICK x \in Sessions : HandleAuthSession(x)
    BY <1>21
  <2>1. net' = [net EXCEPT !.at = "made", !.x = x] /\ UNCHANGED <<acc, wrld>> /\ ThreadTypes
    BY DEF HandleAuthSession
  <2> QED
    BY ONLY <2>1, NetGoesOnWith, x \in Sessions
<1>22. CASE AddSession
  <2>1. /\ net' = [net EXCEPT !.at = "input", !.x = NoSession]
        /\ UNCHANGED <<acc, wrld>> /\ ThreadTypes
    BY <1>22 DEF AddSession
  <2> QED
    BY ONLY <2>1, NetGoesOnWith
<1>23. CASE AuthThrows
  <2> PICK at \in {"failed", "input"} : net' = [net EXCEPT !.at = at, !.x = NoSession]
    BY <1>23 DEF AuthThrows
  <2>1. UNCHANGED <<acc, wrld>> /\ ThreadTypes
    BY <1>23 DEF AuthThrows
  <2> QED
    BY ONLY <2>1, NetGoesOnWith, at \in {"failed", "input"},
       net' = [net EXCEPT !.at = at, !.x = NoSession]
<1>24. CASE InputDone
  BY <1>24 DEF InputDone, NetIdle
<1>25. CASE InputDoneFails
  <2>1. net' = [net EXCEPT !.at = "failed"] /\ UNCHANGED <<acc, wrld>> /\ ThreadTypes
    BY <1>25 DEF InputDoneFails
  <2> QED
    BY ONLY <2>1, NetGoesOn
<1>26. CASE HandleClose
  BY <1>26 DEF HandleClose
<1>27. CASE HandleCloseForgets
  BY <1>27 DEF HandleCloseForgets, Forget
<1>28. CASE Unbind
  BY <1>28 DEF Unbind, NetIdle, Last
<1>29. CASE Drop
  BY <1>29 DEF Drop, CloseSocket
<1>30. CASE DropForgets
  BY <1>30 DEF DropForgets, Forget
<1>31. CASE Dropped
  BY <1>31 DEF Dropped, NetIdle
<1>32. CASE \E x \in Sessions : Admit(x)
  BY <1>32 DEF Admit
<1>33. CASE \E x \in Sessions : Refuse(x)
  BY <1>33 DEF Refuse
<1>34. CASE \E x, old \in Sessions : Replace(x, old)
  BY <1>34 DEF Replace
<1>35. CASE \E x \in Sessions : KickPlayer(x)
  BY <1>35 DEF KickPlayer
<1>36. CASE \E x \in Sessions : UpdateSession(x)
  BY <1>36 DEF UpdateSession, ReleaseSocket
<1>37. CASE WorldCloses
  BY <1>37 DEF WorldCloses, CloseSocket, Kicked, WorldIdle
<1>38. CASE WorldForgets
  BY <1>38 DEF WorldForgets, Forget, Kicked, WorldIdle
<1>39. CASE WorldReleases
  BY <1>39 DEF WorldReleases, ReleaseSocket
<1>40. CASE DeleteSession
  BY <1>40 DEF DeleteSession, WorldIdle
<1>41. CASE UNCHANGED vars
  BY <1>41
<1> QED
  BY <1>1, <1>2, <1>3, <1>4, <1>5, <1>6, <1>7, <1>8, <1>9, <1>10, <1>11,
    <1>12, <1>13, <1>14, <1>15, <1>16, <1>17, <1>18, <1>19, <1>20, <1>21,
    <1>22, <1>23, <1>24, <1>25, <1>26, <1>27, <1>28, <1>29, <1>30, <1>31,
    <1>32, <1>33, <1>34, <1>35, <1>36, <1>37, <1>38, <1>39, <1>40, <1>41
    DEF Next, Acceptor, Packet, Network, World

\* Every step keeps the types.
LEMMA TypeStep == IInv /\ [Next]_vars => TypeOK'
  BY SocketTypesStep, ListTypesStep, ThreadTypesStep
     DEF IInv, TypeOK, SocketTypes, ListTypes, ThreadTypes

\* Every step keeps what is known of the threads.
LEMMA ThreadsStep == TypeOK /\ ThreadsInv /\ SessionsInv /\ RefsHeld /\
      [Next]_vars => ThreadsInv'
<1> SUFFICES ASSUME TypeOK /\ ThreadsInv /\ SessionsInv /\ RefsHeld, [Next]_vars
             PROVE  ThreadsInv'
  OBVIOUS
<1> USE SocketsAssumption DEF TypeOK, Masks, ThreadsInv, vars, socketVars,
      listVars, sessionVars, peerVars
<1>1. CASE \E s \in Sockets : Accept(s)
  <2> PICK s \in Sockets : Accept(s)
    BY <1>1
  <2>1. s \notin newSockets \cup sockets \cup bound
    BY NoHolder DEF Accept, RefsHeld
  <2> QED
    BY <2>1 DEF Accept
<1>2. CASE AddSocket
  BY <1>2 DEF AddSocket
<1>3. CASE OpenFails
  BY <1>3 DEF OpenFails
<1>4. CASE RegisterHandler
  BY <1>4 DEF RegisterHandler
<1>5. CASE Opened
  BY <1>5 DEF Opened, Idle
<1>6. CASE Close
  BY <1>6 DEF Close, Idle, CloseSocket
<1>7. CASE \E s \in Sockets : PeerCloses(s)
  BY <1>7 DEF PeerCloses
<1>8. CASE \E s \in Sockets : HandleInput(s)
  BY <1>8 DEF HandleInput, Upcall, NetIdle
<1>9. CASE \E s \in Sockets : InputFails(s)
  BY <1>9 DEF InputFails, Upcall, NetIdle
<1>10. CASE \E s \in Sockets : OutputFails(s)
  BY <1>10 DEF OutputFails, Upcall, NetIdle
<1>11. CASE \E s \in Sockets : OutputDone(s)
  BY <1>11 DEF OutputDone
<1>12. CASE \E s \in Sockets : HandleError(s)
  BY <1>12 DEF HandleError, NetIdle
<1>13. CASE \E s \in Sockets : UpdateSocket(s)
  BY <1>13 DEF UpdateSocket
<1>14. CASE \E s \in Sockets : UpdateFails(s)
  BY <1>14 DEF UpdateFails, NetIdle
<1>15. CASE AddNewSockets
  BY <1>15 DEF AddNewSockets
<1>16. CASE NextPacket
  BY <1>16 DEF NextPacket
<1>17. CASE PacketDone
  BY <1>17 DEF PacketDone
<1>18. CASE PacketFails
  BY <1>18 DEF PacketFails
<1>19. CASE UseSession
  BY <1>19 DEF UseSession
<1>20. CASE AuthTwice
  BY <1>20 DEF AuthTwice
<1>21. CASE \E x \in Sessions : HandleAuthSession(x)
  BY <1>21 DEF HandleAuthSession
<1>22. CASE AddSession
  BY <1>22 DEF AddSession
<1>23. CASE AuthThrows
  BY <1>23 DEF AuthThrows
<1>24. CASE InputDone
  BY <1>24 DEF InputDone, NetIdle
<1>25. CASE InputDoneFails
  BY <1>25 DEF InputDoneFails
<1>26. CASE HandleClose
  BY <1>26 DEF HandleClose
<1>27. CASE HandleCloseForgets
  BY <1>27 DEF HandleCloseForgets, Forget
<1>28. CASE Unbind
  BY <1>28 DEF Unbind, NetIdle, Last
<1>29. CASE Drop
  BY <1>29 DEF Drop, CloseSocket
<1>30. CASE DropForgets
  BY <1>30 DEF DropForgets, Forget
<1>31. CASE Dropped
  BY <1>31 DEF Dropped, NetIdle
<1>32. CASE \E x \in Sessions : Admit(x)
  BY <1>32 DEF Admit
<1>33. CASE \E x \in Sessions : Refuse(x)
  BY <1>33 DEF Refuse
<1>34. CASE \E x, old \in Sessions : Replace(x, old)
  BY <1>34 DEF Replace
<1>35. CASE \E x \in Sessions : KickPlayer(x)
  BY <1>35 DEF KickPlayer
<1>36. CASE \E x \in Sessions : UpdateSession(x)
  BY <1>36 DEF UpdateSession, ReleaseSocket
<1>37. CASE WorldCloses
  BY <1>37 DEF WorldCloses, CloseSocket, Kicked, WorldIdle
<1>38. CASE WorldForgets
  BY <1>38 DEF WorldForgets, Forget, Kicked, WorldIdle
<1>39. CASE WorldReleases
  BY <1>39 DEF WorldReleases, ReleaseSocket
<1>40. CASE DeleteSession
  BY <1>40 DEF DeleteSession, WorldIdle
<1>41. CASE UNCHANGED vars
  BY <1>41
<1> QED
  BY <1>1, <1>2, <1>3, <1>4, <1>5, <1>6, <1>7, <1>8, <1>9, <1>10, <1>11,
    <1>12, <1>13, <1>14, <1>15, <1>16, <1>17, <1>18, <1>19, <1>20, <1>21,
    <1>22, <1>23, <1>24, <1>25, <1>26, <1>27, <1>28, <1>29, <1>30, <1>31,
    <1>32, <1>33, <1>34, <1>35, <1>36, <1>37, <1>38, <1>39, <1>40, <1>41
    DEF Next, Acceptor, Packet, Network, World

\* Every step keeps what is known of the sessions.
LEMMA SessionsStep == IInv /\ [Next]_vars => SessionsInv'
<1> SUFFICES ASSUME IInv, [Next]_vars PROVE SessionsInv'
  OBVIOUS
<1> USE SocketsAssumption DEF IInv, TypeOK, ThreadsInv, SessionsInv,
      SessionPointers, Alive, vars, socketVars, listVars, sessionVars,
      peerVars
<1>1. CASE \E s \in Sockets : Accept(s)
  BY <1>1 DEF Accept
<1>2. CASE AddSocket
  BY <1>2 DEF AddSocket
<1>3. CASE OpenFails
  BY <1>3 DEF OpenFails
<1>4. CASE RegisterHandler
  BY <1>4 DEF RegisterHandler
<1>5. CASE Opened
  BY <1>5 DEF Opened, Idle
<1>6. CASE Close
  BY <1>6 DEF Close, Idle, CloseSocket
<1>7. CASE \E s \in Sockets : PeerCloses(s)
  BY <1>7 DEF PeerCloses
<1>8. CASE \E s \in Sockets : HandleInput(s)
  BY <1>8 DEF HandleInput, Upcall, NetIdle
<1>9. CASE \E s \in Sockets : InputFails(s)
  BY <1>9 DEF InputFails, Upcall, NetIdle
<1>10. CASE \E s \in Sockets : OutputFails(s)
  BY <1>10 DEF OutputFails, Upcall, NetIdle
<1>11. CASE \E s \in Sockets : OutputDone(s)
  BY <1>11 DEF OutputDone
<1>12. CASE \E s \in Sockets : HandleError(s)
  BY <1>12 DEF HandleError, NetIdle
<1>13. CASE \E s \in Sockets : UpdateSocket(s)
  BY <1>13 DEF UpdateSocket
<1>14. CASE \E s \in Sockets : UpdateFails(s)
  BY <1>14 DEF UpdateFails, NetIdle
<1>15. CASE AddNewSockets
  BY <1>15 DEF AddNewSockets
<1>16. CASE NextPacket
  BY <1>16 DEF NextPacket
<1>17. CASE PacketDone
  BY <1>17 DEF PacketDone
<1>18. CASE PacketFails
  BY <1>18 DEF PacketFails
<1>19. CASE UseSession
  BY <1>19 DEF UseSession
<1>20. CASE AuthTwice
  BY <1>20 DEF AuthTwice
<1>21. CASE \E x \in Sessions : HandleAuthSession(x)
  BY <1>21 DEF HandleAuthSession
<1>22. CASE AddSession
  BY <1>22 DEF AddSession
<1>23. CASE AuthThrows
  BY <1>23 DEF AuthThrows
<1>24. CASE InputDone
  BY <1>24 DEF InputDone, NetIdle
<1>25. CASE InputDoneFails
  BY <1>25 DEF InputDoneFails
<1>26. CASE HandleClose
  BY <1>26 DEF HandleClose
<1>27. CASE HandleCloseForgets
  BY <1>27 DEF HandleCloseForgets, Forget
<1>28. CASE Unbind
  BY <1>28 DEF Unbind, NetIdle, Last
<1>29. CASE Drop
  BY <1>29 DEF Drop, CloseSocket
<1>30. CASE DropForgets
  BY <1>30 DEF DropForgets, Forget
<1>31. CASE Dropped
  BY <1>31 DEF Dropped, NetIdle
<1>32. CASE \E x \in Sessions : Admit(x)
  BY <1>32 DEF Admit
<1>33. CASE \E x \in Sessions : Refuse(x)
  BY <1>33 DEF Refuse
<1>34. CASE \E x, old \in Sessions : Replace(x, old)
  BY <1>34 DEF Replace
<1>35. CASE \E x \in Sessions : KickPlayer(x)
  BY <1>35 DEF KickPlayer
<1>36. CASE \E x \in Sessions : UpdateSession(x)
  BY <1>36 DEF UpdateSession, ReleaseSocket
<1>37. CASE WorldCloses
  BY <1>37 DEF WorldCloses, CloseSocket, Kicked, WorldIdle
<1>38. CASE WorldForgets
  BY <1>38 DEF WorldForgets, Forget, Kicked, WorldIdle
<1>39. CASE WorldReleases
  BY <1>39 DEF WorldReleases, ReleaseSocket
<1>40. CASE DeleteSession
  BY <1>40 DEF DeleteSession, WorldIdle
<1>41. CASE UNCHANGED vars
  BY <1>41
<1> QED
  BY <1>1, <1>2, <1>3, <1>4, <1>5, <1>6, <1>7, <1>8, <1>9, <1>10, <1>11,
    <1>12, <1>13, <1>14, <1>15, <1>16, <1>17, <1>18, <1>19, <1>20, <1>21,
    <1>22, <1>23, <1>24, <1>25, <1>26, <1>27, <1>28, <1>29, <1>30, <1>31,
    <1>32, <1>33, <1>34, <1>35, <1>36, <1>37, <1>38, <1>39, <1>40, <1>41
    DEF Next, Acceptor, Packet, Network, World

\* One holder more, who finds the socket held, is one reference more.
LEMMA AddHolder ==
  ASSUME TypeOK, RefsHeld, NEW s \in Sockets, AddReference(s), Holders(s) > 0,
         \A t \in Sockets : Holders(t)' = Holders(t) + One(t = s)
  PROVE  RefsHeld'
<1> SUFFICES ASSUME NEW t \in Sockets
             PROVE  refs[t]' = Holders(t)' /\ (life[t]' = "live" <=> Holders(t)' > 0)
  BY DEF RefsHeld
<1>1. Holders(t)' = refs[t] + One(t = s) /\ refs[t] \in Int
  BY DEF RefsHeld, TypeOK
<1>2. refs[s] > 0 /\ (life[t] = "live" <=> refs[t] > 0)
  BY DEF RefsHeld
<1>3. refs'[t] = refs[t] + One(t = s) /\ life'[t] = life[t]
  BY <1>1 DEF AddReference, TypeOK, One
<1> QED
  BY <1>1, <1>2, <1>3 DEF One

\* The release of n references by n holders.
LEMMA RemoveHolders ==
  ASSUME TypeOK, RefsHeld, NEW s \in Sockets, NEW n \in Nat, RemoveReferences(s, n),
         Holders(s) > 0,
         \A t \in Sockets : Holders(t)' = Holders(t) - (IF t = s THEN n ELSE 0)
  PROVE  RefsHeld'
<1> SUFFICES ASSUME NEW t \in Sockets
             PROVE  refs[t]' = Holders(t)' /\ (life[t]' = "live" <=> Holders(t)' > 0)
  BY DEF RefsHeld
<1>1. Holders(t)' = refs[t] - (IF t = s THEN n ELSE 0) /\ refs[t] \in Int
  BY DEF RefsHeld, TypeOK
<1>2. refs[s] > 0 /\ (life[t] = "live" <=> refs[t] > 0)
  BY DEF RefsHeld
<1>3. refs'[t] = refs[t] - (IF t = s THEN n ELSE 0)
  BY <1>1 DEF RemoveReferences, TypeOK
<1>4. life'[t] = IF t = s /\ n > 0 /\ refs[t] - n <= 0 THEN "deleted" ELSE life[t]
  BY DEF RemoveReferences, TypeOK
<1> QED
  BY <1>1, <1>2, <1>3, <1>4

\* While sock does not change, the holders change with the acceptor, the lists,
\* the reactor and the upcall.
LEMMA HoldersChange ==
  ASSUME sock' = sock, NEW t \in Sockets
  PROVE  /\ Holders(t) \in Nat /\ Holders(t)' \in Nat
         /\ Holders(t)' - Holders(t) =
              One(Opening(t))' - One(Opening(t))
              + One(t \in newSockets)' - One(t \in newSockets)
              + One(t \in sockets)' - One(t \in sockets)
              + One(t \in bound)' - One(t \in bound)
              + One(InUpcall(t))' - One(InUpcall(t))
<1> DEFINE c == Cardinality({x \in Sessions : sock[x] = t})
<1>1. c \in Nat
  BY SessionHolders
<1>2. c' = c
  OBVIOUS
<1>3. /\ Holders(t) = One(Opening(t)) + One(t \in newSockets) + One(t \in sockets)
                        + One(t \in bound) + One(InUpcall(t)) + c
      /\ Holders(t)' = One(Opening(t))' + One(t \in newSockets)' + One(t \in sockets)'
                         + One(t \in bound)' + One(InUpcall(t))' + c'
  BY DEF Holders
<1> HIDE DEF c
<1> QED
  BY <1>1, <1>2, <1>3 DEF One

\* The upcall's reference.
LEMMA UpcallRefs ==
  ASSUME IInv, NEW s \in Sockets, NEW at, NEW ev, ev # {}, Upcall(s, at, ev)
  PROVE  RefsHeld'
<1>1. s \in bound /\ ~net.guard
  BY DEF IInv, ThreadsInv, Upcall
<1>2. Holders(s) > 0
  BY <1>1, Held
<1>3. net'.guard /\ net'.s = s
  BY DEF Upcall, NetIdle
<1>4. ASSUME NEW t \in Sockets PROVE Holders(t)' = Holders(t) + One(t = s)
  <2>1. UNCHANGED <<sock, newSockets, sockets, bound, acc>>
    BY DEF Upcall, sessionVars, listVars
  <2>2. Holders(t) \in Nat /\ Holders(t)' \in Nat
    BY <2>1, HoldersChange
  <2> QED
    BY <1>1, <1>3, <2>1, <2>2, HoldersChange DEF One, Opening, InUpcall
<1> QED
  BY <1>2, <1>4, AddHolder DEF Upcall, IInv

\* A session that gets a socket, or lets it go, is one session more or less that
\* holds it.
LEMMA SessionTakes ==
  ASSUME TypeOK, NEW x \in Sessions, NEW s \in Sockets, sock[x] = NoSocket,
         sock' = [sock EXCEPT ![x] = s], NEW t \in Sockets
  PROVE  Cardinality({y \in Sessions : sock'[y] = t})
           = Cardinality({y \in Sessions : sock[y] = t}) + One(t = s)
<1> DEFINE H == {y \in Sessions : sock[y] = t}
           K == {y \in Sessions : sock'[y] = t}
<1>1. IsFiniteSet(H) /\ Cardinality(H) \in Nat
  BY SessionHolders
<1>2. x \notin H
  BY SocketsAssumption
<1>3. K = IF t = s THEN H \cup {x} ELSE H
  BY <1>2 DEF TypeOK
<1>4. Cardinality(H \cup {x}) = Cardinality(H) + 1
  BY <1>1, <1>2, FS_AddElement
<1>5. Cardinality(K) = Cardinality(H) + One(t = s)
  <2> HIDE DEF H, K
  <2>1. CASE t = s
    BY <2>1, <1>3, <1>4 DEF One
  <2>2. CASE t # s
    BY <2>2, <1>1, <1>3 DEF One
  <2> QED
    BY <2>1, <2>2
<1> QED
  BY <1>5

\* The other way.
LEMMA SessionReleases ==
  ASSUME TypeOK, NEW x \in Sessions, sock[x] \in Sockets,
         sock' = [sock EXCEPT ![x] = NoSocket], NEW t \in Sockets
  PROVE  /\ Cardinality({y \in Sessions : sock'[y] = t})
              = Cardinality({y \in Sessions : sock[y] = t}) - One(t = sock[x])
         /\ t = sock[x] => Cardinality({y \in Sessions : sock[y] = t}) > 0
<1> DEFINE H == {y \in Sessions : sock[y] = t}
           K == {y \in Sessions : sock'[y] = t}
<1>1. IsFiniteSet(H) /\ Cardinality(H) \in Nat
  BY SessionHolders
<1>2. t = sock[x] <=> x \in H
  OBVIOUS
<1>3. K = H \ {x}
  BY SocketsAssumption DEF TypeOK
<1>4. IsFiniteSet(H \ {x}) /\ Cardinality(H \ {x}) \in Nat
  BY <1>1, FS_RemoveElement, FS_CardinalityType
<1>5. x \in H => Cardinality(H \ {x}) = Cardinality(H) - 1
  BY <1>1, FS_RemoveElement
<1>6. x \notin H => H \ {x} = H
  OBVIOUS
<1>7. /\ Cardinality(K) = Cardinality(H) - One(t = sock[x])
      /\ t = sock[x] => Cardinality(H) > 0
  <2> HIDE DEF H, K
  <2>1. CASE x \in H
    BY <2>1, <1>1, <1>2, <1>3, <1>4, <1>5 DEF One
  <2>2. CASE x \notin H
    BY <2>2, <1>1, <1>2, <1>3, <1>6 DEF One
  <2> QED
    BY <2>1, <2>2
<1> QED
  BY <1>7

\* The world's release of a session's socket.
LEMMA ReleaseSocketRefs ==
  ASSUME IInv, NEW x \in Sessions, sock[x] \in Sockets, ReleaseSocket(x)
  PROVE  RefsHeld'
<1> DEFINE s == sock[x]
           c(t) == Cardinality({y \in Sessions : sock[y] = t})
           r(t) == One(Opening(t)) + One(t \in newSockets) + One(t \in sockets)
                     + One(t \in bound) + One(InUpcall(t))
<1>1. \A t \in Sockets : Holders(t) = r(t) + c(t) /\ Holders(t)' = r(t)' + c(t)'
  BY DEF Holders
<1>2. \A t \in Sockets : r(t)' = r(t) /\ r(t) \in Nat
  BY DEF ReleaseSocket, listVars, Opening, InUpcall, One
<1>3. \A t \in Sockets : /\ c(t)' = c(t) - One(t = s) /\ c(t) \in Nat
                         /\ t = s => c(t) > 0
  BY SessionReleases, SessionHolders DEF ReleaseSocket, IInv
<1> HIDE DEF c, r
<1>4. \A t \in Sockets : Holders(t)' = Holders(t) - (IF t = s THEN 1 ELSE 0)
  BY <1>1, <1>2, <1>3 DEF One
<1>5. Holders(s) > 0
  BY <1>1, <1>2, <1>3
<1> QED
  BY <1>4, <1>5, RemoveHolders DEF ReleaseSocket, RemoveReference, IInv

\* Every step keeps the counts.
LEMMA RefsStep == IInv /\ [Next]_vars => RefsHeld'
<1> SUFFICES ASSUME IInv, [Next]_vars PROVE RefsHeld'
  OBVIOUS
<1> USE DEF vars, socketVars, listVars, sessionVars, peerVars
<1>1. CASE \E s \in Sockets : Accept(s)
  <2> PICK s \in Sockets : Accept(s)
    BY <1>1
  <2>1. refs[s] = 0 /\ Holders(s) = 0 /\ life[s] = "none"
    <3>1. sock' = sock
      BY DEF Accept, sessionVars
    <3>2. Holders(s) \in Nat
      BY <3>1, HoldersChange
    <3> QED
      BY <3>2 DEF Accept, IInv, RefsHeld
  <2>2. ASSUME NEW t \in Sockets PROVE Holders(t)' = Holders(t) + One(t = s)
    <3>1. UNCHANGED <<sock, newSockets, sockets, bound, net>>
      BY DEF Accept, sessionVars, listVars
    <3>2. Holders(t) \in Nat /\ Holders(t)' \in Nat
      BY <3>1, HoldersChange
    <3> QED
      BY <3>1, <3>2, HoldersChange DEF Accept, One, Opening, InUpcall
  <2> QED
    BY <2>1, <2>2 DEF Accept, IInv, TypeOK, RefsHeld, One
<1>2. CASE AddSocket
  <2>1. acc.s \in Sockets
    BY <1>2 DEF AddSocket, IInv, ThreadsInv
  <2>2. Holders(acc.s) > 0
    BY <1>2, <2>1, Held DEF AddSocket, IInv, ThreadsInv, Opening, InUpcall
  <2>3. ASSUME NEW t \in Sockets PROVE Holders(t)' = Holders(t) + One(t = acc.s)
    <3>1. sock' = sock
      BY <1>2 DEF AddSocket, vars, socketVars, listVars, sessionVars, peerVars
    <3>2. Holders(t) \in Nat /\ Holders(t)' \in Nat
      BY <3>1, HoldersChange
    <3> QED
      BY <1>2, <2>1, <3>1, <3>2, HoldersChange DEF AddSocket, One,
         Opening, InUpcall, IInv, ThreadsInv, TypeOK, vars, socketVars,
         listVars, sessionVars, peerVars
  <2> QED
    BY <1>2, <2>1, <2>2, <2>3, AddHolder DEF IInv, AddSocket
<1>3. CASE RegisterHandler
  <2>1. acc.s \in Sockets
    BY <1>3 DEF RegisterHandler, IInv, ThreadsInv
  <2>2. Holders(acc.s) > 0
    BY <1>3, <2>1, Held DEF RegisterHandler, IInv, ThreadsInv, Opening, InUpcall
  <2>3. ASSUME NEW t \in Sockets PROVE Holders(t)' = Holders(t) + One(t = acc.s)
    <3>1. sock' = sock
      BY <1>3 DEF RegisterHandler, vars, socketVars, listVars,
         sessionVars, peerVars
    <3>2. Holders(t) \in Nat /\ Holders(t)' \in Nat
      BY <3>1, HoldersChange
    <3> QED
      BY <1>3, <2>1, <3>1, <3>2, HoldersChange DEF RegisterHandler,
         One, Opening, InUpcall, IInv, ThreadsInv, TypeOK, vars,
         socketVars, listVars, sessionVars, peerVars
  <2> QED
    BY <1>3, <2>1, <2>2, <2>3, AddHolder DEF IInv, RegisterHandler
<1>4. CASE Opened
  <2>1. acc.s \in Sockets
    BY <1>4 DEF Opened, IInv, ThreadsInv
  <2>2. Holders(acc.s) > 0
    BY <1>4, <2>1, Held DEF Opened, Idle, IInv, ThreadsInv, Opening, InUpcall
  <2>3. ASSUME NEW t \in Sockets PROVE Holders(t)' = Holders(t) - (IF t = acc.s THEN 1 ELSE 0)
    <3>1. sock' = sock
      BY <1>4 DEF Opened, Idle, vars, socketVars, listVars,
         sessionVars, peerVars
    <3>2. Holders(t) \in Nat /\ Holders(t)' \in Nat
      BY <3>1, HoldersChange
    <3> QED
      BY <1>4, <2>1, <3>1, <3>2, HoldersChange DEF Opened, Idle, One,
         Opening, InUpcall, IInv, ThreadsInv, TypeOK, vars, socketVars,
         listVars, sessionVars, peerVars
  <2> QED
    BY <1>4, <2>1, <2>2, <2>3, RemoveHolders DEF IInv, Opened, RemoveReference
<1>5. CASE Close
  <2>1. acc.s \in Sockets
    BY <1>5 DEF Close, IInv, ThreadsInv
  <2>2. Holders(acc.s) > 0
    BY <1>5, <2>1, Held DEF Close, Idle, CloseSocket, IInv, ThreadsInv,
       Opening, InUpcall
  <2>3. ASSUME NEW t \in Sockets PROVE Holders(t)' = Holders(t) - (IF t = acc.s THEN 1 ELSE 0)
    <3>1. sock' = sock
      BY <1>5 DEF Close, Idle, CloseSocket, vars, socketVars, listVars,
         sessionVars, peerVars
    <3>2. Holders(t) \in Nat /\ Holders(t)' \in Nat
      BY <3>1, HoldersChange
    <3> QED
      BY <1>5, <2>1, <3>1, <3>2, HoldersChange DEF Close, Idle,
         CloseSocket, One, Opening, InUpcall, IInv, ThreadsInv, TypeOK,
         vars, socketVars, listVars, sessionVars, peerVars
  <2> QED
    BY <1>5, <2>1, <2>2, <2>3, RemoveHolders DEF IInv, Close, RemoveReference
<1>6. CASE \E s \in Sockets : HandleInput(s)
  BY <1>6, UpcallRefs DEF HandleInput
<1>7. CASE \E s \in Sockets : InputFails(s)
  BY <1>7, UpcallRefs DEF InputFails
<1>8. CASE \E s \in Sockets : OutputFails(s)
  BY <1>8, UpcallRefs DEF OutputFails
<1>9. CASE AddNewSockets
  <2> SUFFICES ASSUME NEW t \in Sockets
               PROVE  refs[t]' = Holders(t)' /\ (life[t]' = "live" <=> Holders(t)' > 0)
    BY DEF RefsHeld
  <2> DEFINE d == IF t \in newSockets /\ closing[t] THEN 1 ELSE 0
  <2>1. UNCHANGED <<sock, bound, acc, net>>
    BY <1>9 DEF AddNewSockets, sessionVars
  <2>2. Holders(t) \in Nat /\ Holders(t)' \in Nat
    BY <2>1, HoldersChange
  <2>3. t \in newSockets => t \notin sockets
    BY DEF IInv, ThreadsInv
  <2>4. Holders(t)' = Holders(t) - d
    BY <1>9, <2>1, <2>2, <2>3, HoldersChange DEF AddNewSockets, One,
       Opening, InUpcall
  <2>5. refs'[t] = refs[t] - d /\ life'[t] = IF d = 1 /\ refs[t] = 1 THEN "deleted" ELSE life[t]
    BY <1>9 DEF AddNewSockets, IInv, TypeOK
  <2>6. refs[t] = Holders(t) /\ (life[t] = "live" <=> Holders(t) > 0)
    BY DEF IInv, RefsHeld
  <2> QED
    BY <2>2, <2>4, <2>5, <2>6
<1>10. CASE \E x \in Sessions : HandleAuthSession(x)
  <2> PICK x \in Sessions : HandleAuthSession(x)
    BY <1>10
  <2> DEFINE s == net.s
             c(t) == Cardinality({y \in Sessions : sock[y] = t})
             r(t) == One(Opening(t)) + One(t \in newSockets) + One(t \in sockets)
                       + One(t \in bound) + One(InUpcall(t))
  <2>1. s \in Sockets /\ s \in bound /\ sock[x] = NoSocket
    BY DEF HandleAuthSession, IInv, TypeOK, ThreadsInv, SessionsInv, Alive
  <2>2. \A t \in Sockets : Holders(t) = r(t) + c(t) /\ Holders(t)' = r(t)' + c(t)'
    BY DEF Holders
  <2>3. \A t \in Sockets : r(t)' = r(t) /\ r(t) \in Nat
    BY DEF HandleAuthSession, listVars, Opening, InUpcall, One, IInv, TypeOK
  <2>4. \A t \in Sockets : c(t)' = c(t) + One(t = s) /\ c(t) \in Nat
    <3> SUFFICES ASSUME NEW t \in Sockets
                 PROVE  c(t)' = c(t) + One(t = s) /\ c(t) \in Nat
      OBVIOUS
    <3>1. sock' = [sock EXCEPT ![x] = s] /\ TypeOK
      BY DEF HandleAuthSession, IInv
    <3>2. Cardinality({y \in Sessions : sock'[y] = t})
            = Cardinality({y \in Sessions : sock[y] = t}) + One(t = s)
      BY ONLY <2>1, <3>1, SessionTakes, t \in Sockets, x \in Sessions
    <3> QED
      BY <3>2, SessionHolders
  <2>5. Holders(s) > 0
    BY <2>1, Held
  <2> HIDE DEF c, r
  <2>6. \A t \in Sockets : Holders(t)' = Holders(t) + One(t = s)
    BY <2>2, <2>3, <2>4 DEF One
  <2> QED
    BY <2>1, <2>5, <2>6, AddHolder DEF HandleAuthSession, IInv
<1>11. CASE InputDone
  <2>1. net.s \in Sockets
    BY <1>11 DEF InputDone, IInv, ThreadsInv
  <2>2. Holders(net.s) > 0
    BY <1>11, <2>1, Held DEF InputDone, NetIdle, IInv, ThreadsInv,
       Opening, InUpcall
  <2>3. ASSUME NEW t \in Sockets PROVE Holders(t)' = Holders(t) - (IF t = net.s THEN 1 ELSE 0)
    <3>1. sock' = sock
      BY <1>11 DEF InputDone, NetIdle, vars, socketVars, listVars,
         sessionVars, peerVars
    <3>2. Holders(t) \in Nat /\ Holders(t)' \in Nat
      BY <3>1, HoldersChange
    <3> QED
      BY <1>11, <2>1, <3>1, <3>2, HoldersChange DEF InputDone, NetIdle,
         One, Opening, InUpcall, IInv, ThreadsInv, TypeOK, vars,
         socketVars, listVars, sessionVars, peerVars
  <2> QED
    BY <1>11, <2>1, <2>2, <2>3, RemoveHolders DEF IInv, InputDone,
       RemoveReference
<1>12. CASE Unbind
  <2> DEFINE s == net.s
             n == (IF Last(s) THEN 1 ELSE 0) + (IF net.guard THEN 1 ELSE 0)
  <2>1. s \in Sockets /\ s \in bound /\ n \in Nat
    BY <1>12 DEF Unbind, IInv, ThreadsInv
  <2>2. RemoveReferences(s, n)
    BY <1>12 DEF Unbind
  <2>3. Holders(s) > 0
    BY <2>1, Held
  <2>4. ASSUME NEW t \in Sockets
        PROVE  Holders(t)' = Holders(t) - (IF t = s THEN n ELSE 0)
    <3>1. UNCHANGED <<sock, newSockets, sockets, acc>> /\ ~net'.guard
      BY <1>12 DEF Unbind, NetIdle, sessionVars, listVars
    <3>2. bound' = IF Last(s) THEN bound \ {s} ELSE bound
      BY <1>12 DEF Unbind
    <3>3. Holders(t) \in Nat /\ Holders(t)' \in Nat
      BY <3>1, HoldersChange
    <3>4. One(t \in bound)' - One(t \in bound)
            = IF t = s /\ Last(s) THEN -1 ELSE 0
      BY <2>1, <3>2 DEF One
    <3>5. One(InUpcall(t))' - One(InUpcall(t))
            = IF t = s /\ net.guard THEN -1 ELSE 0
      BY <3>1 DEF One, InUpcall
    <3> QED
      BY <3>1, <3>3, <3>4, <3>5, HoldersChange DEF One, Opening
  <2> HIDE DEF n
  <2> QED
    BY <2>1, <2>2, <2>3, <2>4, RemoveHolders DEF IInv
<1>13. CASE Dropped
  <2>1. net.s \in Sockets
    BY <1>13 DEF Dropped, IInv, ThreadsInv
  <2>2. Holders(net.s) > 0
    BY <1>13, <2>1, Held DEF Dropped, NetIdle, IInv, ThreadsInv, Opening,
       InUpcall
  <2>3. ASSUME NEW t \in Sockets PROVE Holders(t)' = Holders(t) - (IF t = net.s THEN 1 ELSE 0)
    <3>1. sock' = sock
      BY <1>13 DEF Dropped, NetIdle, vars, socketVars, listVars,
         sessionVars, peerVars
    <3>2. Holders(t) \in Nat /\ Holders(t)' \in Nat
      BY <3>1, HoldersChange
    <3>3. UNCHANGED <<newSockets, bound, acc>> /\ ~net.guard /\ ~net'.guard
      BY <1>13 DEF Dropped, NetIdle, IInv, ThreadsInv, listVars
    <3>4. One(t \in sockets)' - One(t \in sockets) = IF t = net.s THEN -1 ELSE 0
      BY <1>13 DEF Dropped, One, IInv, ThreadsInv
    <3> QED
      BY <3>1, <3>2, <3>3, <3>4, HoldersChange DEF One, Opening, InUpcall
  <2> QED
    BY <1>13, <2>1, <2>2, <2>3, RemoveHolders DEF IInv, Dropped, RemoveReference
<1>14. CASE \E x \in Sessions : UpdateSession(x)
  BY <1>14, ReleaseSocketRefs DEF UpdateSession, IInv, SessionsInv, TypeOK,
     Alive
<1>15. CASE WorldReleases
  BY <1>15, ReleaseSocketRefs DEF WorldReleases, IInv, SessionsInv, TypeOK,
     Alive
<1> USE SessionHolders DEF IInv, TypeOK, ThreadsInv, RefsHeld, Holders,
      One, Opening, InUpcall
<1>16. CASE OpenFails
  BY <1>16 DEF OpenFails
<1>17. CASE \E s \in Sockets : PeerCloses(s)
  BY <1>17 DEF PeerCloses
<1>18. CASE \E s \in Sockets : OutputDone(s)
  BY <1>18 DEF OutputDone
<1>19. CASE \E s \in Sockets : HandleError(s)
  BY <1>19 DEF HandleError, NetIdle
<1>20. CASE \E s \in Sockets : UpdateSocket(s)
  BY <1>20 DEF UpdateSocket
<1>21. CASE \E s \in Sockets : UpdateFails(s)
  BY <1>21 DEF UpdateFails, NetIdle
<1>22. CASE NextPacket
  BY <1>22 DEF NextPacket
<1>23. CASE PacketDone
  BY <1>23 DEF PacketDone
<1>24. CASE PacketFails
  BY <1>24 DEF PacketFails
<1>25. CASE UseSession
  BY <1>25 DEF UseSession
<1>26. CASE AuthTwice
  BY <1>26 DEF AuthTwice
<1>27. CASE AddSession
  BY <1>27 DEF AddSession
<1>28. CASE AuthThrows
  BY <1>28 DEF AuthThrows
<1>29. CASE InputDoneFails
  BY <1>29 DEF InputDoneFails
<1>30. CASE HandleClose
  BY <1>30 DEF HandleClose
<1>31. CASE HandleCloseForgets
  BY <1>31 DEF HandleCloseForgets, Forget
<1>32. CASE Drop
  BY <1>32 DEF Drop, CloseSocket
<1>33. CASE DropForgets
  BY <1>33 DEF DropForgets, Forget
<1>34. CASE \E x \in Sessions : Admit(x)
  BY <1>34 DEF Admit
<1>35. CASE \E x \in Sessions : Refuse(x)
  BY <1>35 DEF Refuse
<1>36. CASE \E x, old \in Sessions : Replace(x, old)
  BY <1>36 DEF Replace
<1>37. CASE \E x \in Sessions : KickPlayer(x)
  BY <1>37 DEF KickPlayer
<1>38. CASE WorldCloses
  BY <1>38 DEF WorldCloses, CloseSocket, Kicked, WorldIdle
<1>39. CASE WorldForgets
  BY <1>39 DEF WorldForgets, Forget, Kicked, WorldIdle
<1>40. CASE DeleteSession
  BY <1>40 DEF DeleteSession, WorldIdle
<1>41. CASE UNCHANGED vars
  BY <1>41
<1> QED
  BY <1>1, <1>2, <1>16, <1>3, <1>4, <1>5, <1>17, <1>6, <1>7, <1>8, <1>18,
    <1>19, <1>20, <1>21, <1>9, <1>22, <1>23, <1>24, <1>25, <1>26, <1>10,
    <1>27, <1>28, <1>11, <1>29, <1>30, <1>31, <1>12, <1>32, <1>33, <1>13,
    <1>34, <1>35, <1>36, <1>37, <1>14, <1>38, <1>39, <1>15, <1>40, <1>41
    DEF Next, Acceptor, Packet, Network, World

\* Every step keeps what is known of m_Session.
LEMMA PointersStep == IInv /\ [Next]_vars => PointersInv'
<1> SUFFICES ASSUME IInv, [Next]_vars PROVE PointersInv'
  OBVIOUS
<1> USE SocketsAssumption DEF IInv, TypeOK, ThreadsInv, SessionsInv,
      SessionPointers, PointersInv, Alive, vars, socketVars, listVars,
      sessionVars, peerVars
<1>1. CASE \E s \in Sockets : Accept(s)
  BY <1>1 DEF Accept
<1>2. CASE AddSocket
  BY <1>2 DEF AddSocket
<1>3. CASE OpenFails
  BY <1>3 DEF OpenFails
<1>4. CASE RegisterHandler
  BY <1>4 DEF RegisterHandler
<1>5. CASE Opened
  BY <1>5 DEF Opened, Idle
<1>6. CASE Close
  BY <1>6 DEF Close, Idle, CloseSocket
<1>7. CASE \E s \in Sockets : PeerCloses(s)
  BY <1>7 DEF PeerCloses
<1>8. CASE \E s \in Sockets : HandleInput(s)
  BY <1>8 DEF HandleInput, Upcall, NetIdle
<1>9. CASE \E s \in Sockets : InputFails(s)
  BY <1>9 DEF InputFails, Upcall, NetIdle
<1>10. CASE \E s \in Sockets : OutputFails(s)
  BY <1>10 DEF OutputFails, Upcall, NetIdle
<1>11. CASE \E s \in Sockets : OutputDone(s)
  BY <1>11 DEF OutputDone
<1>12. CASE \E s \in Sockets : HandleError(s)
  BY <1>12 DEF HandleError, NetIdle
<1>13. CASE \E s \in Sockets : UpdateSocket(s)
  BY <1>13 DEF UpdateSocket
<1>14. CASE \E s \in Sockets : UpdateFails(s)
  BY <1>14 DEF UpdateFails, NetIdle
<1>15. CASE AddNewSockets
  BY <1>15 DEF AddNewSockets
<1>16. CASE NextPacket
  BY <1>16 DEF NextPacket
<1>17. CASE PacketDone
  BY <1>17 DEF PacketDone
<1>18. CASE PacketFails
  BY <1>18 DEF PacketFails
<1>19. CASE UseSession
  BY <1>19 DEF UseSession
<1>20. CASE AuthTwice
  BY <1>20 DEF AuthTwice
<1>21. CASE \E x \in Sessions : HandleAuthSession(x)
  BY <1>21 DEF HandleAuthSession
<1>22. CASE AddSession
  BY <1>22 DEF AddSession
<1>23. CASE AuthThrows
  BY <1>23 DEF AuthThrows
<1>24. CASE InputDone
  BY <1>24 DEF InputDone, NetIdle
<1>25. CASE InputDoneFails
  BY <1>25 DEF InputDoneFails
<1>26. CASE HandleClose
  BY <1>26 DEF HandleClose
<1>27. CASE HandleCloseForgets
  BY <1>27 DEF HandleCloseForgets, Forget
<1>28. CASE Unbind
  BY <1>28 DEF Unbind, NetIdle, Last
<1>29. CASE Drop
  BY <1>29 DEF Drop, CloseSocket
<1>30. CASE DropForgets
  BY <1>30 DEF DropForgets, Forget
<1>31. CASE Dropped
  BY <1>31 DEF Dropped, NetIdle
<1>32. CASE \E x \in Sessions : Admit(x)
  BY <1>32 DEF Admit
<1>33. CASE \E x \in Sessions : Refuse(x)
  BY <1>33 DEF Refuse
<1>34. CASE \E x, old \in Sessions : Replace(x, old)
  BY <1>34 DEF Replace
<1>35. CASE \E x \in Sessions : KickPlayer(x)
  BY <1>35 DEF KickPlayer
<1>36. CASE \E x \in Sessions : UpdateSession(x)
  BY <1>36 DEF UpdateSession, ReleaseSocket
<1>37. CASE WorldCloses
  BY <1>37 DEF WorldCloses, CloseSocket, Kicked, WorldIdle
<1>38. CASE WorldForgets
  BY <1>38 DEF WorldForgets, Forget, Kicked, WorldIdle
<1>39. CASE WorldReleases
  BY <1>39 DEF WorldReleases, ReleaseSocket
<1>40. CASE DeleteSession
  BY <1>40 DEF DeleteSession, WorldIdle
<1>41. CASE UNCHANGED vars
  BY <1>41
<1> QED
  BY <1>1, <1>2, <1>3, <1>4, <1>5, <1>6, <1>7, <1>8, <1>9, <1>10, <1>11,
    <1>12, <1>13, <1>14, <1>15, <1>16, <1>17, <1>18, <1>19, <1>20, <1>21,
    <1>22, <1>23, <1>24, <1>25, <1>26, <1>27, <1>28, <1>29, <1>30, <1>31,
    <1>32, <1>33, <1>34, <1>35, <1>36, <1>37, <1>38, <1>39, <1>40, <1>41
    DEF Next, Acceptor, Packet, Network, World

\* Every step keeps the pointers right.
LEMMA SessionPointersStep == IInv /\ [Next]_vars => SessionPointers'
<1> SUFFICES ASSUME IInv, [Next]_vars PROVE SessionPointers'
  OBVIOUS
<1> USE SocketsAssumption DEF IInv, TypeOK, ThreadsInv, SessionsInv,
      SessionPointers, PointersInv, Alive, vars, socketVars, listVars,
      sessionVars, peerVars
<1>1. CASE \E s \in Sockets : Accept(s)
  BY <1>1 DEF Accept
<1>2. CASE AddSocket
  BY <1>2 DEF AddSocket
<1>3. CASE OpenFails
  BY <1>3 DEF OpenFails
<1>4. CASE RegisterHandler
  BY <1>4 DEF RegisterHandler
<1>5. CASE Opened
  BY <1>5 DEF Opened, Idle
<1>6. CASE Close
  BY <1>6 DEF Close, Idle, CloseSocket
<1>7. CASE \E s \in Sockets : PeerCloses(s)
  BY <1>7 DEF PeerCloses
<1>8. CASE \E s \in Sockets : HandleInput(s)
  BY <1>8 DEF HandleInput, Upcall, NetIdle
<1>9. CASE \E s \in Sockets : InputFails(s)
  BY <1>9 DEF InputFails, Upcall, NetIdle
<1>10. CASE \E s \in Sockets : OutputFails(s)
  BY <1>10 DEF OutputFails, Upcall, NetIdle
<1>11. CASE \E s \in Sockets : OutputDone(s)
  BY <1>11 DEF OutputDone
<1>12. CASE \E s \in Sockets : HandleError(s)
  BY <1>12 DEF HandleError, NetIdle
<1>13. CASE \E s \in Sockets : UpdateSocket(s)
  BY <1>13 DEF UpdateSocket
<1>14. CASE \E s \in Sockets : UpdateFails(s)
  BY <1>14 DEF UpdateFails, NetIdle
<1>15. CASE AddNewSockets
  BY <1>15 DEF AddNewSockets
<1>16. CASE NextPacket
  BY <1>16 DEF NextPacket
<1>17. CASE PacketDone
  BY <1>17 DEF PacketDone
<1>18. CASE PacketFails
  BY <1>18 DEF PacketFails
<1>19. CASE UseSession
  BY <1>19 DEF UseSession
<1>20. CASE AuthTwice
  BY <1>20 DEF AuthTwice
<1>21. CASE \E x \in Sessions : HandleAuthSession(x)
  BY <1>21 DEF HandleAuthSession
<1>22. CASE AddSession
  BY <1>22 DEF AddSession
<1>23. CASE AuthThrows
  BY <1>23 DEF AuthThrows
<1>24. CASE InputDone
  BY <1>24 DEF InputDone, NetIdle
<1>25. CASE InputDoneFails
  BY <1>25 DEF InputDoneFails
<1>26. CASE HandleClose
  BY <1>26 DEF HandleClose
<1>27. CASE HandleCloseForgets
  BY <1>27 DEF HandleCloseForgets, Forget
<1>28. CASE Unbind
  BY <1>28 DEF Unbind, NetIdle, Last
<1>29. CASE Drop
  BY <1>29 DEF Drop, CloseSocket
<1>30. CASE DropForgets
  BY <1>30 DEF DropForgets, Forget
<1>31. CASE Dropped
  BY <1>31 DEF Dropped, NetIdle
<1>32. CASE \E x \in Sessions : Admit(x)
  BY <1>32 DEF Admit
<1>33. CASE \E x \in Sessions : Refuse(x)
  BY <1>33 DEF Refuse
<1>34. CASE \E x, old \in Sessions : Replace(x, old)
  BY <1>34 DEF Replace
<1>35. CASE \E x \in Sessions : KickPlayer(x)
  BY <1>35 DEF KickPlayer
<1>36. CASE \E x \in Sessions : UpdateSession(x)
  BY <1>36 DEF UpdateSession, ReleaseSocket
<1>37. CASE WorldCloses
  BY <1>37 DEF WorldCloses, CloseSocket, Kicked, WorldIdle
<1>38. CASE WorldForgets
  BY <1>38 DEF WorldForgets, Forget, Kicked, WorldIdle
<1>39. CASE WorldReleases
  BY <1>39 DEF WorldReleases, ReleaseSocket
<1>40. CASE DeleteSession
  BY <1>40 DEF DeleteSession, WorldIdle
<1>41. CASE UNCHANGED vars
  BY <1>41
<1> QED
  BY <1>1, <1>2, <1>3, <1>4, <1>5, <1>6, <1>7, <1>8, <1>9, <1>10, <1>11,
    <1>12, <1>13, <1>14, <1>15, <1>16, <1>17, <1>18, <1>19, <1>20, <1>21,
    <1>22, <1>23, <1>24, <1>25, <1>26, <1>27, <1>28, <1>29, <1>30, <1>31,
    <1>32, <1>33, <1>34, <1>35, <1>36, <1>37, <1>38, <1>39, <1>40, <1>41
    DEF Next, Acceptor, Packet, Network, World

\* The invariant holds from the start.
LEMMA InitInv == Init => IInv
<1> SUFFICES ASSUME Init PROVE IInv
  OBVIOUS
<1> USE SocketsAssumption DEF Init, Idle, NetIdle, WorldIdle
<1>1. TypeOK
  BY DEF TypeOK, Masks
<1>2. ThreadsInv /\ SessionsInv /\ PointersInv /\ SessionPointers
  BY DEF ThreadsInv, SessionsInv, PointersInv, SessionPointers, Alive
<1>3. RefsHeld
  <2> SUFFICES ASSUME NEW s \in Sockets
               PROVE  refs[s] = Holders(s) /\ (life[s] = "live" <=> Holders(s) > 0)
    BY DEF RefsHeld
  <2>1. {x \in Sessions : sock[x] = s} = {}
    OBVIOUS
  <2>2. Cardinality({x \in Sessions : sock[x] = s}) = 0
    BY <2>1, FS_EmptySet
  <2>3. Holders(s) = 0
    BY <2>2 DEF Holders, One, Opening, InUpcall
  <2> QED
    BY <2>3
<1> QED
  BY <1>1, <1>2, <1>3 DEF IInv

\* The inductive invariant holds in every state.
THEOREM Invariant == Spec => []IInv
<1>1. IInv /\ [Next]_vars => IInv'
  BY TypeStep, ThreadsStep, SessionsStep, RefsStep, PointersStep,
     SessionPointersStep DEF IInv
<1> QED
  BY <1>1, InitInv, PTL DEF Spec

\* Type correctness of sockets, sessions and threads (WorldSocket.cpp,
\* WorldSocketMgr.cpp).
THEOREM TypeCorrect == Spec => []TypeOK
  BY Invariant, PTL DEF IInv

\* A socket's reference count is the number of its holders, and it lives as long as
\* there is one (WorldSocket::AddReference and RemoveReference and their callers).
THEOREM ReferencesCounted == Spec => []RefsHeld
  BY Invariant, PTL DEF IInv

\* A packet in hand finds no deleted session behind m_Session, the session that
\* is made is the one the world gets, and a session with an open socket gets that
\* socket's packets (WorldSocket::ProcessIncoming, HandleAuthSession, CloseSocket).
THEOREM PointersCorrect == Spec => []SessionPointers
  BY Invariant, PTL DEF IInv
=============================================================================
