# A verification project for diamondcore

TLA+ models of the diamondcore game server (a MaNGOS-family emulator, C++), the
TLC runs that check them on small instances, and theorems that TLAPS proves for
every instance.  `PROJECT.json` lists the components, the runs, a mutant for every
property, the source lines behind every definition, the findings, the hazards
and the theorems.

    tlc -workers 2 -config MCSqlDelay_char.cfg MCSqlDelay
    tlapm SqlDelay_proofs.tla
    tlapm WorldSessions_proofs.tla
    tlapm SocketOutput_proofs.tla
    tlapm WorldSocket_proofs.tla
    tlapm Trade_proofs.tla
    tlapm Auction_proofs.tla

## 1. The system

Two programs.  The *logon server* (`src/src/logonserver`) authenticates accounts
and stores a session key in the login database.  The *world server*
(`src/src/worldserver`, `src/src/game`, `src/src/shared`) runs the game:

| thread | code | what it does |
| --- | --- | --- |
| main | `Master.cpp` | starts the others, waits for the world thread, halts the databases |
| world | `WorldRunnable.cpp`, `World::Update` | everything in the game, one tick after the other |
| network (several) | `WorldSocketMgr.cpp`, `WorldSocket.cpp` | sockets; authenticates a client and makes its session |
| delay (one per database) | `SqlDelayThread.cpp` | executes queued statements, transactions and queries |
| CLI, RA, SOAP | `CliRunnable.cpp`, `RASocket.cpp` | queue commands for the world thread |

Nearly all game state belongs to the world thread, so that most subsystems are
sequential programs whose difficulty lies in long sequences of calls.  The
exceptions, where order and interleaving matter, are these:

* **Databases.**  Writes are handed to a delay thread.  Reads are either direct or
  handed over as well, with a callback that the world thread runs some ticks later.
* **Sessions.**  A session is made by a network thread, queued, added, updated and
  deleted by the world thread, and refers to a socket that may close at any time.
* **Sockets.**  The network thread and the world thread share `WorldSocket::m_Session`,
  the output buffer and the reference count.
* **The stop.**  Signals, commands and a countdown end the world loop; what is left
  must be saved before the process ends.

### Components

State, operations, interactions, what is hard, and what makes each correct.

| component | state | operations | interacts with | hard to get right | correct when |
| --- | --- | --- | --- | --- | --- |
| Asynchronous database (`shared/Database`) | queue, open transaction of each thread, the connection, result queue | `Execute`, `BeginTransaction`, `CommitTransaction`, `RollbackTransaction`, `AsyncQuery`, `DelayQueryHolder`, `DirectExecute`, `HaltDelayThread` | every subsystem that saves | failing statements, a shared connection, a shared `tranThread`, the halt | operations are whole and ordered, queries see the earlier ones, nothing is left at the halt |
| Sessions (`World`, `WorldSession`, `CharacterHandler`) | `m_sessions`, `m_QueuedPlayer`, `addSessQueue`, player limit, flags of each session | `AddSession_`, `UpdateSessions`, `RemoveQueuedPlayer`, `LogoutPlayer`, login and its callback, `KickAll` | sockets, the character database, commands | reconnection at any moment, late callbacks, limits that change | one session and one character per account, limit and order of the queue, saved at the stop |
| World sockets (`WorldSocket*`) | `closing_`, `m_Session`, buffers, references | `open`, `handle_input`, `HandleAuthSession`, `CloseSocket`, `SendPacket` | sessions | two threads and two locks | no use after deletion, no session lost |
| Shutdown (`World`, `Master`, `CliRunnable`) | `m_ShutdownTimer`, mask, `m_stopEvent` | `ShutdownServ`, `ShutdownCancel`, `_UpdateGameTime` | sessions, signals | idle mode, restart and cancel at zero | stops exactly if asked and not cancelled |
| Trade (`TradeHandler.cpp`) | two `TradeData` | set item, set gold, accept, unaccept, cancel | inventories, database transaction | a change between the two accepts | nothing is duplicated or lost; both agreed to what happens |
| Auctions and mail | auctions, bids, mails with items and money | bid, buyout, cancel, expire, return | database transactions | owner or bidder offline, expiry | money and items are conserved |
| Groups and loot rolls | members, leader, votes | invite, leave, vote, count | loot, players leaving | votes of players who left | each item goes to one voter |
| Guild bank | tabs, remaining withdrawals, money | deposit, withdraw, swap | database transactions | limits per rank and day | conserved, within limits |
| Battleground queue | groups, invitations, events | join, invite, accept, expire | event processor, battlegrounds | an expiry after an answer | places in use equal players invited or inside |
| Instance saves | saves, binds, reset schedule | bind, unbind, reset, unload | maps, groups | resets of maps with players | no bind to a deleted save |
| Grids | state of each cell's grid, locks | load, activate, idle, remove | maps | timers and unload locks | no unload with players |
| Motion | stack of generators | push, expire, clear | units, AI | changes from inside an update | the bottom generator stays |
| Threat | threat list, hostile references | add, remove, offline | units | both ends are deleted independently | the two lists mirror each other |
| Logon | state of a socket, session key | challenge, proof, reconnect | login database, world server | key stored after the answer | no proof without challenge |
| Spells, combat, quests, AI, scripts | per-unit data | thousands | game data | breadth | data driven |

The last group, terrain and path finding, logging, cryptography, the vendored code
and the offline tools are not modelled: they hold no protocol, are data driven or
are geometry.  `PROJECT.json` lists them with reasons.

## 2. The modules

| module | what it is |
| --- | --- |
| `SqlStore` | abstract specification: what the asynchronous database promises |
| `SqlDelay` | the engine in detail: client threads, delay thread, connection, result queue |
| `SqlDelay_proofs` | theorems about `SqlDelay`, among them that it implements `SqlStore` |
| `WorldSessions` | sessions, wait queue, login, logout, stop; its database is the queue of `SqlStore` |
| `WorldSessions_proofs` | theorems about `WorldSessions`: the list and the wait queue, then its characters |
| `ByteChannel` | abstract specification: what the output of a socket promises its peer |
| `SocketOutput` | the output of an open `WorldSocket`: buffer, queue, network thread, reactor |
| `SocketOutput_proofs` | theorems about `SocketOutput`, and when it implements `ByteChannel` |
| `WorldSocket` | the life of sockets and of the sessions behind them: acceptor, network thread, world thread |
| `WorldSocket_proofs` | theorems about `WorldSocket` |
| `Trade` | a trade between two players, from its beginning to the exchange |
| `Trade_proofs` | theorems about `Trade` |
| `Auction` | the auction house and the mail: items and money on their way between players |
| `Auction_proofs` | theorems about `Auction`: types and items, then money |
| `BgQueue` | the queues for battlegrounds, the answers to invitations, the places of a battleground |
| `BgQueueLists_proofs` | lemmas about its queues: leaving, inviting, a whole update |
| `BgQueue_proofs` | theorems about `BgQueue` |
| `MCSqlDelay`, `MCWorldSessions`, `MCSocketOutput`, `MCWorldSocket`, `MCTrade`, `MCAuction`, `MCBgQueue` | instances for TLC |

Each module has its mutants next to the definitions they change: an operator that
differs as a plausible bug would.  Substituting it makes the property that
`PROJECT.json` names fail.

### SqlDelay

A client call has two steps, because the code stores the calling thread in the
member `tranThread` and then looks the transaction up with that member, without a
lock.  The delay thread has one step per queue access and per statement sent to
MySQL: `dpc` is its program counter (`sleep`, `drain`, `exec`, `tran`, `rollback`,
`test`, `done`).  `Send` is `mysql_query` on the shared connection: a statement
joins the open transaction or takes effect at once.  Any statement may be refused;
START TRANSACTION, COMMIT and ROLLBACK are not (the code ignores their results).
SQL text is abstracted to a number, the issuer and the issuer's transaction.

Histories (`handed`, `delivered`, `refused`, `ownTran`) record what the properties
compare; no guard but the pairing of Begin and Commit reads them.

| property | what it says |
| --- | --- |
| `StatementInOwnTransaction` | a statement is executed in the transaction its thread had open |
| `FlushedAtHalt` | the delay thread leaves nothing in its queue |
| `EveryOperationServed`, `EveryAnswerDelivered`, `HaltReturns` | liveness |
| `StoreSpec` | the engine implements `SqlStore`: an operation's statements take effect together or not at all, in the order of hand-over; an answer shows everything handed over before its question; callbacks run in the order of the questions, once |

The refinement maps `pending` to the operation in execution followed by the queue,
`store` to itself and `answers` to the callbacks delivered followed by those queued.
A transaction's statements stay on the connection until COMMIT, so the abstract step
is the COMMIT; a query that the delay thread has read is the abstract `Answer` when
its callback is queued.

Runs: `sql_char` (`CharacterDatabase`: the world thread issues, executes directly over the
same connection, and after it the main thread issues, as in `Master::Run`) checks the
types, order and atomicity, the refinement and liveness; two runs show disagreements,
`sql_login` and `sql_flush` (section 4).  `SqlStore` lets direct statements take effect
at any time, also between the statements of an operation (they then share its fate,
as they do on the connection), and lets a later read of a query see more of them than
an earlier one.  Bounds: `MaxOps = 4`
operations, `HolderSize = 2` queries in a holder.  Four suffice for a transaction of
two statements with an operation before or after it, or for two questions around a
write; the third statement of a transaction behaves as the second.

Fairness: the delay thread and a thread inside a call keep running (the operating
system schedules them), and the world thread calls `UpdateResultQueue` in every
tick.  No fairness on issuing or on ending.  `EveryOperationServed` excuses
operations once the engine is being halted; that exception is `sql_flush`.

### WorldSessions

A session and its socket share a name.  `phase` follows the world thread: new
sessions are added (`AddSession_`), every session is updated (packets, then
the end of `WorldSession::Update`), maps, callbacks, commands.  Network threads
interleave `HandleAuthSession` and `CloseSocket` everywhere.  The database is a queue
of whole operations that the delay thread executes one by one (what
`ImplementsStore` justifies); a row has only what the properties need: whether it
exists, the last state saved, the online flag.

| property | what it says |
| --- | --- |
| `NoDeletedSession` | list, wait queue and `addSessQueue` hold no deleted session, and none twice |
| `WaitsIffQueued` | `m_inQueue` is set exactly for sessions in the wait queue |
| `AdmittedWithinLimit` | a plain account is let in only within the limit as it is then |
| `NoPlaceLeftEmpty` | who leaves a place makes room for the first who waits |
| `QueueKeepsOrder` | first come, first served |
| `OneCharacterOnline` | one character per account in the world |
| `LoadSeesLastSave` | a character enters the world as it was left |
| `AllSavedAtStop` | after the stop everybody is saved and offline |
| `ClosedSessionRemoved`, `LoadingEnds` | liveness |

Runs: `sessions_queue` (three accounts, of which one reconnects and one is a game
master, four sessions, no characters; the limit is 1 and changes to none, to 2 and to
a security level in any order) checks the properties of list, wait queue and flags;
`sessions_login` (one account, two connections, two characters, two loads, one change
of state per character) those of characters and saves; and `sessions_stale` (three
connections) shows a disagreement.  The bounds give each hazard its actors: two plain
accounts of which one reconnects while it plays or waits, and somebody whom no limit
holds; a second connection at every moment of the first one's load, play and logout;
two characters, so that the late answer is for another one.
`MaxLogins` and `MaxProgress` bound counters; two further bounds, marked in the
module, allow one deletion and one autosave in the queue at a time.

`CalmClients` is an assumption on the environment of `sessions_login`: no connection
is made while a load asked for over a closed connection is unanswered.  Without it
`OneCharacterOnline` fails (`sessions_stale`); with it the run shows that this is the
only way.

Fairness: the world thread and the delay thread keep running.  `CHECK_DEADLOCK
FALSE`, because the server stops.  The properties that leave a session unremoved at
the stop reflect `World::~World` ("TODO free addSessQueue").

### SocketOutput

Any thread may call `SendPacket`; one network thread writes.  A packet is some units,
numbered as `SendPacket` encrypts them, and goes to `m_OutBuffer` or, as a block, to
the message queue.  `npc` is the program counter of the network thread: `output`
before `handle_output` takes `m_OutBufferLock`, `queue` inside `handle_output_queue`
with the lock held, `schedule` and `cancel` between the assignment of `m_OutActive`
and the call to the reactor, which the code makes after it has released the lock, and
`fail` after a function returned -1.  The kernel takes any part of what it is offered.

| property | what it says |
| --- | --- |
| `InOrder` | the peer gets units in the order of encryption, none twice |
| `NoGap` | until the connection ends everything encrypted is sent or waits |
| `ChannelSpec` | the socket implements `ByteChannel` |
| `AllDelivered` | what is encrypted arrives or the socket closes: `m_OutActive` and the reactor never both leave data alone |

Runs: `socket_output` and, for the disagreement, `socket_gap`.  In `socket_output` all
packets have one size: then a block put back always finds room, because the queue
without it is below its mark.  With packets of several sizes it need not, which is
`socket_gap`; `InOrder` is proved for every size.  Bounds: `KernelSize = 2` makes both
the buffer (3 units, which the challenge and one packet fill) and a block of two be
sent whole, in part or not at all; `HighWater = 4` is two blocks; 15 units are the
challenge and seven packets, enough to fill buffer and queue and to refuse one twice.

Fairness: the network thread runs, a thread whose packet was refused goes on to close
the socket (`WorldSession::SendPacket`), and the peer reads.  A peer that never reads
would leave everything in the kernel.  `CHECK_DEADLOCK FALSE`: a closed socket stops.

### WorldSocket

A socket is destroyed when its reference count reaches zero, by whichever thread lets
go last.  The module follows three threads: the acceptor (`open`, `OnSocketOpen`, the
registration, `close` if any of it fails), one network thread (the reactor's upcalls,
the packets of `handle_input_missing_data`, `ProcessIncoming`, `HandleAuthSession`, the
loop of `ReactorRunnable::svc`) and the world thread (adding, refusing, replacing,
kicking and deleting sessions).  A step goes from one lock or unlocked access of shared
state to the next: so `CloseSocket` and `handle_close` take two, because they set
`closing_` under one lock and clear `m_Session` under another, and a packet is tested
for `closing_` in one step and used in a later one.  `acc`, `net` and `wrld` say where
each thread is; `life`, `refs`, `closing`, `session`, `mask` and `bound` are a socket
(`bound` and `mask` as the reactor sees it), `newSockets` and `sockets` the lists of the
network thread, `status` and `sock` a session.  The reactor is `ACE_Dev_Poll_Reactor`,
which `WorldSocketMgr.cpp` picks on Linux: it holds a reference for its repository and
one for each upcall.

| property | what it says |
| --- | --- |
| `RefsHeld` | the count is the number of holders, and the socket lives as long as there is one |
| `SessionPointers` | no packet finds a deleted session; the session made is the one handed over; an open socket gives its packets to its session |
| `EveryConnectionEnds` | the socket of a peer that has gone is destroyed |

Run: `sockets`, with one socket, two sessions and two packets.  The second packet meets
every moment of the first one's session, and may be a second authentication, which
after a kick makes a second session for the same socket.  Sockets share only the
threads and the sessions; the theorems cover any number of them.  The properties say
nothing of a peer that stays: a kicked client that keeps its connection open keeps its
socket in the reactor.  A session whose making throws after `m_Session` is set is given
to nobody (status `lost`) and keeps its reference; `EveryConnectionEnds` excepts it.

Fairness: the threads run (weak); strong fairness for what they visit among other work,
because an event stays ready until it is taken and the loops visit all sockets, all
queued and all listed sessions.  `CHECK_DEADLOCK FALSE`: all connections may have ended.

### Trade

Everything in a trade runs in the world thread, so an action is a handler of
`TradeHandler.cpp` with what it calls in `TradeData` and `Player`.  What is hard is that
an offer only *names* items and money.  While it stands, items and money change hands
by other means (`MoneyChanges`, `ItemMoves`: selling, mail, loot), an item can become bound and a player can leave the world.
`trader`, `offer` and `accepted` are the two `TradeData`; `agreed`, a history, keeps the
two offers as they were when each player accepted.

| property | what it says |
| --- | --- |
| `TradesPaired` | the two sides name each other and both are in the world |
| `AgreedByBoth` | what is exchanged is what both accepted |
| `ExchangeConserves` | an exchange moves items and money between the two only, and makes none |
| `ItemsHavePlaces` | nobody gets more items than he has places |

Run: `trade`, with three players (a third can begin a trade with either of the two), two
items, one slot that is traded and the one that is not, and one spell, which is cast on
the item shown there.  One place per player makes an exchange of items refused or
possible by what is given away in it; `MaxMoney = 1` lets a sum reach the limit.  At most
one item is bound and one player away at a time.

Left out: what refuses a trade for distance, life or faction may refuse it in any state;
of an inventory only its places are kept; stacks that merge; carry limits; the item a
spell is cast with is part of the spell.

### Auction

The actions are the handlers of `AuctionHouseHandler.cpp` and `Mail.cpp`, and what a tick
does to one auction (`AuctionHouseObject::Update`) or one mail (delivery, expiry).  `money`
and `bag` are what players carry, `auctions` and `mails` what is on its way; a mail is
`stored` in the table or `listed` with a player in the world.  The histories `sunk` and `gone` keep what
is spent on postage, deposits and cuts, and what is destroyed.

| property | what it says |
| --- | --- |
| `EachItemOnce` | every item is in one bag, one auction or one mail, or destroyed |
| `MoneyAccounted` | money in purses, bids, mails and what is spent stays the same sum |
| `NobodyElsePays` | a player becomes poorer only by his own acts, an auction he wins or a mail to him that expires |
| `SellersPaid` | nobody loses an item for less than he asked: price less cut, or COD |

Run: `auction`, with three players of two accounts (bids within an account are refused,
mails within one are delivered at once), one item, one auction and three mails.
Three players are an owner, a bidder and one who outbids; a purchase makes three mails,
to the winner, to the one outbid and to the owner.  `Total = 4` pays for a deposit, a bid
and one that is higher.  `FewMails` stops at states with more than two mails, and limits
the mails that players send themselves.  `CHECK_DEADLOCK FALSE`: with all mails in use
and nobody in the world nothing need happen.

Left out: how long auctions and mails last (they become due at any time); mails that
hold only text; room in bags and what may be sold, which may refuse a handler in any
state; stacks that merge.  The model takes it that a client names an item of the mail
it takes from, and amounts that fit 32 bits together with the postage.

### BgQueue

Everything runs in the world thread.  What is hard is that one count, the players invited
to a battleground (`m_InvitedAlliance`, `m_InvitedHorde`), is kept by three parts: the queue
adds to it when it invites (`UpdateScheduled`), it is given back by who declines
(`LeaveQueue`), is too late (`RemoveEventExecutes`) or logs out (`LogoutPlayer`), kept by who
enters (`Enter`), and given back by the battleground when somebody leaves it, perhaps
while offline (`RemovePlayerAtLeave`).  `slot` and `bgOf` are what a player knows of it,
`queue` the groups that wait, `members` and `offline` the battleground, and `events` the
timers, which nothing cancels: a timer finds out for itself whether the invitation it ends
is the one it was made for.

| property | what it says |
| --- | --- |
| `InvitedCounted` | the count of a team is the number of those invited, on the way, in it or offline |
| `NoTeamOverfull` | these are never more than fit |
| `SlotsMatchQueue` | slots, queues and battlegrounds agree on where a player is |
| `InvitationTimed` | who is invited has the timer of this invitation |
| `OnlyOwnTimerRemoves` | no other timer ends it |

Run: `bgqueue`, with four players, two of each team, four queues and two battlegrounds.
Every kind of case has a queue whose size is chosen for it, and `Entries` says which occur
at one time: `warsong` takes groups and premade groups, two against two; `arathi`, one
against one, is joined again while timers of earlier invitations are left (`MaxEvents`);
`eye` and `isle` are joined by one player at once, who then goes from one battleground to
the other.  The scenarios follow one another in a behaviour, each when nothing of the one
before is left.  `InstancesOf` gives a type the instances it can need, and `Leavers` lets
one player decline, log out and go elsewhere, at any moment; the others answer or are late.
Times are compared for equality only, so that an invitation takes a time no other one to
the same battleground has (`NewTime`).  Two invitations of one player to one battleground
in the same millisecond are left out.

`CalmTravel` is an assumption: no queue is updated while one who waits in it changes maps
(section 4 says what happens then).  No fairness and no liveness: that a battleground
which is over is deleted follows from its count becoming zero, and this rests on
`InvitedCounted` and on every invitation having a timer (`InvitationTimed`).
The run checks for deadlock: nobody waits on anybody, as a player can always go elsewhere.

Left out: arenas and their ratings; levels and deserters, which refuse in any state; the
option to balance the teams (`CONFIG_UINT32_BATTLEGROUND_INVITATION_TYPE`, off by default);
game masters who enter by command; what happens inside a battle.

## 3. What is proved

`SqlDelay_proofs`, for every set of threads, every holder size and any number of
operations:

* `TypeCorrect`: `Spec => []TypeOK`.  `TypeOK` alone is not inductive: a step reads
  `cur[1]`, `todo[1]` and `m_tranQueues[tranThread]`.  The inductive invariant
  `IInv` adds `Works` (the place of the delay thread determines what it works on; a
  queued statement is exactly one) and `Calls` (inside a call `tranThread` is a
  thread, though not necessarily the caller).
* `ImplementsStore`: `Spec => StoreSpec`, direct statements included.  On top of `IInv`
  it needs `Conn`: what a transaction has sent, among which direct statements may lie,
  and has yet to send make up the whole of it, in order; the connection is in a
  transaction exactly during one; and the reads of a query equal the store but for
  direct statements executed since.  With it each engine step is a hand-over, the effect or
  refusal of the oldest operation, an answer, or a stutter.

`WorldSessions_proofs`, for every set of accounts, sessions and characters, any
player limit that changes at any time, and clients that need not be calm:

* `TypeCorrect`: `Spec => []TypeOK`.
* `DeletedNeverUsed`: `Spec => []NoDeletedSession`.
* `FlagsTellQueue`: `Spec => []WaitsIffQueued`.

  All three follow from one inductive invariant.  To the three properties it adds
  `UpdatesListed` (the account whose session is in `Update`, and those `UpdateSessions`
  has not reached, have a session, and the first is not among the second: without it
  the removal of a closed session could be of none), `FlagsAdded` (a session that has
  not been added has no `m_inQueue`, so that adding it without queueing lets it in) and
  `PlayersInWorld` (a session with a player controls a `Player` object, which a logout
  saves).  The heart is `RemoveProperties`: `RemoveQueuedPlayer` takes out the session
  it is asked to and at most one more, and clears the flags of exactly those.
* `FirstComeFirstServed`: `Spec => QueueKeepsOrder`.  Every change of the queue is an append or
  the erasure of one position; `Erase` keeps the order of what is left, and the second
  session that `RemoveQueuedPlayer` takes out is the head of it.
* `LimitKept`: `Spec => AdmittedWithinLimit`, and `PlacesFilled`: `Spec => NoPlaceLeftEmpty`.  The
  code compares differences (`m_sessions.size() - m_QueuedSessions.size()`), the properties
  count the plain sessions that are not waiting.  That the two agree needs
  `WaitsIffQueued`, that nobody waits twice, and that the lists are finite
  (`FinitelyMany`, an invariant of its own, as nothing bounds the number of sessions).

In its second part, for any queue of the delay thread, under the assumption
`CalmClients` (section 2):

* `OneOnline`: `Spec => []OneCharacterOnline`.  The invariant `LoginInv` follows a load from the
  request through the queue of the delay thread to the callback: at most one is asked
  for per account (`LoadsOnce`), over a session that exists (`LoadHasSession`), and while it
  is unanswered no other connection of the account is about to be added, but after
  `KickAll` (`LoadOutlastsAdding`).  `CalmClients` enters there and only there.
* `LoadsLastSave`: `Spec => LoadSeesLastSave`.  `SavesInv` says that the store will be right:
  of a character outside the world, its row after the rest of the queue is its last
  state (`SavesReach`), and no load of the owner's stands before a save of it
  (`LoadsAfterSaves`).
* `StoppedSaved`: `Spec => []AllSavedAtStop`.  After `KickAll` every session with a player is
  marked for removal and in the list, so that the last `UpdateSessions` logs it out
  (`KickedPlayers`); the rest is `SavesReach`, with an empty queue.

`SocketOutput_proofs`, for every set of senders, all sizes of packets, buffer, kernel
and queue:

* `TypeCorrect`: `Spec => []TypeOK`.
* `DeliveredInOrder`: `Spec => []InOrder`.

  `InOrder` speaks of what has been sent only.  The invariant adds `SentOrder` (received,
  kernel and buffer follow one another), `QueueOrder` (every block is behind all of
  these and behind the blocks before it) and `QueueAlone` (the queue is written only
  when the buffer is empty).  `MoveOrder` is the step that all writes share: the front
  of one sequence moves to the end of the one before it.
* `ChannelWithoutLoss`: `Spec /\ [][~PutBackLost]_vars => ChannelSpec`.  The output is the byte
  channel `ByteChannel`, unless `handle_output_queue` finds the queue full when it puts a
  block back (`PutBackLost`, disagreement 4).  `Complete` says that every byte that has been
  accepted is in one of the four places until the socket is ending; with `InOrder` the
  peer's bytes are then a prefix of what was accepted, and each step of the output is
  one of the channel or a stutter.  So the one way to lose a byte is the one that
  `socket_gap` shows.
* `EvenPacketsAreAChannel`: `EvenSizes => (Spec => ChannelSpec)`.  With packets of one size a
  block that has been taken out always finds its place again: the queue is never more
  than one packet over its mark (`RoomForOne`).

`WorldSocket_proofs`, for any number of sockets, sessions and packets:

* `TypeCorrect`: `Spec => []TypeOK`.
* `ReferencesCounted`: `Spec => []RefsHeld`.
* `PointersCorrect`: `Spec => []SessionPointers`.

  One invariant carries all three.  `ThreadsInv` says what each thread's place implies of
  its socket (what it has acquired and not yet let go), `SessionsInv` ties the status of a
  session to the socket it holds.  The heart is `PointersInv`: while a packet is past the
  test of `closing_` and the socket is being closed, either `m_Session` is NULL already or
  the kick has not reached its second section, and the world thread, which is inside
  that kick, cannot have deleted the session.

`Trade_proofs`, for any number of players, items, spells, slots and places:

* `TypeCorrect`, `MutualTrades` (`TradesPaired`), `Consent` (`AgreedByBoth`), `Conservation`
  (`ExchangeConserves`) and `NoOverfullInventory` (`ItemsHavePlaces`).

  The invariant adds `AgreementKept` to `TypeOK` and `TradesPaired`: while a player's
  acceptance stands, the two offers are those he accepted.  It needs the pairing: a
  change of an offer takes back the other's acceptance only if the other's trade is the
  same one.

`Auction_proofs`, for any number of players, items, auctions, mails and any amounts:

* `TypeCorrect`: `Spec => []TypeOK`, for which a bid must be known not to pass the buyout
  (`BidsBelowBuyout`).
* `ItemsKept`: `Spec => []EachItemOnce`.

In its second part, for the same and any cut up to all of the bid:

* `MoneyKept`: `Spec => []MoneyAccounted`.
* `OthersPayNothing`: `Spec => NobodyElsePays`.
* `SellersGetTheirPrice`: `Spec => SellersPaid`.

  All three speak of sums over the purses, mails and auctions, and `SumFunction` is defined
  by recursion over finite sets.  The laws of sums the proofs need (any element first, the
  sum of two functions, one element changed) are proved from that definition: were one
  false, there would be a smallest set for which it is (`Smallest`, from the
  well-foundedness of strict inclusion on finite sets), which it is not.  This is where
  `AuctionAssumption` needs the sets of players, items, auctions and mails to be finite.
  Two sums then describe a step: `Grand`, all money with what is lost, and `Fortune(q)`, what
  one player has.  There is a lemma for each action that says that it keeps `Grand`, whose
  `Fortune` it may lessen, and what it adds to the seller's.  The strengthening `MoneyInv` has
  `FairHouse` (an auction without a bidder has no bid, one with a bidder is not its
  owner's and at or above the starting bid) and `FairBox` (nobody sends a mail to himself, and
  the auction house asks for no COD): an owner who bids, or a receiver who is the sender,
  would pay himself, and have nothing more for the item.  `SellersPaid` needs `EachItemOnce`
  besides: an item that comes into a bag was in the one mail that is paid for, and an
  item that is mailed at the end of an auction was in that auction.

`BgQueue_proofs`, for any number of players, types, battlegrounds and limits, under the
assumption `CalmTravel` (section 2):

* `TypeCorrect`: `Spec => []TypeOK`.
* `CountIsPlaces`: `Spec => []InvitedCounted`, and `TeamsFit`: `Spec => []NoTeamOverfull`.
* `SlotsMatch`: `Spec => []SlotsMatchQueue`.
* `InvitationsTimed`: `Spec => []InvitationTimed`.
* `OwnTimerOnly`: `Spec => OnlyOwnTimerRemoves`.

  Not even `TypeOK` stands alone: a count that is taken from stays a number only because it
  counts places.  One invariant, `IInv`, carries all of them (`Inductive`).  It speaks of the
  queues by the entries of players (`EntryIn`: to where one is invited, and when), which say
  all that the handlers ask, so that the order of groups matters only to the update.
  `QueueInv` says that a player is in one group at most, `EntryInv` what an entry implies
  (the slot, and the timer of the invitation), `SlotInv` and `BelongsInv` the converse: a
  slot without an entry is that of the battleground the player belongs to, and who belongs
  to one does not wait for another of its type, which is why the slot that
  `RemovePlayerAtLeave` clears is never that of another invitation.  `MembersInv` has nobody
  in two battlegrounds.  `FreeInv` says that the queues of free places name running
  battlegrounds, each once: were one named twice, an update would fill its places twice.
  `CountInv` is the count itself: it equals the number of `Holders`, and is within the limit.

  There is a lemma for each action.  Those by which places are lost share one fact: what
  is taken from a count are players that held a place and hold none afterwards
  (`LosesKeeps`).  The update adds places.  Its loops are recursive functions over lists of any
  length, and what they compute is shown in `BgQueueLists_proofs` without induction over data:
  a property that fails at some step of a loop fails at a first one (`Least`).  An update is a
  sequence of stages, one for each battleground with free places and one for each that is
  created (`Stage`): the groups invited at a stage were not invited before, so nobody is
  invited twice, and to each battleground go no more of a team than there is room (`Pool`).
  `CalmTravel` enters in one place: whoever is in an invited group is found by
  `InviteGroupToBG`, and gets a slot, a timer and a place.

Assumptions: `OutputAssumption`, `ThreadsAssumption`, `BoundsAssumption`, `SessionsAssumption`,
`CharsAssumption`, `LimitAssumption`, `SocketsAssumption`, `TradeAssumption`,
`AuctionAssumption`, `BgAssumption` (types of the constants, and finiteness in the last two), which
TLC evaluates on every run.

Every invariant and every action property of the runs is proved.  Only model-checked are:

* liveness, out of the prover's reach: `EveryOperationServed`, `EveryAnswerDelivered`, `HaltReturns`,
  `ClosedSessionRemoved`, `LoadingEnds`, `AllDelivered`, `EveryConnectionEnds`.

## 4. Disagreements between the code and its comments

1. `sql_login`: `tranThread` is shared (`DatabaseMysql.cpp:266`); a statement of a
   network thread can join the transaction of the world thread, or the reverse.
2. `sql_flush`: the delay thread tests `m_running` after it has found its queue empty,
   and what is handed over in between is lost (`SqlDelayThread.cpp:38`).
3. `sessions_stale`: the login callback finds the session by account, so that a late
   answer gives a later session a second character (`CharacterHandler.cpp:128`).
4. `socket_gap`: a block that cannot be put back in the queue is lost, and the socket
   stays open (`WorldSocket.cpp:400`).

Met while modelling, without a run:

* `CharacterHandler.cpp:749`: a character can be deleted while its load is on its way, and
  the load then brings it into the world.  `WorldSessions` allows it; `LoadSeesLastSave`
  speaks of characters that exist.
* `Level3.cpp:6212`: "kick all low security level players" kicks nobody: it is done only
  with a positive limit of players, and then the security limit is that of players.
* `Mail.h:64` says of a returned mail "No allow return mail"; `HandleMailReturnToSender` does
  not test for it (`Auction` models the code).
* `TradeHandler.cpp:270`: `m_accepted` is "set before checks for propertly undo at problems",
  but where an item can no longer be traded (290-310) nothing is undone: the client is told
  that the trade is cancelled, and the trade and the acceptance stand (`AcceptItemBound`).
* `WorldSocket.cpp:718-731`: the handler of exceptions reads `m_Session` without its lock,
  although the world thread clears it; and if reading the add-ons throws
  (`WorldSocket.cpp:950`) the session made is given to nobody.
* `Mail.cpp:1011` and `1015` begin a transaction inside a transaction, which drops what the
  first has collected (`DatabaseMysql.cpp:345`).
* `BattleGroundMgr.cpp:468`, "if offline, skip him, this should not happen": it happens to a
  player who changes maps.  His group is invited, he gets no slot, no timer and no place,
  but gives one back when he leaves; without `CalmTravel`, `InvitedCounted` fails.
* `BattleGroundMgr.cpp:747` says that the queue is updated whenever a player is removed from
  it; `LogoutPlayer` (`WorldSession.cpp:373`) frees a place and schedules no update.  A premade
  group that has waited too long is moved only when an update happens for another reason,
  and after the running battlegrounds have been filled.
* `BattleGround.cpp`, `EventPlayerLoggedOut`, makes a member of whoever logs out on the way to
  a battleground or was sent there by a command: `m_Players[guid]` inserts.  His time to be
  removed is then 0, so that he goes with the next update instead of after five minutes.

## 5. Plan

1. Done: `SqlStore`, `SqlDelay`, `WorldSessions`, `ByteChannel`, `SocketOutput`, `WorldSocket`,
   `Trade`, `Auction`, `BgQueue`, with their proofs.
2. `SocketInput`: packets cut out of chunks, as an implementation of a packet stream.
3. `ShutdownTimer`: countdown, cancel, restart, idle mode, exit code.
4. `LootRoll`, `GuildBank`, `InstanceSave`, `GridState`, `Threat`,
   `MotionMaster`, `Logon`, one at a time in this order.
5. `BgQueue`: arenas; the liveness of what ends (too costly on the present instance); a run
   without `CalmTravel`.

Not planned: data-driven subsystems (spells, quests, scripts, AI), geometry, the
PostgreSQL back end (the same structure as MySQL's), tools and vendored code.
