------------------------------ MODULE SqlDelay ------------------------------
(***************************************************************************)
(* The asynchronous database engine (src/shared/Database).  The client     *)
(* threads hand statements, transactions and queries to the queue of the   *)
(* delay thread, which executes them over the one connection it shares     *)
(* with the synchronous calls of the clients, and posts the answers of     *)
(* queries to the result queue of the world thread.                        *)
(*                                                                         *)
(* One instance of the module is one database: CharacterDatabase, whose    *)
(* only issuer is the world thread, or loginDatabase, to which the network *)
(* threads write too.  The SQL text is abstracted: a statement is its      *)
(* number, the thread that issued it and the transaction that thread had   *)
(* open.  The database may refuse any statement; it keeps START            *)
(* TRANSACTION, COMMIT and ROLLBACK.                                       *)
(***************************************************************************)
EXTENDS Naturals, Sequences, Functions

CONSTANTS
  Threads,        \* the threads that call into this database
  Main,           \* the main thread, which waits for the others and halts
  ResultThreads,  \* the threads that called SetResultQueue
  DirectThreads,  \* the threads that call DirectExecute
  MainWrites,     \* the main thread also writes before the others have ended
  NoThread,       \* tranThread = NULL
  HolderSize,     \* the number of queries of a query holder
  MaxOps          \* bound: statements, queries and transactions issued

ASSUME ThreadsAssumption ==
  /\ Main \in Threads
  /\ NoThread \notin Threads
  /\ ResultThreads \subseteq Threads
  /\ DirectThreads \subseteq Threads
  /\ MainWrites \in BOOLEAN
ASSUME BoundsAssumption == MaxOps \in Nat /\ HolderSize \in Nat \ {0}

VARIABLES
  pc,            \* where each client thread is in a call
  issued,        \* statements, queries and transactions issued so far
  ownTran,       \* history: the transaction each thread believes it is in
  tranThread,    \* DatabaseMysql::tranThread, a member all threads write
  m_tranQueues,  \* the open SqlTransaction of each thread
  m_sqlQueue,    \* SqlDelayThread::m_sqlQueue
  m_running,     \* SqlDelayThread::m_running
  dpc,           \* where the delay thread is
  cur,           \* the operation the delay thread executes, if any
  todo,          \* statements of cur not yet sent
  seen,          \* results of the queries of cur so far
  connOpen,      \* the connection is inside START TRANSACTION
  connBuf,       \* statements of the transaction open on the connection
  store,         \* the statements that took effect, in order
  resultQueue,   \* SqlResultQueue: callbacks with their results
  delivered,     \* history: the callbacks executed
  handed,        \* history: the operations handed over, in order
  refused        \* history: numbers of the operations the database refused

clientVars == <<pc, issued, ownTran, tranThread, m_tranQueues>>
delayVars == <<dpc, cur, todo, seen, refused>>
connVars == <<connOpen, connBuf, store>>
vars == <<pc, issued, ownTran, tranThread, m_tranQueues, m_sqlQueue, m_running,
          dpc, cur, todo, seen, connOpen, connBuf, store, resultQueue,
          delivered, handed, refused>>

Statement == [id : Nat, by : Threads, tran : Nat, direct : {FALSE}]
DirectStatement == [id : Nat, by : Threads, tran : Nat, direct : {TRUE}]
Sent == Statement \cup DirectStatement
\* Operations are numbered in the order of hand-over.
Operation ==
  [kind : {"statement", "transaction", "query"}, no : Nat,
   sql : Seq(Statement), reads : Nat]
Result == [no : Nat, seen : Seq(Seq(Sent))]
Transaction == [live : BOOLEAN, sql : Seq(Statement)]
NoTransaction == [live |-> FALSE, sql |-> <<>>]

TypeOK ==
  /\ pc \in [Threads -> {"idle", "execute", "begin", "commit", "rollback",
                         "halting", "retired"}]
  /\ issued \in Nat
  /\ ownTran \in [Threads -> Nat]
  /\ tranThread \in Threads \cup {NoThread}
  /\ m_tranQueues \in [Threads -> Transaction]
  /\ m_sqlQueue \in Seq(Operation)
  /\ m_running \in BOOLEAN
  /\ dpc \in {"sleep", "drain", "exec", "tran", "rollback", "test",
              "done"}
  /\ cur \in Seq(Operation)
  /\ cur # <<>> <=> dpc \in {"exec", "tran", "rollback"}
  /\ todo \in Seq(Statement)
  /\ seen \in Seq(Seq(Sent))
  /\ connOpen \in BOOLEAN
  /\ connBuf \in Seq(Sent)
  /\ store \in Seq(Sent)
  /\ resultQueue \in Seq(Result)
  /\ delivered \in Seq(Result)
  /\ handed \in Seq(Operation)
  /\ refused \subseteq Nat

Init ==
  /\ pc = [t \in Threads |-> "idle"]
  /\ issued = 0
  /\ ownTran = [t \in Threads |-> 0]
  /\ tranThread = NoThread
  /\ m_tranQueues = [t \in Threads |-> NoTransaction]
  /\ m_sqlQueue = <<>>
  /\ m_running = TRUE
  /\ dpc = "sleep"
  /\ cur = <<>>
  /\ todo = <<>>
  /\ seen = <<>>
  /\ connOpen = FALSE
  /\ connBuf = <<>>
  /\ store = <<>>
  /\ resultQueue = <<>>
  /\ delivered = <<>>
  /\ handed = <<>>
  /\ refused = {}

-----------------------------------------------------------------------------
\* mysql_query under mMutex: the statement joins the transaction that is
\* open on the connection, or takes effect at once (autocommit).
Send(s) ==
  /\ IF connOpen
       THEN connBuf' = Append(connBuf, s) /\ UNCHANGED store
       ELSE store' = Append(store, s) /\ UNCHANGED connBuf
  /\ UNCHANGED connOpen

(* The client threads.  Execute, BeginTransaction, CommitTransaction and   *)
(* RollbackTransaction first store the calling thread in the member        *)
(* tranThread and then look the transaction up with it: two steps, since   *)
(* no lock is held and another thread may store its own in between.        *)

\* The main thread waits for the others; to loginDatabase it writes once before.
OthersEnded == \A u \in Threads \ {Main} : pc[u] = "retired"
MayIssue(t) ==
  /\ pc[t] = "idle"
  /\ t = Main => MainWrites \/ OthersEnded

Number == issued + 1
NewStatement(t) == [id |-> Number, by |-> t, tran |-> ownTran[t], direct |-> FALSE]

\* SqlDelayThread::Delay
Delay(kind, sql, reads) ==
  LET op == [kind |-> kind, no |-> Len(handed) + 1, sql |-> sql, reads |-> reads]
  IN /\ m_sqlQueue' = Append(m_sqlQueue, op)
     /\ handed' = Append(handed, op)

\* The first step of the four calls.
Call(t, name) ==
  /\ MayIssue(t)
  /\ issued < MaxOps
  /\ tranThread' = t
  /\ pc' = [pc EXCEPT ![t] = name]
  /\ UNCHANGED <<issued, ownTran, m_tranQueues, m_sqlQueue, m_running, delayVars,
                 connVars, resultQueue, delivered, handed>>

Execute(t) == Call(t, "execute")
BeginTransaction(t) == Call(t, "begin")
\* The code pairs every CommitTransaction and RollbackTransaction with a
\* BeginTransaction of the same function.
CommitTransaction(t) == ownTran[t] # 0 /\ Call(t, "commit")
RollbackTransaction(t) == ownTran[t] # 0 /\ Call(t, "rollback")

\* Execute: to the transaction found, or to the queue.
ExecuteFound(t) ==
  /\ pc[t] = "execute"
  /\ IF m_tranQueues[tranThread].live
       THEN /\ m_tranQueues' = [m_tranQueues EXCEPT ![tranThread].sql =
                                  Append(@, NewStatement(t))]
            /\ UNCHANGED <<m_sqlQueue, handed>>
       ELSE /\ Delay("statement", <<NewStatement(t)>>, 0)
            /\ UNCHANGED m_tranQueues
  /\ issued' = Number
  /\ pc' = [pc EXCEPT ![t] = "idle"]
  /\ UNCHANGED <<ownTran, tranThread, m_running, delayVars, connVars,
                 resultQueue, delivered>>

\* BeginTransaction: a transaction already open is deleted, a new one opened.
BeginFound(t) ==
  /\ pc[t] = "begin"
  /\ m_tranQueues' = [m_tranQueues EXCEPT ![tranThread] =
                        [live |-> TRUE, sql |-> <<>>]]
  /\ ownTran' = [ownTran EXCEPT ![t] = Number]
  /\ issued' = Number
  /\ pc' = [pc EXCEPT ![t] = "idle"]
  /\ UNCHANGED <<tranThread, m_sqlQueue, m_running, delayVars, connVars,
                 resultQueue, delivered, handed>>

\* CommitTransaction: the transaction found is handed over whole.
CommitFound(t) ==
  /\ pc[t] = "commit"
  /\ IF m_tranQueues[tranThread].live
       THEN Delay("transaction", m_tranQueues[tranThread].sql, 0)
       ELSE UNCHANGED <<m_sqlQueue, handed>>
  /\ m_tranQueues' = [m_tranQueues EXCEPT ![tranThread] = NoTransaction]
  /\ ownTran' = [ownTran EXCEPT ![t] = 0]
  /\ pc' = [pc EXCEPT ![t] = "idle"]
  /\ UNCHANGED <<issued, tranThread, m_running, delayVars, connVars,
                 resultQueue, delivered>>

\* RollbackTransaction: the transaction found is deleted, nothing is sent.
RollbackFound(t) ==
  /\ pc[t] = "rollback"
  /\ m_tranQueues' = [m_tranQueues EXCEPT ![tranThread] = NoTransaction]
  /\ ownTran' = [ownTran EXCEPT ![t] = 0]
  /\ pc' = [pc EXCEPT ![t] = "idle"]
  /\ UNCHANGED <<issued, tranThread, m_sqlQueue, m_running, delayVars, connVars,
                 resultQueue, delivered, handed>>

\* AsyncQuery and DelayQueryHolder: only a thread with a result queue may
\* ask.  A query goes straight to the queue, also inside a transaction.
AsyncQuery(t) ==
  /\ MayIssue(t)
  /\ t \in ResultThreads
  /\ issued < MaxOps
  /\ issued' = Number
  /\ \E n \in {1, HolderSize} : Delay("query", <<>>, n)
  /\ UNCHANGED <<pc, ownTran, tranThread, m_tranQueues, m_running, delayVars,
                 connVars, resultQueue, delivered>>

\* DirectExecute from a client: sent at once over the shared connection, so
\* it joins the transaction that the delay thread may have open on it.
DirectExecute(t) ==
  /\ MayIssue(t)
  /\ t \in DirectThreads
  /\ issued < MaxOps
  /\ issued' = Number
  /\ \/ Send([id |-> Number, by |-> t, tran |-> 0, direct |-> TRUE])
     \/ UNCHANGED connVars
  /\ UNCHANGED <<pc, ownTran, tranThread, m_tranQueues, m_sqlQueue, m_running,
                 delayVars, resultQueue, delivered, handed>>

\* Mutant: the last callback waits for another.
UpdateResultQueueButLast(t) ==
  /\ pc[t] = "idle"
  /\ t \in ResultThreads
  /\ Len(resultQueue) > 1
  /\ delivered' = Append(delivered, Head(resultQueue))
  /\ resultQueue' = Tail(resultQueue)
  /\ UNCHANGED <<clientVars, m_sqlQueue, m_running, delayVars, connVars, handed>>

\* SqlResultQueue::Update, one callback at a time.
UpdateResultQueue(t) ==
  /\ pc[t] = "idle"
  /\ t \in ResultThreads
  /\ resultQueue # <<>>
  /\ delivered' = Append(delivered, Head(resultQueue))
  /\ resultQueue' = Tail(resultQueue)
  /\ UNCHANGED <<clientVars, m_sqlQueue, m_running, delayVars, connVars, handed>>

\* A thread ends; it leaves no transaction open.
Retire(t) ==
  /\ t # Main
  /\ pc[t] = "idle"
  /\ ownTran[t] = 0
  /\ pc' = [pc EXCEPT ![t] = "retired"]
  /\ UNCHANGED <<issued, ownTran, tranThread, m_tranQueues, m_sqlQueue, m_running,
                 delayVars, connVars, resultQueue, delivered, handed>>

\* HaltDelayThread: Stop ...
Halt(t) ==
  /\ t = Main
  /\ pc[t] = "idle"
  /\ OthersEnded
  /\ ownTran[t] = 0
  /\ m_running' = FALSE
  /\ pc' = [pc EXCEPT ![t] = "halting"]
  /\ UNCHANGED <<issued, ownTran, tranThread, m_tranQueues, m_sqlQueue, delayVars,
                 connVars, resultQueue, delivered, handed>>

\* ... and wait for the delay thread to end.
Halted(t) ==
  /\ pc[t] = "halting"
  /\ dpc = "done"
  /\ pc' = [pc EXCEPT ![t] = "retired"]
  /\ UNCHANGED <<issued, ownTran, tranThread, m_tranQueues, m_sqlQueue, m_running,
                 delayVars, connVars, resultQueue, delivered, handed>>

-----------------------------------------------------------------------------
(* The delay thread.                                                       *)

delayOnly == <<clientVars, m_running, delivered, handed>>

\* Mutant: the operation stays with the delay thread.
FinishKeeps ==
  /\ dpc' = "drain"
  /\ todo' = <<>>
  /\ seen' = <<>>
  /\ UNCHANGED cur

\* The operation is finished: delete s.
Finish ==
  /\ dpc' = "drain"
  /\ cur' = <<>>
  /\ todo' = <<>>
  /\ seen' = <<>>

Wake ==
  /\ dpc = "sleep"
  /\ dpc' = "drain"
  /\ UNCHANGED <<delayOnly, m_sqlQueue, cur, todo, seen, refused, connVars,
                 resultQueue>>

NextOperation ==
  /\ dpc = "drain"
  /\ m_sqlQueue # <<>>
  /\ cur' = <<Head(m_sqlQueue)>>
  /\ todo' = Head(m_sqlQueue).sql
  /\ m_sqlQueue' = Tail(m_sqlQueue)
  /\ dpc' = "exec"
  /\ UNCHANGED <<delayOnly, seen, refused, connVars, resultQueue>>

\* Mutant: the thread ends when it finds the queue empty.
DrainedEnds ==
  /\ dpc = "drain"
  /\ m_sqlQueue = <<>>
  /\ dpc' = "done"
  /\ UNCHANGED <<delayOnly, m_sqlQueue, cur, todo, seen, refused, connVars,
                 resultQueue>>

\* next() found the queue empty; the ping changes nothing.
Drained ==
  /\ dpc = "drain"
  /\ m_sqlQueue = <<>>
  /\ dpc' = "test"
  /\ UNCHANGED <<delayOnly, m_sqlQueue, cur, todo, seen, refused, connVars,
                 resultQueue>>

\* Mutant: while (true)
TestNothing ==
  /\ dpc = "test"
  /\ dpc' = "sleep"
  /\ UNCHANGED <<delayOnly, m_sqlQueue, cur, todo, seen, refused, connVars,
                 resultQueue>>

\* while (m_running)
TestRunning ==
  /\ dpc = "test"
  /\ dpc' = IF m_running THEN "sleep" ELSE "done"
  /\ UNCHANGED <<delayOnly, m_sqlQueue, cur, todo, seen, refused, connVars,
                 resultQueue>>

Executing(kind) == dpc = "exec" /\ cur[1].kind = kind

\* SqlStatement::Execute: one autocommitted statement, or an error.
ExecStatement ==
  /\ Executing("statement")
  /\ \/ Send(todo[1]) /\ UNCHANGED refused
     \/ refused' = refused \cup {cur[1].no} /\ UNCHANGED connVars
  /\ Finish
  /\ UNCHANGED <<delayOnly, m_sqlQueue, resultQueue>>

\* SqlTransaction::Execute with nothing in it.
TranEmpty ==
  /\ Executing("transaction")
  /\ todo = <<>>
  /\ Finish
  /\ UNCHANGED <<delayOnly, m_sqlQueue, refused, connVars, resultQueue>>

TranStart ==
  /\ Executing("transaction")
  /\ todo # <<>>
  /\ connOpen' = TRUE
  /\ dpc' = "tran"
  /\ UNCHANGED <<delayOnly, m_sqlQueue, cur, todo, seen, refused, connBuf, store,
                 resultQueue>>

TranStatement ==
  /\ dpc = "tran"
  /\ todo # <<>>
  /\ Send(Head(todo))
  /\ todo' = Tail(todo)
  /\ UNCHANGED <<delayOnly, m_sqlQueue, dpc, cur, seen, refused, resultQueue>>

\* Mutant: a refused statement is skipped and the transaction goes on.
TranSkip ==
  /\ dpc = "tran"
  /\ todo # <<>>
  /\ refused' = refused \cup {cur[1].no}
  /\ todo' = Tail(todo)
  /\ UNCHANGED <<delayOnly, m_sqlQueue, dpc, cur, seen, connVars, resultQueue>>

\* A statement is refused: ROLLBACK follows, the rest is never sent.
TranFail ==
  /\ dpc = "tran"
  /\ todo # <<>>
  /\ refused' = refused \cup {cur[1].no}
  /\ dpc' = "rollback"
  /\ UNCHANGED <<delayOnly, m_sqlQueue, cur, todo, seen, connVars, resultQueue>>

TranRollback ==
  /\ dpc = "rollback"
  /\ connOpen' = FALSE
  /\ connBuf' = <<>>
  /\ Finish
  /\ UNCHANGED <<delayOnly, m_sqlQueue, refused, store, resultQueue>>

TranCommit ==
  /\ dpc = "tran"
  /\ todo = <<>>
  /\ store' = store \o connBuf
  /\ connOpen' = FALSE
  /\ connBuf' = <<>>
  /\ Finish
  /\ UNCHANGED <<delayOnly, m_sqlQueue, refused, resultQueue>>

\* SqlQuery::Execute and SqlQueryHolderEx::Execute: one query after the
\* other over the shared connection, ...
QueryRead ==
  /\ Executing("query")
  /\ Len(seen) < cur[1].reads
  /\ seen' = Append(seen, store \o connBuf)
  /\ UNCHANGED <<delayOnly, m_sqlQueue, dpc, cur, todo, refused, connVars,
                 resultQueue>>

\* ... then the callback goes to the result queue of the thread that asked.
QueryAnswer ==
  /\ Executing("query")
  /\ Len(seen) = cur[1].reads
  /\ resultQueue' = Append(resultQueue, [no |-> cur[1].no, seen |-> seen])
  /\ Finish
  /\ UNCHANGED <<delayOnly, m_sqlQueue, refused, connVars>>

DelayThread ==
  \/ Wake \/ NextOperation \/ Drained \/ TestRunning
  \/ ExecStatement
  \/ TranEmpty \/ TranStart \/ TranStatement \/ TranFail \/ TranRollback
  \/ TranCommit
  \/ QueryRead \/ QueryAnswer

\* The steps a thread takes once it is inside a call.
Inside(t) ==
  \/ ExecuteFound(t) \/ BeginFound(t) \/ CommitFound(t) \/ RollbackFound(t)
  \/ Halted(t)

Client(t) ==
  \/ Execute(t) \/ BeginTransaction(t) \/ CommitTransaction(t)
  \/ RollbackTransaction(t)
  \/ AsyncQuery(t) \/ DirectExecute(t) \/ UpdateResultQueue(t)
  \/ Retire(t) \/ Halt(t)
  \/ Inside(t)

\* Everything has ended.
Terminated ==
  /\ pc[Main] = "retired"
  /\ UNCHANGED vars

Next ==
  \/ \E t \in Threads : Client(t)
  \/ DelayThread
  \/ Terminated

\* The operating system runs the delay thread, and a thread inside a call.
\* The world thread calls UpdateResultQueue in every World::Update.
Fairness ==
  /\ WF_vars(DelayThread)
  /\ \A t \in Threads : WF_vars(Inside(t)) /\ WF_vars(UpdateResultQueue(t))

Spec == Init /\ [][Next]_vars /\ Fairness

-----------------------------------------------------------------------------
(* Properties.                                                             *)

\* "owner of this transaction" (DatabaseMysql.cpp): a statement reaches the
\* database in the transaction its thread had open, and outside of any if
\* it had none.
StatementInOwnTransaction ==
  \A i \in DOMAIN handed :
    \A s, u \in Range(handed[i].sql) :
      /\ s.by = u.by /\ s.tran = u.tran
      /\ (s.tran # 0) <=> (handed[i].kind = "transaction")

\* "empty the queue before exiting" (SqlDelayThread.cpp), "Wait for flush to
\* DB" (DatabaseMysql.cpp): the delay thread leaves nothing in its queue.
FlushedAtHalt == dpc = "done" => m_sqlQueue = <<>>

\* An operation handed over is finished, unless the engine is being halted.
Served == Len(handed) - Len(m_sqlQueue) - Len(cur)
EveryOperationServed ==
  \A i \in 1..MaxOps : (Len(handed) >= i) ~> (Served >= i \/ ~m_running)

\* Every answer is delivered to the thread that asked while it runs.
EveryAnswerDelivered ==
  (resultQueue # <<>>) ~>
    (resultQueue = <<>> \/ \A t \in ResultThreads : pc[t] = "retired")

\* HaltDelayThread returns.
HaltReturns == (pc[Main] = "halting") ~> (pc[Main] = "retired")

\* The engine implements SqlStore: whatever is refused and whatever else uses
\* the connection meanwhile, an operation takes effect whole or not at all, in
\* the order of hand-over (a later save never lies under an earlier one); a
\* query sees all the earlier ones and none later (a character is loaded after
\* its last save); callbacks run in the order of the questions, once each.
Store == INSTANCE SqlStore WITH
  pending <- cur \o m_sqlQueue,
  store   <- store,
  answers <- delivered \o resultQueue
StoreSpec == Store!Spec
=============================================================================
