--------------------------- MODULE SqlDelay_proofs ---------------------------
(***************************************************************************)
(* Proofs about SqlDelay for every set of threads and any number of        *)
(* operations.                                                             *)
(***************************************************************************)
EXTENDS SqlDelay, SequenceTheorems, TLAPS

\* What the delay thread may assume of the operations it is handed.
WellFormed(op) == op.kind = "statement" => Len(op.sql) = 1

\* Where the delay thread is determines what it works on.
Works ==
  /\ \A i \in DOMAIN m_sqlQueue : WellFormed(m_sqlQueue[i])
  /\ dpc \in {"exec", "tran", "rollback"} => Len(cur) = 1 /\ WellFormed(cur[1])
  /\ dpc \in {"sleep", "drain", "test", "done"} =>
       cur = <<>> /\ todo = <<>> /\ seen = <<>>
  /\ dpc = "exec" => todo = cur[1].sql
  /\ dpc = "exec" /\ cur[1].kind # "query" => seen = <<>>
  /\ dpc \in {"tran", "rollback"} => cur[1].kind = "transaction" /\ seen = <<>>

\* A thread inside a call has stored a thread, if not itself, in tranThread.
Calls ==
  \A t \in Threads :
    pc[t] \in {"execute", "begin", "commit", "rollback"} => tranThread \in Threads

IInv == TypeOK /\ Works /\ Calls

-----------------------------------------------------------------------------
\* The inductive invariant holds initially, ...
LEMMA InitIInv == Init => IInv
<1> SUFFICES ASSUME Init PROVE IInv
  OBVIOUS
<1> USE ThreadsAssumption
<1>1. TypeOK
  <2>1. NoTransaction \in Transaction
    BY EmptySeq DEF NoTransaction, Transaction
  <2>2. /\ pc \in [Threads -> {"idle", "execute", "begin", "commit", "rollback",
                             "halting", "retired"}]
        /\ ownTran \in [Threads -> Nat]
        /\ m_tranQueues \in [Threads -> Transaction]
    BY <2>1 DEF Init
  <2>3. /\ m_sqlQueue \in Seq(Operation) /\ cur \in Seq(Operation)
        /\ todo \in Seq(Statement) /\ seen \in Seq(Seq(Sent))
        /\ connBuf \in Seq(Sent) /\ store \in Seq(Sent)
        /\ resultQueue \in Seq(Result) /\ delivered \in Seq(Result)
        /\ handed \in Seq(Operation)
    BY EmptySeq DEF Init
  <2> QED BY <2>2, <2>3 DEF Init, TypeOK
<1>2. Works
  BY DEF Init, Works
<1>3. Calls
  BY DEF Init, Calls
<1> QED BY <1>1, <1>2, <1>3 DEF IInv

\* Handing an operation over keeps the types.
LEMMA DelayTypes ==
  ASSUME IInv,
         NEW kind \in {"statement", "transaction", "query"},
         NEW sql \in Seq(Statement), NEW reads \in Nat,
         kind = "statement" => Len(sql) = 1,
         Delay(kind, sql, reads)
  PROVE  /\ m_sqlQueue' \in Seq(Operation)
         /\ handed' \in Seq(Operation)
         /\ \A i \in DOMAIN m_sqlQueue' : WellFormed(m_sqlQueue'[i])
<1> DEFINE op == [kind |-> kind, no |-> Len(handed) + 1, sql |-> sql, reads |-> reads]
<1>1. m_sqlQueue \in Seq(Operation) /\ handed \in Seq(Operation)
  BY DEF IInv, TypeOK
<1>2. op \in Operation
  BY <1>1, LenProperties DEF Operation
<1>3. m_sqlQueue' = Append(m_sqlQueue, op) /\ handed' = Append(handed, op)
  BY DEF Delay
<1>4. m_sqlQueue' \in Seq(Operation) /\ handed' \in Seq(Operation)
  BY <1>1, <1>2, <1>3, AppendProperties
<1>5. WellFormed(op)
  BY DEF WellFormed
<1> HIDE DEF op
<1>6. \A i \in DOMAIN m_sqlQueue' : WellFormed(m_sqlQueue'[i])
  <2> SUFFICES ASSUME NEW i \in DOMAIN m_sqlQueue' PROVE WellFormed(m_sqlQueue'[i])
    OBVIOUS
  <2>1. i \in 1..(Len(m_sqlQueue) + 1)
    BY <1>1, <1>2, <1>3, AppendProperties, LenProperties
  <2>2. CASE i \in 1..Len(m_sqlQueue)
    <3>1. m_sqlQueue'[i] = m_sqlQueue[i] /\ i \in DOMAIN m_sqlQueue
      BY <1>1, <1>2, <1>3, <2>2, AppendProperties, LenProperties
    <3> QED BY <3>1 DEF IInv, Works
  <2>3. CASE i = Len(m_sqlQueue) + 1
    <3>1. m_sqlQueue'[i] = op
      BY <1>1, <1>2, <1>3, <2>3, AppendProperties
    <3> QED BY <3>1, <1>5
  <2>4. Len(m_sqlQueue) \in Nat
    BY <1>1, LenProperties
  <2> QED BY <2>1, <2>2, <2>3, <2>4
<1> QED BY <1>4, <1>6

\* A statement reaches the store or the open transaction.
LEMMA SendTypes ==
  ASSUME IInv, NEW s \in Sent, Send(s)
  PROVE  /\ connBuf' \in Seq(Sent)
         /\ store' \in Seq(Sent)
         /\ connOpen' \in BOOLEAN
<1>1. connBuf' \in Seq(Sent) /\ store' \in Seq(Sent)
  <2>1. connBuf \in Seq(Sent) /\ store \in Seq(Sent)
    BY DEF IInv, TypeOK
  <2>2. Append(connBuf, s) \in Seq(Sent) /\ Append(store, s) \in Seq(Sent)
    BY <2>1, AppendProperties
  <2>3. CASE connOpen
    BY <2>1, <2>2, <2>3 DEF Send
  <2>4. CASE ~connOpen
    BY <2>1, <2>2, <2>4 DEF Send
  <2> QED BY <2>3, <2>4
<1>2. connOpen' \in BOOLEAN
  BY Zenon DEF IInv, TypeOK, Send
<1> QED BY <1>1, <1>2

\* A new statement is a statement.
LEMMA NewStatementType ==
  ASSUME IInv, NEW t \in Threads
  PROVE  NewStatement(t) \in Statement /\ Number \in Nat
BY DEF IInv, TypeOK, NewStatement, Number, Statement

USE DEF clientVars, delayVars, connVars, delayOnly

\* The calls of the client threads.
LEMMA ClientIInv ==
  ASSUME IInv, NEW t \in Threads, Client(t)
  PROVE  IInv'
<1> USE ThreadsAssumption
<1>1. ASSUME NEW name \in {"execute", "begin", "commit", "rollback"}, Call(t, name)
      PROVE  IInv'
  <2>1. TypeOK'
    BY <1>1 DEF IInv, TypeOK, Call
  <2>2. Works'
    BY <1>1 DEF IInv, Works, Call
  <2>3. Calls'
    BY <1>1 DEF IInv, Calls, Call
  <2> QED BY <2>1, <2>2, <2>3 DEF IInv
<1>2. CASE Execute(t) \/ BeginTransaction(t) \/ CommitTransaction(t)
             \/ RollbackTransaction(t)
  BY <1>1, <1>2 DEF Execute, BeginTransaction, CommitTransaction, RollbackTransaction
<1>3. CASE ExecuteFound(t)
  <2> DEFINE s == NewStatement(t)
             q == m_tranQueues[tranThread]
  <2>1. s \in Statement /\ Number \in Nat
    BY NewStatementType
  <2>2. tranThread \in Threads /\ q \in Transaction
    BY <1>3 DEF IInv, TypeOK, Calls, ExecuteFound
  <2>3. <<s>> \in Seq(Statement) /\ Len(<<s>>) = 1
    BY <2>1
  <2>4. /\ m_sqlQueue' \in Seq(Operation) /\ handed' \in Seq(Operation)
        /\ \A i \in DOMAIN m_sqlQueue' : WellFormed(m_sqlQueue'[i])
    <3>1. CASE q.live
      BY <1>3, <3>1 DEF ExecuteFound, IInv, TypeOK, Works
    <3>2. CASE ~q.live
      BY <1>3, <2>3, <3>2, DelayTypes DEF ExecuteFound
    <3> QED BY <3>1, <3>2
  <2>5. m_tranQueues' \in [Threads -> Transaction]
    <3>1. CASE q.live
      <4>1. Append(q.sql, s) \in Seq(Statement)
        BY <2>1, <2>2, AppendProperties DEF Transaction
      <4>2. [q EXCEPT !.sql = Append(q.sql, s)] \in Transaction
        BY <2>2, <4>1 DEF Transaction
      <4>3. m_tranQueues' = [m_tranQueues EXCEPT ![tranThread] =
                               [q EXCEPT !.sql = Append(q.sql, s)]]
        BY <1>3, <3>1, <2>2 DEF ExecuteFound, IInv, TypeOK
      <4> QED BY <4>2, <4>3, <2>2 DEF IInv, TypeOK
    <3>2. CASE ~q.live
      BY <1>3, <3>2 DEF ExecuteFound, IInv, TypeOK
    <3> QED BY <3>1, <3>2
  <2>6. TypeOK'
    BY <1>3, <2>1, <2>4, <2>5 DEF IInv, TypeOK, ExecuteFound
  <2>7. Works'
    BY <1>3, <2>4 DEF IInv, Works, ExecuteFound
  <2>8. Calls'
    BY <1>3 DEF IInv, TypeOK, Calls, ExecuteFound
  <2> QED BY <2>6, <2>7, <2>8 DEF IInv
<1>4. CASE BeginFound(t)
  <2>1. [live |-> TRUE, sql |-> <<>>] \in Transaction
    BY EmptySeq DEF Transaction
  <2>2. Number \in Nat
    BY NewStatementType
  <2>3. TypeOK'
    BY <1>4, <2>1, <2>2 DEF IInv, TypeOK, BeginFound
  <2>4. Works'
    BY <1>4 DEF IInv, Works, BeginFound
  <2>5. Calls'
    BY <1>4 DEF IInv, TypeOK, Calls, BeginFound
  <2> QED BY <2>3, <2>4, <2>5 DEF IInv
<1>5. CASE CommitFound(t)
  <2> DEFINE q == m_tranQueues[tranThread]
  <2>1. NoTransaction \in Transaction
    BY EmptySeq DEF NoTransaction, Transaction
  <2>2. tranThread \in Threads /\ q \in Transaction /\ q.sql \in Seq(Statement)
    BY <1>5 DEF IInv, TypeOK, Calls, CommitFound, Transaction
  <2>3. /\ m_sqlQueue' \in Seq(Operation) /\ handed' \in Seq(Operation)
        /\ \A i \in DOMAIN m_sqlQueue' : WellFormed(m_sqlQueue'[i])
    <3>1. CASE q.live
      BY <1>5, <2>2, <3>1, DelayTypes DEF CommitFound
    <3>2. CASE ~q.live
      BY <1>5, <3>2 DEF CommitFound, IInv, TypeOK, Works
    <3> QED BY <3>1, <3>2
  <2>4. TypeOK'
    BY <1>5, <2>1, <2>3 DEF IInv, TypeOK, CommitFound
  <2>5. Works'
    BY <1>5, <2>3 DEF IInv, Works, CommitFound
  <2>6. Calls'
    BY <1>5 DEF IInv, TypeOK, Calls, CommitFound
  <2> QED BY <2>4, <2>5, <2>6 DEF IInv
<1>6. CASE RollbackFound(t)
  <2>1. NoTransaction \in Transaction
    BY EmptySeq DEF NoTransaction, Transaction
  <2>2. TypeOK'
    BY <1>6, <2>1 DEF IInv, TypeOK, RollbackFound
  <2>3. Works'
    BY <1>6 DEF IInv, Works, RollbackFound
  <2>4. Calls'
    BY <1>6 DEF IInv, TypeOK, Calls, RollbackFound
  <2> QED BY <2>2, <2>3, <2>4 DEF IInv
<1>7. CASE AsyncQuery(t)
  <2>1. PICK n \in {1, HolderSize} : Delay("query", <<>>, n)
    BY <1>7 DEF AsyncQuery
  <2>2. n \in Nat /\ <<>> \in Seq(Statement)
    BY BoundsAssumption, EmptySeq
  <2>3. /\ m_sqlQueue' \in Seq(Operation) /\ handed' \in Seq(Operation)
        /\ \A i \in DOMAIN m_sqlQueue' : WellFormed(m_sqlQueue'[i])
    BY <2>1, <2>2, DelayTypes
  <2>4. TypeOK'
    BY <1>7, <2>3, NewStatementType DEF IInv, TypeOK, AsyncQuery
  <2>5. Works'
    BY <1>7, <2>3 DEF IInv, Works, AsyncQuery
  <2>6. Calls'
    BY <1>7 DEF IInv, TypeOK, Calls, AsyncQuery
  <2> QED BY <2>4, <2>5, <2>6 DEF IInv
<1>8. CASE DirectExecute(t)
  <2> DEFINE s == [id |-> Number, by |-> t, tran |-> 0, direct |-> TRUE]
  <2>1. s \in Sent /\ Number \in Nat
    BY NewStatementType DEF DirectStatement, Sent
  <2>2. connBuf' \in Seq(Sent) /\ store' \in Seq(Sent)
        /\ connOpen' \in BOOLEAN
    <3>1. CASE Send(s)
      BY <2>1, <3>1, SendTypes
    <3>2. CASE UNCHANGED connVars
      BY <3>2 DEF IInv, TypeOK
    <3> QED BY <1>8, <3>1, <3>2 DEF DirectExecute
  <2>3. TypeOK'
    BY <1>8, <2>1, <2>2 DEF IInv, TypeOK, DirectExecute
  <2>4. Works'
    BY <1>8 DEF IInv, Works, DirectExecute
  <2>5. Calls'
    BY <1>8 DEF IInv, Calls, DirectExecute
  <2> QED BY <2>3, <2>4, <2>5 DEF IInv
<1>9. CASE UpdateResultQueue(t)
  <2>1. Head(resultQueue) \in Result /\ resultQueue' \in Seq(Result)
    BY <1>9, HeadTailProperties DEF IInv, TypeOK, UpdateResultQueue
  <2>2. delivered' \in Seq(Result)
    BY <1>9, <2>1, AppendProperties DEF IInv, TypeOK, UpdateResultQueue
  <2>3. TypeOK'
    BY <1>9, <2>1, <2>2 DEF IInv, TypeOK, UpdateResultQueue
  <2>4. Works'
    BY <1>9 DEF IInv, Works, UpdateResultQueue
  <2>5. Calls'
    BY <1>9 DEF IInv, Calls, UpdateResultQueue
  <2> QED BY <2>3, <2>4, <2>5 DEF IInv
<1>10. CASE Retire(t) \/ Halt(t) \/ Halted(t)
  <2>1. TypeOK'
    BY <1>10 DEF IInv, TypeOK, Retire, Halt, Halted
  <2>2. Works'
    BY <1>10 DEF IInv, Works, Retire, Halt, Halted
  <2>3. Calls'
    BY <1>10 DEF IInv, TypeOK, Calls, Retire, Halt, Halted
  <2> QED BY <2>1, <2>2, <2>3 DEF IInv
<1> QED
  BY <1>2, <1>3, <1>4, <1>5, <1>6, <1>7, <1>8, <1>9, <1>10 DEF Client, Inside

\* The operation the delay thread executes.
LEMMA Current ==
  ASSUME IInv, dpc \in {"exec", "tran", "rollback"}
  PROVE  cur[1] \in Operation /\ cur = <<cur[1]>>
<1>1. cur \in Seq(Operation) /\ Len(cur) = 1
  BY DEF IInv, TypeOK, Works
<1>2. cur[1] \in Operation
  BY <1>1, ElementOfSeq
<1>3. cur = <<cur[1]>>
  BY <1>1, <1>2, SeqEqual
<1> QED BY <1>2, <1>3

\* The steps of the delay thread.
LEMMA DelayThreadIInv ==
  ASSUME IInv, DelayThread
  PROVE  IInv'
<1>1. CASE Wake \/ Drained \/ TestRunning
  <2>1. TypeOK'
    BY <1>1 DEF IInv, TypeOK, Wake, Drained, TestRunning
  <2>2. Works'
    BY <1>1 DEF IInv, Works, Wake, Drained, TestRunning
  <2>3. Calls'
    BY <1>1 DEF IInv, Calls, Wake, Drained, TestRunning
  <2> QED BY <2>1, <2>2, <2>3 DEF IInv
<1>2. CASE NextOperation
  <2> DEFINE op == Head(m_sqlQueue)
  <2>1. m_sqlQueue \in Seq(Operation) /\ m_sqlQueue # <<>>
    BY <1>2 DEF IInv, TypeOK, NextOperation
  <2>2. op \in Operation /\ m_sqlQueue' \in Seq(Operation)
        /\ op = m_sqlQueue[1] /\ 1 \in DOMAIN m_sqlQueue
    BY <1>2, <2>1, HeadTailProperties, LenProperties DEF NextOperation
  <2>3. WellFormed(op)
    BY <2>2 DEF IInv, Works
  <2>4. \A i \in DOMAIN m_sqlQueue' : WellFormed(m_sqlQueue'[i])
    <3> SUFFICES ASSUME NEW i \in DOMAIN m_sqlQueue' PROVE WellFormed(m_sqlQueue'[i])
      OBVIOUS
    <3>1. i + 1 \in DOMAIN m_sqlQueue /\ m_sqlQueue'[i] = m_sqlQueue[i + 1]
      BY <1>2, <2>1 DEF NextOperation
    <3> QED BY <3>1 DEF IInv, Works
  <2>5. cur' = <<op>> /\ cur' \in Seq(Operation) /\ Len(cur') = 1 /\ cur'[1] = op
    BY <1>2, <2>2 DEF NextOperation
  <2>6. todo' = op.sql /\ todo' \in Seq(Statement)
    BY <1>2, <2>2 DEF NextOperation, Operation
  <2>7. TypeOK'
    BY <1>2, <2>2, <2>5, <2>6 DEF IInv, TypeOK, NextOperation
  <2>8. Works'
    BY <1>2, <2>3, <2>4, <2>5, <2>6 DEF IInv, Works, NextOperation
  <2>9. Calls'
    BY <1>2 DEF IInv, Calls, NextOperation
  <2> QED BY <2>7, <2>8, <2>9 DEF IInv
<1>3. CASE ExecStatement
  <2>1. Len(cur) = 1 /\ cur[1] \in Operation /\ todo = cur[1].sql /\ Len(todo) = 1
    BY <1>3 DEF IInv, TypeOK, Works, WellFormed, ExecStatement, Executing
  <2>2. todo[1] \in Sent /\ cur[1].no \in Nat
    <3>1. todo[1] \in Statement
      BY <2>1 DEF IInv, TypeOK
    <3> QED BY <2>1, <3>1 DEF Operation, Sent
  <2>3. connBuf' \in Seq(Sent) /\ store' \in Seq(Sent)
        /\ connOpen' \in BOOLEAN
    <3>1. CASE Send(todo[1])
      BY <2>2, <3>1, SendTypes
    <3>2. CASE UNCHANGED connVars
      BY <3>2 DEF IInv, TypeOK
    <3> QED BY <1>3, <3>1, <3>2 DEF ExecStatement
  <2>4. refused' \subseteq Nat
    BY <1>3, <2>2 DEF IInv, TypeOK, ExecStatement
  <2>5. TypeOK'
    BY <1>3, <2>3, <2>4, EmptySeq DEF IInv, TypeOK, ExecStatement, Finish
  <2>6. Works'
    BY <1>3 DEF IInv, Works, ExecStatement, Finish
  <2>7. Calls'
    BY <1>3 DEF IInv, Calls, ExecStatement
  <2> QED BY <2>5, <2>6, <2>7 DEF IInv
<1>4. CASE TranEmpty \/ TranRollback
  <2>1. TypeOK'
    BY <1>4, EmptySeq DEF IInv, TypeOK, TranEmpty, TranRollback, Finish
  <2>2. Works'
    BY <1>4 DEF IInv, Works, TranEmpty, TranRollback, Finish
  <2>3. Calls'
    BY <1>4 DEF IInv, Calls, TranEmpty, TranRollback
  <2> QED BY <2>1, <2>2, <2>3 DEF IInv
<1>5. CASE TranStart
  <2>1. seen = <<>>
    BY <1>5 DEF IInv, Works, TranStart, Executing
  <2>5. dpc = "exec" /\ dpc' = "tran" /\ cur' = cur
    BY <1>5 DEF TranStart, Executing
  <2>2. TypeOK'
    BY <1>5, <2>5 DEF IInv, TypeOK, TranStart
  <2>3. Works'
    BY <1>5, <2>1 DEF IInv, Works, TranStart, Executing
  <2>4. Calls'
    BY <1>5 DEF IInv, Calls, TranStart
  <2> QED BY <2>2, <2>3, <2>4 DEF IInv
<1>6. CASE TranStatement
  <2>1. Head(todo) \in Sent /\ todo' \in Seq(Statement)
    BY <1>6, HeadTailProperties DEF IInv, TypeOK, TranStatement, Sent
  <2>2. connBuf' \in Seq(Sent) /\ store' \in Seq(Sent)
        /\ connOpen' \in BOOLEAN
    BY <1>6, <2>1, SendTypes DEF TranStatement
  <2>3. cur # <<>> /\ cur' = cur /\ dpc' = dpc
    BY <1>6 DEF IInv, TypeOK, TranStatement
  <2>6. TypeOK'
    BY <1>6, <2>1, <2>2, <2>3 DEF IInv, TypeOK, TranStatement
  <2>4. Works'
    BY <1>6 DEF IInv, Works, TranStatement
  <2>5. Calls'
    BY <1>6 DEF IInv, Calls, TranStatement
  <2> QED BY <2>4, <2>5, <2>6 DEF IInv
<1>7. CASE TranFail
  <2>1. cur[1].no \in Nat
    <3>1. cur[1] \in Operation
      BY <1>7, Current DEF TranFail
    <3> QED BY <3>1 DEF Operation
  <2>2. TypeOK'
    BY <1>7, <2>1 DEF IInv, TypeOK, TranFail
  <2>3. Works'
    BY <1>7 DEF IInv, Works, TranFail
  <2>4. Calls'
    BY <1>7 DEF IInv, Calls, TranFail
  <2> QED BY <2>2, <2>3, <2>4 DEF IInv
<1>8. CASE TranCommit
  <2>1. store' \in Seq(Sent)
    BY <1>8, ConcatProperties DEF IInv, TypeOK, TranCommit
  <2>2. TypeOK'
    BY <1>8, <2>1, EmptySeq DEF IInv, TypeOK, TranCommit, Finish
  <2>3. Works'
    BY <1>8 DEF IInv, Works, TranCommit, Finish
  <2>4. Calls'
    BY <1>8 DEF IInv, Calls, TranCommit
  <2> QED BY <2>2, <2>3, <2>4 DEF IInv
<1>9. CASE QueryRead
  <2>1. store \o connBuf \in Seq(Sent)
    BY ConcatProperties DEF IInv, TypeOK
  <2>2. seen' \in Seq(Seq(Sent))
    BY <1>9, <2>1, AppendProperties DEF IInv, TypeOK, QueryRead
  <2>3. TypeOK'
    BY <1>9, <2>2 DEF IInv, TypeOK, QueryRead
  <2>4. Works'
    BY <1>9 DEF IInv, Works, QueryRead, Executing
  <2>5. Calls'
    BY <1>9 DEF IInv, Calls, QueryRead
  <2> QED BY <2>3, <2>4, <2>5 DEF IInv
<1>10. CASE QueryAnswer
  <2>1. cur[1].no \in Nat
    <3>1. cur[1] \in Operation
      BY <1>10, Current DEF QueryAnswer, Executing
    <3> QED BY <3>1 DEF Operation
  <2>2. [no |-> cur[1].no, seen |-> seen] \in Result
    BY <2>1 DEF IInv, TypeOK, Result
  <2>3. resultQueue' \in Seq(Result)
    BY <1>10, <2>2, AppendProperties DEF IInv, TypeOK, QueryAnswer
  <2>4. TypeOK'
    BY <1>10, <2>3, EmptySeq DEF IInv, TypeOK, QueryAnswer, Finish
  <2>5. Works'
    BY <1>10 DEF IInv, Works, QueryAnswer, Finish
  <2>6. Calls'
    BY <1>10 DEF IInv, Calls, QueryAnswer
  <2> QED BY <2>4, <2>5, <2>6 DEF IInv
<1> QED
  BY <1>1, <1>2, <1>3, <1>4, <1>5, <1>6, <1>7, <1>8, <1>9, <1>10 DEF DelayThread

\* ... every step keeps it, ...
LEMMA StepIInv == IInv /\ [Next]_vars => IInv'
<1> SUFFICES ASSUME IInv, [Next]_vars PROVE IInv'
  OBVIOUS
<1>1. CASE \E t \in Threads : Client(t)
  BY <1>1, ClientIInv
<1>2. CASE DelayThread
  BY <1>2, DelayThreadIInv
<1>3. CASE UNCHANGED vars
  BY <1>3 DEF vars, IInv, TypeOK, Works, Calls
<1> QED BY <1>1, <1>2, <1>3 DEF Next, Terminated

\* ... and so it always holds.
THEOREM Invariance == Spec => []IInv
BY InitIInv, StepIInv, PTL DEF Spec

\* Every variable of the engine keeps its type (TypeOK): in particular the
\* delay thread never takes the head of an empty queue, never numbers an
\* operation it does not have, and answers every query with a result per read.
THEOREM TypeCorrect == Spec => []TypeOK
<1>1. IInv => TypeOK
  BY DEF IInv
<1> QED BY <1>1, Invariance, PTL

-----------------------------------------------------------------------------
(* The engine implements SqlStore.                                         *)

\* A connection holds the first n statements of a transaction in their order,
\* and between them only direct ones.
Joined(sql, n, buf) ==
  \E place \in [1..n -> 1..Len(buf)] :
    /\ \A i, j \in 1..n : i < j => place[i] < place[j]
    /\ \A i \in 1..n : buf[place[i]] = sql[i]
    /\ \A k \in 1..Len(buf) : buf[k].direct \/ \E i \in 1..n : place[i] = k

\* What is left of a sequence after its first n elements.
Rest(sql, n, rest) ==
  /\ n + Len(rest) = Len(sql)
  /\ \A i \in 1..Len(rest) : rest[i] = sql[n + i]

\* A read saw all of a store but for later direct statements.
Saw(read, all) ==
  /\ Len(read) <= Len(all)
  /\ \A i \in DOMAIN read : read[i] = all[i]
  /\ \A i \in (Len(read) + 1)..Len(all) : all[i].direct

\* The connection between two steps: a transaction has sent some of its
\* statements and has the others yet to send, and every read of a query saw
\* all of the store but for later direct statements.
Conn ==
  /\ dpc \notin {"tran", "rollback"} => ~connOpen /\ connBuf = <<>>
  /\ dpc \in {"tran", "rollback"} => connOpen
  /\ dpc = "tran" =>
       \E n \in Nat : Rest(cur[1].sql, n, todo) /\ Joined(cur[1].sql, n, connBuf)
  /\ \A i \in DOMAIN seen : Saw(seen[i], store)

\* Nothing has joined an empty connection.
LEMMA JoinedNothing == ASSUME NEW sql PROVE Joined(sql, 0, <<>>)
<1> DEFINE place == [i \in 1..0 |-> 1]
<1>1. place \in [1..0 -> 1..Len(<<>>)]
  OBVIOUS
<1> HIDE DEF place
<1>2. 1..0 = {} /\ 1..Len(<<>>) = {}
  OBVIOUS
<1>3. /\ \A i, j \in 1..0 : i < j => place[i] < place[j]
      /\ \A i \in 1..0 : <<>>[place[i]] = sql[i]
      /\ \A k \in 1..Len(<<>>) : <<>>[k].direct \/ \E i \in 1..0 : place[i] = k
  BY <1>2
<1> QED BY <1>1, <1>3 DEF Joined

\* The next statement of the transaction joins those sent.
LEMMA JoinedNext ==
  ASSUME NEW sql \in Seq(Statement), NEW n \in Nat, n < Len(sql),
         NEW buf \in Seq(Sent), Joined(sql, n, buf)
  PROVE  Joined(sql, n + 1, Append(buf, sql[n + 1]))
<1>1. PICK place \in [1..n -> 1..Len(buf)] :
        /\ \A i, j \in 1..n : i < j => place[i] < place[j]
        /\ \A i \in 1..n : buf[place[i]] = sql[i]
        /\ \A k \in 1..Len(buf) : buf[k].direct \/ \E i \in 1..n : place[i] = k
  BY DEF Joined
<1> DEFINE s == sql[n + 1]
           more == Append(buf, s)
           to == [i \in 1..(n + 1) |-> IF i <= n THEN place[i] ELSE Len(buf) + 1]
<1>2. Len(buf) \in Nat /\ s \in Sent
  BY ElementOfSeq, LenProperties DEF Sent
<1>3. /\ Len(more) = Len(buf) + 1
      /\ \A k \in 1..Len(buf) : more[k] = buf[k]
      /\ more[Len(buf) + 1] = s
  BY <1>2, AppendProperties
<1>4. to \in [1..(n + 1) -> 1..Len(more)]
  BY <1>2, <1>3
<1>5. /\ \A i \in 1..n : to[i] = place[i] /\ place[i] \in 1..Len(buf)
      /\ to[n + 1] = Len(buf) + 1
  OBVIOUS
<1> HIDE DEF to, more, s
<1>6. ASSUME NEW i \in 1..(n + 1), NEW j \in 1..(n + 1), i < j
      PROVE  to[i] < to[j]
  <2>1. i \in 1..n
    BY <1>6
  <2>2. CASE j \in 1..n
    BY <1>1, <1>5, <1>6, <2>1, <2>2
  <2>3. CASE j = n + 1
    BY <1>2, <1>5, <2>1, <2>3
  <2> QED BY <2>2, <2>3
<1>7. ASSUME NEW i \in 1..(n + 1)
      PROVE  more[to[i]] = sql[i]
  <2>1. CASE i \in 1..n
    BY <1>1, <1>3, <1>5, <2>1
  <2>2. CASE i = n + 1
    BY <1>3, <1>5, <2>2 DEF s
  <2> QED BY <2>1, <2>2
<1>8. ASSUME NEW k \in 1..Len(more)
      PROVE  more[k].direct \/ \E i \in 1..(n + 1) : to[i] = k
  <2>1. CASE k \in 1..Len(buf)
    <3>1. CASE buf[k].direct
      BY <1>3, <2>1, <3>1
    <3>2. CASE \E i \in 1..n : place[i] = k
      <4>1. PICK i \in 1..n : place[i] = k
        BY <3>2
      <4>2. i \in 1..(n + 1) /\ to[i] = k
        BY <1>5, <4>1
      <4> QED BY <4>2
    <3> QED BY <1>1, <2>1, <3>1, <3>2
  <2>2. CASE k = Len(buf) + 1
    BY <1>5, <2>2
  <2> QED BY <1>2, <1>3, <2>1, <2>2
<1>9. Joined(sql, n + 1, more)
  BY <1>4, <1>6, <1>7, <1>8 DEF Joined
<1> QED BY <1>9 DEF more, s

\* A direct statement joins those sent.
LEMMA JoinedDirect ==
  ASSUME NEW sql, NEW n \in Nat, NEW buf \in Seq(Sent), NEW s \in Sent,
         s.direct, Joined(sql, n, buf)
  PROVE  Joined(sql, n, Append(buf, s))
<1>1. PICK place \in [1..n -> 1..Len(buf)] :
        /\ \A i, j \in 1..n : i < j => place[i] < place[j]
        /\ \A i \in 1..n : buf[place[i]] = sql[i]
        /\ \A k \in 1..Len(buf) : buf[k].direct \/ \E i \in 1..n : place[i] = k
  BY DEF Joined
<1> DEFINE more == Append(buf, s)
<1>2. /\ Len(buf) \in Nat
      /\ Len(more) = Len(buf) + 1
      /\ \A k \in 1..Len(buf) : more[k] = buf[k]
      /\ more[Len(buf) + 1] = s
  BY AppendProperties, LenProperties
<1> HIDE DEF more
<1>3. place \in [1..n -> 1..Len(more)]
  BY <1>2
<1>4. \A i \in 1..n : more[place[i]] = sql[i]
  BY <1>1, <1>2
<1>5. ASSUME NEW k \in 1..Len(more)
      PROVE  more[k].direct \/ \E i \in 1..n : place[i] = k
  <2>1. CASE k \in 1..Len(buf)
    <3>1. buf[k].direct \/ \E i \in 1..n : place[i] = k
      BY <1>1, <2>1
    <3>2. more[k] = buf[k]
      BY <1>2, <2>1
    <3> QED BY <3>1, <3>2
  <2>2. CASE k = Len(buf) + 1
    BY <1>2, <2>2
  <2> QED BY <1>2, <2>1, <2>2
<1>6. Joined(sql, n, more)
  BY <1>1, <1>3, <1>4, <1>5 DEF Joined
<1> QED BY <1>6 DEF more

\* It still did when a direct statement has taken effect.
LEMMA SawDirect ==
  ASSUME NEW read \in Seq(Sent), NEW s \in Sent, s.direct,
         NEW all \in Seq(Sent), Saw(read, all)
  PROVE  Saw(read, Append(all, s))
<1> DEFINE more == Append(all, s)
<1>1. /\ Len(all) \in Nat /\ Len(read) \in Nat /\ DOMAIN read = 1..Len(read)
      /\ Len(more) = Len(all) + 1
      /\ \A k \in 1..Len(all) : more[k] = all[k]
      /\ more[Len(all) + 1] = s
  BY AppendProperties, LenProperties
<1> HIDE DEF more
<1>2. Len(read) <= Len(all)
  BY DEF Saw
<1>3. \A i \in DOMAIN read : read[i] = more[i]
  BY <1>1, <1>2 DEF Saw
<1>4. ASSUME NEW i \in (Len(read) + 1)..Len(more)
      PROVE  more[i].direct
  <2>1. CASE i \in (Len(read) + 1)..Len(all)
    <3>1. all[i].direct
      BY <2>1 DEF Saw
    <3>2. more[i] = all[i]
      BY <1>1, <2>1
    <3> QED BY <3>1, <3>2
  <2>2. CASE i = Len(all) + 1
    BY <1>1, <2>2
  <2> QED BY <1>1, <1>2, <2>1, <2>2
<1>5. Saw(read, more)
  BY <1>1, <1>2, <1>3, <1>4 DEF Saw
<1> QED BY <1>5 DEF more

\* The step of the store that executes a statement directly.
LEMMA DirectStep ==
  ASSUME NEW s \in Sent, s.direct, store \in Seq(Sent), store' = Append(store, s),
         UNCHANGED <<cur, m_sqlQueue, delivered, resultQueue>>
  PROVE  Store!Direct
<1>1. /\ Len(store) \in Nat /\ DOMAIN store = 1..Len(store)
      /\ Len(store') = Len(store) + 1
      /\ \A k \in 1..Len(store) : store'[k] = store[k]
      /\ store'[Len(store) + 1] = s
  BY AppendProperties, LenProperties
<1>2. Store!StoreGrows
  BY <1>1 DEF Store!StoreGrows
<1>3. store'[Len(store')].direct
  BY <1>1
<1> QED BY <1>1, <1>2, <1>3 DEF Store!Direct

\* Moving the head of what is left to the end of what is done changes nothing.
LEMMA MoveHead ==
  ASSUME NEW S, NEW a \in Seq(S), NEW b \in Seq(S), b # <<>>
  PROVE  Append(a, Head(b)) \o Tail(b) = a \o b
<1>1. Head(b) \in S /\ Tail(b) \in Seq(S) /\ b = <<Head(b)>> \o Tail(b)
  BY HeadTailProperties, ConcatProperties, SeqEqual
<1>2. Append(a, Head(b)) = a \o <<Head(b)>>
  BY <1>1, AppendIsConcat
<1>3. <<Head(b)>> \in Seq(S)
  BY <1>1
<1>4. (a \o <<Head(b)>>) \o Tail(b) = a \o (<<Head(b)>> \o Tail(b))
  BY <1>1, <1>3, ConcatAssociative
<1> QED BY <1>1, <1>2, <1>4

\* Initially no connection is open, ...
LEMMA InitConn == Init => Conn
BY DEF Init, Conn

\* A client changes neither the delay thread nor, unless it executes a
\* statement directly, the connection.
LEMMA ClientFrame ==
  ASSUME NEW t \in Threads, Client(t)
  PROVE  /\ UNCHANGED <<dpc, cur, todo, seen, connOpen>>
         /\ DirectExecute(t) \/ UNCHANGED <<connBuf, store>>
BY DEF Client, Inside, Execute, BeginTransaction, CommitTransaction,
       RollbackTransaction, Call, ExecuteFound, BeginFound, CommitFound,
       RollbackFound, AsyncQuery, DirectExecute, UpdateResultQueue, Retire, Halt,
       Halted, Send

\* A direct statement that takes effect or joins the open transaction.
LEMMA DirectSent ==
  ASSUME IInv, NEW t \in Threads, DirectExecute(t)
  PROVE  \/ UNCHANGED <<connBuf, store>>
         \/ \E s \in Sent :
              /\ s.direct
              /\ \/ connOpen /\ connBuf' = Append(connBuf, s) /\ UNCHANGED store
                 \/ ~connOpen /\ store' = Append(store, s) /\ UNCHANGED connBuf
<1> DEFINE s == [id |-> Number, by |-> t, tran |-> 0, direct |-> TRUE]
<1>1. s \in Sent /\ s.direct
  BY NewStatementType DEF DirectStatement, Sent
<1>2. Send(s) \/ UNCHANGED connVars
  BY DEF DirectExecute
<1> HIDE DEF s
<1>3. CASE Send(s)
  <2>1. CASE connOpen
    BY <1>1, <1>3, <2>1 DEF Send
  <2>2. CASE ~connOpen
    BY <1>1, <1>3, <2>2 DEF Send
  <2> QED BY <2>1, <2>2
<1> QED BY <1>2, <1>3

\* A client keeps the connection as the delay thread left it, but for direct
\* statements.
LEMMA ClientConn ==
  ASSUME IInv, Conn, NEW t \in Threads, Client(t)
  PROVE  Conn'
<1>1. UNCHANGED <<dpc, cur, todo, seen, connOpen>>
  BY ClientFrame
<1>2. CASE UNCHANGED <<connBuf, store>>
  BY <1>1, <1>2 DEF Conn
<1>3. CASE ~UNCHANGED <<connBuf, store>>
  <2>1. DirectExecute(t)
    BY <1>3, ClientFrame
  <2>2. PICK s \in Sent :
          /\ s.direct
          /\ \/ connOpen /\ connBuf' = Append(connBuf, s) /\ UNCHANGED store
             \/ ~connOpen /\ store' = Append(store, s) /\ UNCHANGED connBuf
    BY <1>3, <2>1, DirectSent
  <2>3. connBuf \in Seq(Sent) /\ store \in Seq(Sent) /\ seen \in Seq(Seq(Sent))
    BY DEF IInv, TypeOK
  <2>4. CASE connOpen /\ connBuf' = Append(connBuf, s) /\ UNCHANGED store
    <3>1. dpc \in {"tran", "rollback"}
      BY <2>4 DEF Conn
    <3>2. ASSUME dpc = "tran"
          PROVE  \E n \in Nat : Rest(cur[1].sql, n, todo)
                                   /\ Joined(cur[1].sql, n, connBuf')
      <4>1. PICK n \in Nat : Rest(cur[1].sql, n, todo) /\ Joined(cur[1].sql, n, connBuf)
        BY <3>2 DEF Conn
      <4>2. Joined(cur[1].sql, n, connBuf')
        BY <2>2, <2>3, <2>4, <4>1, JoinedDirect
      <4> QED BY <4>1, <4>2
    <3>3. \A i \in DOMAIN seen' : Saw(seen'[i], store')
      BY <1>1, <2>4 DEF Conn
    <3> QED BY <1>1, <2>4, <3>1, <3>2, <3>3 DEF Conn
  <2>5. CASE ~connOpen /\ store' = Append(store, s) /\ UNCHANGED connBuf
    <3>1. dpc \notin {"tran", "rollback"}
      BY <2>5 DEF Conn
    <3>2. ASSUME NEW i \in DOMAIN seen PROVE Saw(seen[i], store')
      <4>1. seen[i] \in Seq(Sent)
        BY <2>3, ElementOfSeq, LenProperties
      <4>2. Saw(seen[i], store)
        BY DEF Conn
      <4> QED BY <2>2, <2>3, <2>5, <4>1, <4>2, SawDirect
    <3>3. \A i \in DOMAIN seen' : Saw(seen'[i], store')
      BY <1>1, <3>2
    <3> QED BY <1>1, <2>5, <3>1, <3>3 DEF Conn
  <2> QED BY <2>2, <2>4, <2>5
<1> QED BY <1>2, <1>3

\* ... and every step keeps what is sent and what is left together.
LEMMA StepConn ==
  ASSUME IInv, Conn, [Next]_vars
  PROVE  Conn'
<1>1. CASE \E t \in Threads : Client(t)
  BY <1>1, ClientConn
<1>2. CASE Wake \/ Drained \/ TestRunning
  BY <1>2 DEF IInv, Works, Conn, Wake, Drained, TestRunning
<1>3. CASE NextOperation
  <2>1. dpc = "drain" /\ seen = <<>> /\ seen' = <<>>
    BY <1>3 DEF IInv, Works, NextOperation
  <2> QED BY <1>3, <2>1 DEF Conn, NextOperation
<1>4. CASE ExecStatement
  <2>1. ~connOpen /\ connBuf = <<>>
    BY <1>4 DEF Conn, ExecStatement, Executing
  <2> QED BY <1>4, <2>1 DEF Conn, ExecStatement, Finish, Send
<1>5. CASE TranEmpty \/ TranRollback \/ TranCommit \/ QueryAnswer
  BY <1>5 DEF Conn, TranEmpty, TranRollback, TranCommit, QueryAnswer, Finish,
              Executing
<1>6. CASE TranStart
  <2>1. connBuf = <<>> /\ seen = <<>> /\ todo = cur[1].sql
    BY <1>6 DEF IInv, Works, Conn, TranStart, Executing
  <2>2. Len(todo) \in Nat
    BY LenProperties DEF IInv, TypeOK
  <2>3. Rest(cur[1].sql, 0, todo)
    BY <2>1, <2>2 DEF Rest
  <2>4. Joined(cur[1].sql, 0, connBuf)
    BY <2>1, JoinedNothing
  <2> QED BY <1>6, <2>1, <2>3, <2>4 DEF Conn, TranStart
<1>7. CASE TranStatement
  <2> DEFINE sql == cur[1].sql
  <2>1. connOpen /\ seen = <<>> /\ dpc = "tran"
    BY <1>7 DEF IInv, Works, Conn, TranStatement
  <2>2. PICK n \in Nat : Rest(sql, n, todo) /\ Joined(sql, n, connBuf)
    BY <2>1 DEF Conn
  <2>3. sql \in Seq(Statement) /\ todo \in Seq(Statement) /\ connBuf \in Seq(Sent)
    <3>1. cur[1] \in Operation
      BY <2>1, Current
    <3> QED BY <3>1 DEF IInv, TypeOK, Operation
  <2>4. connBuf' = Append(connBuf, Head(todo)) /\ connOpen' = connOpen
    BY <1>7, <2>1 DEF TranStatement, Send
  <2>5. /\ Len(todo) \in Nat \ {0} /\ Len(sql) \in Nat
        /\ Head(todo) = todo[1] /\ Len(todo') = Len(todo) - 1
        /\ \A i \in 1..Len(todo') : todo'[i] = todo[i + 1]
    BY <1>7, <2>3, HeadTailProperties, LenProperties DEF TranStatement
  <2> HIDE DEF sql
  <2>6. n < Len(sql) /\ Head(todo) = sql[n + 1]
    BY <2>2, <2>5 DEF Rest
  <2>7. Rest(sql, n + 1, todo')
    <3>1. n + 1 + Len(todo') = Len(sql)
      <4>1. n + Len(todo) = Len(sql)
        BY <2>2 DEF Rest
      <4>2. Len(todo) \in Nat /\ Len(todo') = Len(todo) - 1
        BY <2>5
      <4> QED BY ONLY <4>1, <4>2, n \in Nat
    <3>2. ASSUME NEW i \in 1..Len(todo') PROVE todo'[i] = sql[n + 1 + i]
      <4>1. todo'[i] = todo[i + 1] /\ i + 1 \in 1..Len(todo)
        BY <2>5
      <4>2. todo[i + 1] = sql[n + (i + 1)]
        BY <2>2, <4>1 DEF Rest
      <4>3. n + (i + 1) = n + 1 + i
        OBVIOUS
      <4> QED BY <4>1, <4>2, <4>3
    <3> QED BY <3>1, <3>2 DEF Rest
  <2>8. Joined(sql, n + 1, connBuf')
    BY <2>2, <2>3, <2>4, <2>6, JoinedNext
  <2>9. n + 1 \in Nat /\ cur' = cur /\ dpc' = dpc /\ seen' = seen
    BY <1>7 DEF TranStatement
  <2> QED BY <2>1, <2>4, <2>7, <2>8, <2>9 DEF Conn, sql
<1>8. CASE TranFail
  BY <1>8 DEF Conn, TranFail
<1>9. CASE QueryRead
  <2>1. connBuf = <<>> /\ ~connOpen
    BY <1>9 DEF Conn, QueryRead, Executing
  <2>2. store \o connBuf = store
    BY <2>1, ConcatEmptySeq DEF IInv, TypeOK
  <2>3. seen \in Seq(Seq(Sent)) /\ store \in Seq(Sent)
    BY DEF IInv, TypeOK
  <2>4. /\ Len(seen') = Len(seen) + 1 /\ DOMAIN seen' = 1..(Len(seen) + 1)
        /\ \A i \in 1..Len(seen) : seen'[i] = seen[i]
        /\ seen'[Len(seen) + 1] = store
    BY <1>9, <2>2, <2>3, AppendProperties, LenProperties DEF QueryRead
  <2>5. Saw(store, store)
    BY <2>3, LenProperties DEF Saw
  <2>6. \A i \in 1..Len(seen) : Saw(seen[i], store)
    BY <2>3, LenProperties DEF Conn
  <2>7. ASSUME NEW i \in DOMAIN seen' PROVE Saw(seen'[i], store)
    <3>1. CASE i \in 1..Len(seen)
      BY <2>4, <2>6, <3>1
    <3>2. CASE i = Len(seen) + 1
      BY <2>4, <2>5, <3>2
    <3>3. Len(seen) \in Nat
      BY <2>3, LenProperties
    <3> QED BY <2>4, <3>1, <3>2, <3>3
  <2>8. store' = store
    BY <1>9 DEF QueryRead
  <2>9. \A i \in DOMAIN seen' : Saw(seen'[i], store')
    BY <2>7, <2>8
  <2> QED BY <1>9, <2>1, <2>9 DEF Conn, QueryRead, Executing
<1>10. CASE UNCHANGED vars
  BY <1>10 DEF vars, Conn
<1> QED
  BY <1>1, <1>2, <1>3, <1>4, <1>5, <1>6, <1>7, <1>8, <1>9, <1>10
  DEF Next, DelayThread, Terminated

\* The steps of the engine as steps of the store.
Unfinished == cur \o m_sqlQueue
Answered == delivered \o resultQueue

\* Handing an operation over is the store's step of the same kind.
LEMMA HandOverStep ==
  ASSUME IInv, NEW op \in Operation, UNCHANGED <<cur, store, delivered, resultQueue>>,
         m_sqlQueue' = Append(m_sqlQueue, op)
  PROVE  Store!HandOver
<1>1. cur \in Seq(Operation) /\ m_sqlQueue \in Seq(Operation)
      /\ Unfinished \in Seq(Operation)
  BY ConcatProperties DEF IInv, TypeOK, Unfinished
<1>2. <<op>> \in Seq(Operation)
  OBVIOUS
<1>3. Unfinished' = Unfinished \o <<op>>
  <2>1. m_sqlQueue' = m_sqlQueue \o <<op>>
    BY <1>1, AppendIsConcat
  <2> QED BY <2>1, <1>1, <1>2, ConcatAssociative DEF Unfinished
<1>4. Unfinished' = Append(Unfinished, op)
  BY <1>1, <1>3, AppendIsConcat
<1>5. Unfinished' # <<>> /\ Unfinished'[Len(Unfinished')] = op
  BY <1>1, <1>4, AppendProperties
<1>6. \A i \in DOMAIN op.sql : ~op.sql[i].direct
  <2>1. op.sql \in Seq(Statement)
    BY DEF Operation
  <2>2. \A i \in DOMAIN op.sql : op.sql[i] \in Statement
    BY <2>1, ElementOfSeq, LenProperties
  <2> QED BY <2>2 DEF Statement
<1> QED BY <1>4, <1>5, <1>6 DEF Store!HandOver, Unfinished

\* Finishing an operation is the store's step that executes it whole.
LEMMA FinishStep ==
  ASSUME IInv, dpc \in {"exec", "tran", "rollback"}, cur' = <<>>,
         UNCHANGED m_sqlQueue
  PROVE  /\ Unfinished # <<>>
         /\ Head(Unfinished) = cur[1]
         /\ Unfinished' = Tail(Unfinished)
<1>1. cur[1] \in Operation /\ cur = <<cur[1]>>
  BY Current
<1>2. m_sqlQueue \in Seq(Operation)
  BY DEF IInv, TypeOK
<1> DEFINE c == cur[1]
<1>3. <<c>> \in Seq(Operation) /\ Len(<<c>>) = 1
  BY <1>1
<1>4. /\ <<c>> \o m_sqlQueue \in Seq(Operation)
      /\ Len(<<c>> \o m_sqlQueue) = Len(m_sqlQueue) + 1
      /\ \A i \in 1..Len(m_sqlQueue) : (<<c>> \o m_sqlQueue)[i + 1] = m_sqlQueue[i]
      /\ (<<c>> \o m_sqlQueue)[1] = c
  BY <1>1, <1>2, <1>3, ConcatProperties, LenProperties
<1>5. Unfinished = <<c>> \o m_sqlQueue
  BY <1>1 DEF Unfinished
<1>6. Unfinished # <<>> /\ Head(Unfinished) = c
  BY <1>2, <1>4, <1>5, LenProperties
<1>7. Tail(Unfinished) = m_sqlQueue
  BY <1>2, <1>4, <1>5, <1>6, HeadTailProperties, SeqEqual
<1>8. Unfinished' = m_sqlQueue
  BY <1>2, ConcatEmptySeq DEF Unfinished
<1> QED BY <1>6, <1>7, <1>8

\* The statements of the oldest operation, with what has joined them, take
\* effect at once.
LEMMA ApplyStep ==
  ASSUME IInv, Unfinished # <<>>, Head(Unfinished) = cur[1],
         Unfinished' = Tail(Unfinished), cur[1].kind # "query",
         cur[1].sql \in Seq(Statement), NEW buf \in Seq(Sent),
         Joined(cur[1].sql, Len(cur[1].sql), buf), store' = store \o buf,
         UNCHANGED <<delivered, resultQueue>>
  PROVE  Store!Apply
<1> DEFINE sql == Head(cur \o m_sqlQueue).sql
           n == Len(store)
<1>0. sql \in Seq(Statement) /\ Joined(sql, Len(sql), buf)
  <2>1. sql = cur[1].sql
    BY DEF Unfinished
  <2> QED BY <2>1
<1> HIDE DEF sql
<1>1. PICK place \in [1..Len(sql) -> 1..Len(buf)] :
        /\ \A i, j \in 1..Len(sql) : i < j => place[i] < place[j]
        /\ \A i \in 1..Len(sql) : buf[place[i]] = sql[i]
        /\ \A k \in 1..Len(buf) : buf[k].direct \/ \E i \in 1..Len(sql) : place[i] = k
  BY <1>0 DEF Joined
<1> DEFINE to == [i \in DOMAIN sql |-> n + place[i]]
<1>2. /\ DOMAIN sql = 1..Len(sql) /\ Len(sql) \in Nat
      /\ n \in Nat /\ Len(buf) \in Nat /\ DOMAIN store = 1..n
      /\ Len(store') = n + Len(buf)
      /\ \A i \in 1..n : store'[i] = store[i]
      /\ \A k \in 1..Len(buf) : store'[n + k] = buf[k]
  BY <1>0, ConcatProperties, LenProperties DEF IInv, TypeOK
<1>3. Store!StoreGrows
  BY <1>2 DEF Store!StoreGrows
<1>4. Store!Added = (n + 1)..(n + Len(buf))
  BY <1>2 DEF Store!Added
<1>5. to \in [DOMAIN sql -> Store!Added]
  BY <1>1, <1>2, <1>4
<1>6. \A i \in DOMAIN sql : to[i] = n + place[i] /\ place[i] \in 1..Len(buf)
  BY <1>1, <1>2
<1> HIDE DEF to, n
<1>7. \A i, j \in DOMAIN sql : i < j => to[i] < to[j]
  BY <1>1, <1>2, <1>6
<1>8. \A i \in DOMAIN sql : store'[to[i]] = sql[i]
  BY <1>1, <1>2, <1>6
<1>9. ASSUME NEW k \in Store!Added
      PROVE  store'[k].direct \/ \E i \in DOMAIN sql : to[i] = k
  <2>1. k - n \in 1..Len(buf) /\ k = n + (k - n)
    BY <1>2, <1>4
  <2>2. PICK m \in 1..Len(buf) : k = n + m
    BY <2>1
  <2>3. CASE buf[m].direct
    BY <1>2, <2>2, <2>3
  <2>4. CASE \E i \in 1..Len(sql) : place[i] = m
    <3>1. PICK i \in 1..Len(sql) : place[i] = m
      BY <2>4
    <3>2. DOMAIN sql = 1..Len(sql)
      BY <1>2
    <3>3. i \in DOMAIN sql
      BY ONLY <3>2, i \in 1..Len(sql)
    <3>4. to[i] = n + place[i]
      BY ONLY <1>6, <3>3
    <3>5. to[i] = k
      BY ONLY <3>1, <3>4, <2>2
    <3> QED BY ONLY <3>3, <3>5
  <2> QED BY <1>1, <2>2, <2>3, <2>4
<1>10. \E at \in [DOMAIN sql -> Store!Added] :
         /\ \A i, j \in DOMAIN sql : i < j => at[i] < at[j]
         /\ \A i \in DOMAIN sql : store'[at[i]] = sql[i]
         /\ \A k \in Store!Added : store'[k].direct \/ \E i \in DOMAIN sql : at[i] = k
  BY <1>5, <1>7, <1>8, <1>9
<1>11. ~Store!Reads(Head(cur \o m_sqlQueue))
  BY DEF Unfinished, Store!Reads
<1>12. /\ cur \o m_sqlQueue # <<>>
       /\ (cur \o m_sqlQueue)' = Tail(cur \o m_sqlQueue)
       /\ UNCHANGED (delivered \o resultQueue)
  BY DEF Unfinished
<1> QED BY <1>3, <1>10, <1>11, <1>12, Zenon DEF Store!Apply, sql

\* An initial state of the engine is one of the store.
LEMMA StoreInit == Init => Store!Init
<1> SUFFICES ASSUME Init PROVE Store!Init
  OBVIOUS
<1>1. <<>> \o <<>> = <<>>
  BY EmptySeq, ConcatEmptySeq
<1> QED BY <1>1 DEF Init, Store!Init

\* Every step of the engine is a step of the store or a stutter.
LEMMA StoreStep ==
  ASSUME IInv, Conn, [Next]_vars
  PROVE  [Store!Next]_(Store!storeVars)
<1> USE DEF Store!storeVars
<1>1. ASSUME NEW t \in Threads, Client(t)
      PROVE  [Store!Next]_(Store!storeVars)
  <2>1. cur' = cur
    BY <1>1, ClientFrame
  <2>9. ~DirectExecute(t) => UNCHANGED store
    BY <1>1, ClientFrame
  <2>2. ASSUME NEW kind \in {"statement", "transaction", "query"},
               NEW sql \in Seq(Statement), NEW reads \in Nat,
               Delay(kind, sql, reads), UNCHANGED <<store, delivered, resultQueue>>
        PROVE  Store!HandOver
    <3> DEFINE op == [kind |-> kind, no |-> Len(handed) + 1, sql |-> sql,
                      reads |-> reads]
    <3>1. op \in Operation
      BY LenProperties DEF IInv, TypeOK, Operation
    <3>2. m_sqlQueue' = Append(m_sqlQueue, op)
      BY <2>2 DEF Delay
    <3> QED BY <2>1, <2>2, <3>1, <3>2, HandOverStep
  <2>3. CASE ExecuteFound(t)
    <3>9. UNCHANGED store
      BY <2>3 DEF ExecuteFound
    <3>1. CASE m_tranQueues[tranThread].live
      BY <2>1, <2>3, <3>1, <3>9 DEF ExecuteFound
    <3>2. CASE ~m_tranQueues[tranThread].live
      <4>1. <<NewStatement(t)>> \in Seq(Statement)
        BY NewStatementType
      <4> QED BY <2>2, <2>3, <3>2, <3>9, <4>1 DEF ExecuteFound, Store!Next
    <3> QED BY <3>1, <3>2
  <2>4. CASE CommitFound(t)
    <3>9. UNCHANGED store
      BY <2>4 DEF CommitFound
    <3>1. CASE m_tranQueues[tranThread].live
      <4>1. m_tranQueues[tranThread].sql \in Seq(Statement)
        BY <2>4 DEF CommitFound, IInv, TypeOK, Calls, Transaction
      <4> QED BY <2>2, <2>4, <3>1, <3>9, <4>1 DEF CommitFound, Store!Next
    <3>2. CASE ~m_tranQueues[tranThread].live
      BY <2>1, <2>4, <3>2, <3>9 DEF CommitFound
    <3> QED BY <3>1, <3>2
  <2>5. CASE AsyncQuery(t)
    <3>1. PICK n \in {1, HolderSize} : Delay("query", <<>>, n)
      BY <2>5 DEF AsyncQuery
    <3>2. n \in Nat /\ <<>> \in Seq(Statement)
      BY BoundsAssumption, EmptySeq
    <3> QED BY <2>2, <2>5, <3>1, <3>2 DEF AsyncQuery, Store!Next
  <2>6. CASE UpdateResultQueue(t)
    <3>1. delivered' \o resultQueue' = delivered \o resultQueue
      BY <2>6, MoveHead DEF IInv, TypeOK, UpdateResultQueue
    <3> QED BY <2>1, <2>6, <3>1 DEF UpdateResultQueue
  <2>8. CASE DirectExecute(t)
    <3>1. store \in Seq(Sent) /\ UNCHANGED <<m_sqlQueue, delivered, resultQueue>>
      BY <2>8 DEF IInv, TypeOK, DirectExecute
    <3>2. UNCHANGED store
            \/ \E s \in Sent : s.direct /\ store' = Append(store, s)
      BY <1>1, <2>8, DirectSent
    <3>3. CASE UNCHANGED store
      BY <2>1, <3>1, <3>3
    <3>4. CASE \E s \in Sent : s.direct /\ store' = Append(store, s)
      BY <2>1, <3>1, <3>4, DirectStep DEF Store!Next
    <3> QED BY <3>2, <3>3, <3>4
  <2>7. CASE ~(ExecuteFound(t) \/ CommitFound(t) \/ AsyncQuery(t)
                 \/ UpdateResultQueue(t) \/ DirectExecute(t))
    <3>1. UNCHANGED <<m_sqlQueue, delivered, resultQueue>>
      BY <1>1, <2>7
      DEF Client, Inside, Execute, BeginTransaction, CommitTransaction,
          RollbackTransaction, Call, BeginFound, RollbackFound,
          Retire, Halt, Halted
    <3> QED BY <2>1, <2>7, <2>9, <3>1
  <2> QED BY <2>3, <2>4, <2>5, <2>6, <2>7, <2>8
<1>2. CASE Wake \/ Drained \/ TestRunning \/ TranStart \/ TranFail \/ QueryRead
  BY <1>2 DEF Wake, Drained, TestRunning, TranStart, TranFail, QueryRead
<1>3. CASE NextOperation
  <2>1. cur = <<>> /\ m_sqlQueue \in Seq(Operation) /\ m_sqlQueue # <<>>
    BY <1>3 DEF IInv, TypeOK, Works, NextOperation
  <2>2. cur' \o m_sqlQueue' = m_sqlQueue
    BY <1>3, <2>1, HeadTailProperties, ConcatProperties, SeqEqual DEF NextOperation
  <2>3. cur \o m_sqlQueue = m_sqlQueue
    BY <2>1, ConcatEmptySeq
  <2> QED BY <1>3, <2>2, <2>3 DEF NextOperation
<1>4. CASE ExecStatement
  <2>1. cur[1].kind = "statement" /\ dpc = "exec" /\ ~connOpen
    BY <1>4 DEF ExecStatement, Executing, Conn
  <2>2. cur[1].sql \in Seq(Statement) /\ Len(cur[1].sql) = 1 /\ todo = cur[1].sql
    <3>1. cur[1] \in Operation
      BY <2>1, Current
    <3> QED BY <2>1, <3>1 DEF IInv, Works, WellFormed, Operation
  <2>3. Unfinished # <<>> /\ Head(Unfinished) = cur[1] /\ Unfinished' = Tail(Unfinished)
    BY <1>4, <2>1, FinishStep DEF ExecStatement, Finish
  <2>4. CASE Send(todo[1])
    <3>1. store' = Append(store, todo[1])
      BY <2>1, <2>4 DEF Send
    <3>2. todo[1] \in Statement /\ todo = <<todo[1]>>
      BY <2>2, SeqEqual, ElementOfSeq
    <3>3. Joined(cur[1].sql, 1, <<todo[1]>>)
      <4>1. Joined(cur[1].sql, 0, <<>>)
        BY JoinedNothing
      <4>2. <<>> \in Seq(Sent) /\ cur[1].sql[1] = todo[1]
        BY <2>2, EmptySeq
      <4>3. Joined(cur[1].sql, 0 + 1, Append(<<>>, cur[1].sql[0 + 1]))
        <5>1. 0 \in Nat /\ 0 < Len(cur[1].sql)
          BY <2>2
        <5> QED BY <2>2, <4>1, <4>2, <5>1, JoinedNext
      <4>4. Append(<<>>, todo[1]) = <<todo[1]>> /\ 0 + 1 = 1
        OBVIOUS
      <4> QED BY <4>2, <4>3, <4>4
    <3>5. <<todo[1]>> \in Seq(Sent) /\ store' = store \o <<todo[1]>>
      BY <3>1, <3>2, AppendIsConcat DEF IInv, TypeOK, Sent
    <3>4. Store!Apply
      BY <1>4, <2>1, <2>2, <2>3, <3>3, <3>5, ApplyStep
      DEF ExecStatement
    <3> QED BY <3>4 DEF Store!Next
  <2>5. CASE UNCHANGED connVars
    <3>1. Store!Refuse
      BY <1>4, <2>1, <2>3, <2>5 DEF Store!Refuse, Store!Reads, Unfinished, ExecStatement
    <3> QED BY <3>1 DEF Store!Next
  <2> QED BY <1>4, <2>4, <2>5 DEF ExecStatement
<1>5. CASE TranEmpty \/ TranRollback
  <2>1. cur[1].kind = "transaction" /\ dpc \in {"exec", "rollback"}
    BY <1>5 DEF IInv, Works, TranEmpty, TranRollback, Executing
  <2>2. Unfinished # <<>> /\ Head(Unfinished) = cur[1] /\ Unfinished' = Tail(Unfinished)
    BY <1>5, <2>1, FinishStep DEF TranEmpty, TranRollback, Finish
  <2>3. Store!Refuse
    BY <1>5, <2>1, <2>2
    DEF Store!Refuse, Store!Reads, Unfinished, TranEmpty, TranRollback
  <2> QED BY <2>3 DEF Store!Next
<1>6. CASE TranStatement
  <2>1. connOpen
    BY <1>6 DEF Conn, TranStatement
  <2> QED BY <1>6, <2>1 DEF TranStatement, Send
<1>7. CASE TranCommit
  <2>1. cur[1].kind = "transaction" /\ dpc = "tran"
    BY <1>7 DEF IInv, Works, TranCommit
  <2>2. Unfinished # <<>> /\ Head(Unfinished) = cur[1] /\ Unfinished' = Tail(Unfinished)
    BY <1>7, <2>1, FinishStep DEF TranCommit, Finish
  <2>3. PICK n \in Nat : Rest(cur[1].sql, n, todo) /\ Joined(cur[1].sql, n, connBuf)
    BY <2>1 DEF Conn
  <2>5. cur[1].sql \in Seq(Statement)
    <3>1. cur[1] \in Operation
      BY <2>1, Current
    <3> QED BY <3>1 DEF Operation
  <2>6. n = Len(cur[1].sql)
    BY <1>7, <2>3, <2>5, LenProperties DEF Rest, TranCommit
  <2>7. connBuf \in Seq(Sent) /\ store' = store \o connBuf
    BY <1>7 DEF IInv, TypeOK, TranCommit
  <2>4. Store!Apply
    BY <1>7, <2>1, <2>2, <2>3, <2>5, <2>6, <2>7, ApplyStep DEF TranCommit
  <2> QED BY <2>4 DEF Store!Next
<1>8. CASE QueryAnswer
  <2> DEFINE answer == [no |-> cur[1].no, seen |-> seen]
  <2>1. cur[1].kind = "query" /\ dpc = "exec" /\ Len(seen) = cur[1].reads
    BY <1>8 DEF QueryAnswer, Executing
  <2>2. Unfinished # <<>> /\ Head(Unfinished) = cur[1] /\ Unfinished' = Tail(Unfinished)
    BY <1>8, <2>1, FinishStep DEF QueryAnswer, Finish
  <2>3. DOMAIN seen = 1..cur[1].reads /\ \A i \in DOMAIN seen : Store!SeesStore(seen[i])
    BY <2>1, LenProperties DEF IInv, TypeOK, Conn, Saw, Store!SeesStore
  <2>4. answer \in Result
    <3>1. cur[1] \in Operation
      BY <2>1, Current
    <3> QED BY <3>1 DEF IInv, TypeOK, Operation, Result
  <2>5. delivered' \o resultQueue' = Append(delivered \o resultQueue, answer)
    <3>1. delivered \in Seq(Result) /\ resultQueue \in Seq(Result)
          /\ <<answer>> \in Seq(Result) /\ delivered \o resultQueue \in Seq(Result)
      BY <2>4, ConcatProperties DEF IInv, TypeOK
    <3>2. delivered' = delivered /\ resultQueue' = resultQueue \o <<answer>>
      BY <1>8, <2>4, <3>1, AppendIsConcat DEF QueryAnswer
    <3> HIDE DEF answer
    <3>3. delivered \o (resultQueue \o <<answer>>)
            = (delivered \o resultQueue) \o <<answer>>
      BY <3>1, ConcatAssociative
    <3>4. (delivered \o resultQueue) \o <<answer>>
            = Append(delivered \o resultQueue, answer)
      BY <2>4, <3>1, AppendIsConcat
    <3> QED BY <3>2, <3>3, <3>4
  <2>7. Answered' # <<>> /\ Answered'[Len(Answered')] = answer
    <3>1. Answered \in Seq(Result)
      BY ConcatProperties DEF IInv, TypeOK, Answered
    <3> HIDE DEF answer
    <3> QED BY <2>4, <2>5, <3>1, AppendProperties DEF Answered
  <2>6. Store!Answer
    <3>1. answer.no = cur[1].no /\ answer.seen = seen
      OBVIOUS
    <3>2. Store!Reads(Head(cur \o m_sqlQueue)) /\ cur \o m_sqlQueue # <<>>
          /\ Head(cur \o m_sqlQueue) = cur[1]
      BY <2>1, <2>2 DEF Store!Reads, Unfinished
    <3>3. UNCHANGED store
      BY <1>8 DEF QueryAnswer
    <3> HIDE DEF answer
    <3> QED BY <2>2, <2>3, <2>5, <2>7, <3>1, <3>2, <3>3
        DEF Store!Answer, Unfinished, Answered
  <2> QED BY <2>6 DEF Store!Next
<1>9. CASE UNCHANGED vars
  BY <1>9 DEF vars
<1> QED
  BY <1>1, <1>2, <1>3, <1>4, <1>5, <1>6, <1>7, <1>8, <1>9
  DEF Next, DelayThread, Terminated

\* Every behaviour of the engine is one of SqlStore: operations take effect
\* whole, in the order of their hand-over, whatever statements are executed
\* directly meanwhile, and each query is answered from the store that the
\* earlier ones have left.
THEOREM ImplementsStore == Spec => StoreSpec
<1>1. Init => IInv /\ Conn /\ Store!Init
  BY InitIInv, InitConn, StoreInit
<1>2. IInv /\ Conn /\ [Next]_vars => (IInv /\ Conn)'
  BY StepIInv, StepConn
<1>3. IInv /\ Conn /\ [Next]_vars => [Store!Next]_(Store!storeVars)
  BY StoreStep
<1> QED
  BY <1>1, <1>2, <1>3, PTL DEF Spec, StoreSpec, Store!Spec

=============================================================================
