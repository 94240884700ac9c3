------------------------------ MODULE SqlStore ------------------------------
(***************************************************************************)
(* What the asynchronous database interface promises to the code above it  *)
(* (src/shared/Database): the operations handed to the delay queue take    *)
(* effect one at a time in the order in which they were handed over, each  *)
(* of them whole or not at all, and a query is answered from the store     *)
(* that all the operations handed over before it have left.  Statements    *)
(* executed directly take effect at any time, between the statements of an *)
(* operation too, and are lost with an operation the database refuses.     *)
(*                                                                         *)
(* SqlDelay implements this specification (SqlDelay!StoreSpec).            *)
(***************************************************************************)
EXTENDS Naturals, Sequences

VARIABLES
  pending,  \* operations handed over and not yet finished, oldest first
  store,    \* the statements that took effect, in order
  answers   \* the answers given, in order

storeVars == <<pending, store, answers>>

Init ==
  /\ pending = <<>>
  /\ store = <<>>
  /\ answers = <<>>

\* An operation is a record with fields kind, no, sql and reads; all but the
\* queries are writes.
Reads(op) == op.kind = "query"

\* A client hands an operation over and goes on.
HandOver ==
  /\ pending' # <<>>
  /\ pending' = Append(pending, pending'[Len(pending')])
  /\ \A i \in DOMAIN pending'[Len(pending')].sql :
       ~pending'[Len(pending')].sql[i].direct
  /\ UNCHANGED <<store, answers>>

\* The positions that a step adds to the store.
Added == (Len(store) + 1)..Len(store')

\* What has taken effect stays.
StoreGrows ==
  /\ Len(store) <= Len(store')
  /\ \A i \in DOMAIN store : store'[i] = store[i]

\* The oldest operation is a write: all its statements take effect at once,
\* in their order, and with them the direct ones that joined them.
Apply ==
  /\ pending # <<>>
  /\ ~Reads(Head(pending))
  /\ StoreGrows
  /\ LET sql == Head(pending).sql IN
     \E place \in [DOMAIN sql -> Added] :
       /\ \A i, j \in DOMAIN sql : i < j => place[i] < place[j]
       /\ \A i \in DOMAIN sql : store'[place[i]] = sql[i]
       /\ \A k \in Added : store'[k].direct \/ \E i \in DOMAIN sql : place[i] = k
  /\ pending' = Tail(pending)
  /\ UNCHANGED answers

\* The oldest operation is a write the database refuses: none of it does.
Refuse ==
  /\ pending # <<>>
  /\ ~Reads(Head(pending))
  /\ pending' = Tail(pending)
  /\ UNCHANGED <<store, answers>>

\* A statement is executed directly.
Direct ==
  /\ StoreGrows
  /\ Len(store') = Len(store) + 1
  /\ store'[Len(store')].direct
  /\ UNCHANGED <<pending, answers>>

\* A read sees the whole store as it is now, but for direct statements that
\* took effect after the first read of the same query.
SeesStore(read) ==
  /\ Len(read) <= Len(store)
  /\ \A i \in DOMAIN read : read[i] = store[i]
  /\ \A i \in (Len(read) + 1)..Len(store) : store[i].direct

\* The oldest operation is a query, or a holder of several.
Answer ==
  /\ pending # <<>>
  /\ Reads(Head(pending))
  /\ answers' # <<>>
  /\ LET answer == answers'[Len(answers')] IN
     /\ answers' = Append(answers, answer)
     /\ answer.no = Head(pending).no
     /\ DOMAIN answer.seen = 1..Head(pending).reads
     /\ \A r \in DOMAIN answer.seen : SeesStore(answer.seen[r])
  /\ pending' = Tail(pending)
  /\ UNCHANGED store

Next ==
  \/ HandOver
  \/ Apply
  \/ Refuse
  \/ Direct
  \/ Answer

Spec == Init /\ [][Next]_storeVars
=============================================================================
