------------------------ MODULE SocketOutput_proofs ------------------------
(***************************************************************************)
(* Proofs about SocketOutput for any senders, packets, sizes of buffers     *)
(* and high water mark: what reaches the peer is in order, and without a    *)
(* gap unless a block that is put back finds the queue full.               *)
(***************************************************************************)
EXTENDS SocketOutput, SequenceTheorems, TLAPS

Increasing(s) == \A i, j \in DOMAIN s : i < j => s[i] < s[j]
Below(s, t) == \A i \in DOMAIN s, j \in DOMAIN t : s[i] < t[j]
UpTo(s, n) == \A i \in DOMAIN s : s[i] <= n

\* What has been sent and what waits in the buffer.
SentOrder ==
  /\ Increasing(received) /\ Increasing(kernel) /\ Increasing(m_OutBuffer)
  /\ Below(received, kernel) /\ Below(received, m_OutBuffer)
  /\ Below(kernel, m_OutBuffer)
  /\ UpTo(received, encrypted) /\ UpTo(kernel, encrypted)
  /\ UpTo(m_OutBuffer, encrypted)

\* A block waits behind all of that ...
Behind(data) ==
  /\ Increasing(data) /\ UpTo(data, encrypted)
  /\ Below(received, data) /\ Below(kernel, data) /\ Below(m_OutBuffer, data)

\* ... and behind the blocks in front of it.
QueueOrder ==
  /\ \A i \in DOMAIN msg_queue : Behind(msg_queue[i].data)
  /\ \A i, j \in DOMAIN msg_queue :
       i < j => Below(msg_queue[i].data, msg_queue[j].data)

\* The queue is written only when the buffer is empty.
QueueAlone == npc = "queue" => m_OutBuffer = <<>>

IInv == TypeOK /\ SentOrder /\ QueueOrder /\ QueueAlone

-----------------------------------------------------------------------------
(* Sequences of units.                                                     *)

\* One sequence behind another is increasing if both are.
LEMMA ConcatOrder ==
  ASSUME NEW s \in Seq(Nat), NEW t \in Seq(Nat), Increasing(s), Increasing(t), Below(s, t)
  PROVE  Increasing(s \o t)
BY ConcatProperties DEF Increasing, Below

\* What is behind two sequences is behind their concatenation.
LEMMA ConcatBelow ==
  ASSUME NEW s \in Seq(Nat), NEW t \in Seq(Nat), NEW u \in Seq(Nat)
  PROVE  /\ Below(s, u) /\ Below(t, u) => Below(s \o t, u)
         /\ Below(u, s) /\ Below(u, t) => Below(u, s \o t)
<1>1. /\ DOMAIN (s \o t) = 1..Len(s) + Len(t)
      /\ \A i \in DOMAIN (s \o t) :
           \/ i \in DOMAIN s /\ (s \o t)[i] = s[i]
           \/ i - Len(s) \in DOMAIN t /\ (s \o t)[i] = t[i - Len(s)]
  BY ConcatProperties
<1> QED BY <1>1 DEF Below

\* A bound of two sequences is one of their concatenation.
LEMMA ConcatUpTo ==
  ASSUME NEW s \in Seq(Nat), NEW t \in Seq(Nat), NEW n \in Nat, UpTo(s, n), UpTo(t, n)
  PROVE  UpTo(s \o t, n)
BY ConcatProperties DEF UpTo

\* A sequence sent in part: both parts keep what holds of the whole, and the
\* first is below the second.
LEMMA Parts ==
  ASSUME NEW s \in Seq(Nat), NEW n \in Nat, n <= Len(s)
  PROVE  /\ Sent(s, n) \in Seq(Nat) /\ Rest(s, n) \in Seq(Nat)
         /\ Len(Sent(s, n)) = n /\ Len(Rest(s, n)) = Len(s) - n
         /\ Increasing(s) => /\ Increasing(Sent(s, n)) /\ Increasing(Rest(s, n))
                             /\ Below(Sent(s, n), Rest(s, n))
         /\ \A u \in Seq(Nat) : Below(u, s) => Below(u, Sent(s, n)) /\ Below(u, Rest(s, n))
         /\ \A u \in Seq(Nat) : Below(s, u) => Below(Sent(s, n), u) /\ Below(Rest(s, n), u)
         /\ \A m \in Nat : UpTo(s, m) => UpTo(Sent(s, n), m) /\ UpTo(Rest(s, n), m)
<1> DEFINE a == Sent(s, n)
           b == Rest(s, n)
<1>1. /\ a \in Seq(Nat) /\ Len(a) = n /\ DOMAIN a = 1..n
      /\ \A i \in 1..n : a[i] = s[i]
  BY DEF Sent
<1>2. /\ b \in Seq(Nat) /\ Len(b) = Len(s) - n /\ DOMAIN b = 1..(Len(s) - n)
      /\ \A i \in 1..(Len(s) - n) : b[i] = s[i + n]
  BY DEF Rest
<1> HIDE DEF a, b
<1>3. /\ \A i \in DOMAIN a : i \in DOMAIN s /\ a[i] = s[i]
      /\ \A i \in DOMAIN b : i + n \in DOMAIN s /\ b[i] = s[i + n]
      /\ \A i \in DOMAIN a, j \in DOMAIN b : i < j + n
      /\ \A i, j \in DOMAIN b : i < j => i + n < j + n
  <2>1. ASSUME NEW i \in DOMAIN a PROVE i \in DOMAIN s /\ a[i] = s[i]
    BY <1>1, <2>1
  <2>2. ASSUME NEW i \in DOMAIN b PROVE i \in Nat \ {0} /\ i + n \in 1..Len(s) /\ b[i] = s[i + n]
    <3>1. i \in 1..(Len(s) - n)
      BY <1>2, <2>2
    <3>2. b[i] = s[i + n]
      BY <1>2, <3>1
    <3>3. i \in Nat \ {0} /\ i + n \in 1..Len(s)
      BY ONLY <3>1, n \in Nat, n <= Len(s), Len(s) \in Nat
    <3> QED
      BY ONLY <3>2, <3>3
  <2>3. ASSUME NEW i \in DOMAIN a, NEW j \in DOMAIN b PROVE i < j + n
    BY ONLY <1>1, <2>2, n \in Nat, i \in DOMAIN a, j \in DOMAIN b
  <2>4. ASSUME NEW i \in DOMAIN b, NEW j \in DOMAIN b, i < j PROVE i + n < j + n
    BY ONLY <2>2, <2>4, n \in Nat, i \in DOMAIN b, j \in DOMAIN b
  <2>5. DOMAIN s = 1..Len(s)
    OBVIOUS
  <2>6. \A i \in DOMAIN b : i + n \in DOMAIN s /\ b[i] = s[i + n]
    BY ONLY <2>2, <2>5
  <2> QED
    BY ONLY <2>1, <2>3, <2>4, <2>6
<1>4. ASSUME Increasing(s)
      PROVE  Increasing(a) /\ Increasing(b) /\ Below(a, b)
  <2>1. Increasing(a)
    BY <1>3, <1>4 DEF Increasing
  <2>2. Increasing(b)
    BY <1>3, <1>4 DEF Increasing
  <2>3. Below(a, b)
    BY <1>3, <1>4 DEF Increasing, Below
  <2> QED BY <2>1, <2>2, <2>3
<1>5. \A u \in Seq(Nat) : Below(u, s) => Below(u, a) /\ Below(u, b)
  BY <1>3 DEF Below
<1>6. \A u \in Seq(Nat) : Below(s, u) => Below(a, u) /\ Below(b, u)
  BY <1>3 DEF Below
<1>7. \A m \in Nat : UpTo(s, m) => UpTo(a, m) /\ UpTo(b, m)
  BY <1>3 DEF UpTo
<1> QED BY <1>1, <1>2, <1>4, <1>5, <1>6, <1>7 DEF a, b

\* The front of t moves to the end of s: nothing changes for the others.
LEMMA MoveOrder ==
  ASSUME NEW s \in Seq(Nat), NEW t \in Seq(Nat), NEW n \in Nat, n <= Len(t),
         Increasing(s), Increasing(t), Below(s, t)
  PROVE  /\ s \o Sent(t, n) \in Seq(Nat) /\ Rest(t, n) \in Seq(Nat)
         /\ Len(Rest(t, n)) = Len(t) - n
         /\ Increasing(s \o Sent(t, n)) /\ Increasing(Rest(t, n))
         /\ Below(s \o Sent(t, n), Rest(t, n))
         /\ \A u \in Seq(Nat) : Below(s, u) /\ Below(t, u) =>
              Below(s \o Sent(t, n), u) /\ Below(Rest(t, n), u)
         /\ \A u \in Seq(Nat) : Below(u, s) /\ Below(u, t) =>
              Below(u, s \o Sent(t, n)) /\ Below(u, Rest(t, n))
         /\ \A m \in Nat : UpTo(s, m) /\ UpTo(t, m) =>
              UpTo(s \o Sent(t, n), m) /\ UpTo(Rest(t, n), m)
<1> DEFINE a == Sent(t, n)
           b == Rest(t, n)
<1>1. /\ a \in Seq(Nat) /\ b \in Seq(Nat) /\ Len(b) = Len(t) - n
      /\ Increasing(a) /\ Increasing(b) /\ Below(a, b) /\ Below(s, a) /\ Below(s, b)
      /\ \A u \in Seq(Nat) : Below(u, t) => Below(u, a) /\ Below(u, b)
      /\ \A u \in Seq(Nat) : Below(t, u) => Below(a, u) /\ Below(b, u)
      /\ \A m \in Nat : UpTo(t, m) => UpTo(a, m) /\ UpTo(b, m)
  BY Parts
<1> HIDE DEF a, b
<1>2. s \o a \in Seq(Nat)
  BY <1>1, ConcatProperties
<1>3. Increasing(s \o a) /\ Below(s \o a, b)
  BY <1>1, ConcatOrder, ConcatBelow
<1>4. \A u \in Seq(Nat) : Below(s, u) /\ Below(t, u) => Below(s \o a, u) /\ Below(b, u)
  BY <1>1, ConcatBelow
<1>5. \A u \in Seq(Nat) : Below(u, s) /\ Below(u, t) => Below(u, s \o a) /\ Below(u, b)
  BY <1>1, ConcatBelow
<1>6. \A m \in Nat : UpTo(s, m) /\ UpTo(t, m) => UpTo(s \o a, m) /\ UpTo(b, m)
  BY <1>1, ConcatUpTo
<1> QED BY <1>1, <1>2, <1>3, <1>4, <1>5, <1>6 DEF a, b

\* The units of a packet follow everything encrypted before.
LEMMA UnitsOrder ==
  ASSUME encrypted \in Nat, NEW n \in PacketSizes
  PROVE  /\ Units(n) \in Seq(Nat) /\ Len(Units(n)) = n
         /\ Increasing(Units(n)) /\ UpTo(Units(n), encrypted + n)
         /\ \A s \in Seq(Nat) : UpTo(s, encrypted) => Below(s, Units(n))
         /\ \A s \in Seq(Nat) : UpTo(s, encrypted) => UpTo(s, encrypted + n)
<1>1. n \in Nat
  BY OutputAssumption
<1>2. Units(n) \in Seq(Nat) /\ Len(Units(n)) = n /\ DOMAIN Units(n) = 1..n
      /\ \A i \in 1..n : Units(n)[i] = encrypted + i
  BY <1>1 DEF Units
<1> QED BY <1>1, <1>2 DEF Increasing, UpTo, Below
-----------------------------------------------------------------------------
(* The actions: each keeps the types and the order.                        *)

Order == SentOrder /\ QueueOrder

\* data is behind what has been sent and buffered after a step.
BehindNext(data) ==
  /\ Increasing(data) /\ UpTo(data, encrypted')
  /\ Below(received', data) /\ Below(kernel', data) /\ Below(m_OutBuffer', data)

\* QueueOrder after a step.
LEMMA QueueOrderNext ==
  ASSUME \A i \in DOMAIN msg_queue' : BehindNext(msg_queue'[i].data),
         \A i, j \in DOMAIN msg_queue' :
           i < j => Below(msg_queue'[i].data, msg_queue'[j].data)
  PROVE  QueueOrder'
BY DEF QueueOrder, Behind, BehindNext

\* What is queued is blocks.
LEMMA QueuedBlocks ==
  ASSUME TypeOK
  PROVE  \A i \in DOMAIN msg_queue :
           /\ msg_queue[i] \in Block
           /\ msg_queue[i].data \in Seq(Nat) /\ msg_queue[i].size \in Nat
           /\ Len(msg_queue[i].data) \in 1..msg_queue[i].size
<1>1. \A i \in DOMAIN msg_queue : msg_queue[i] \in Block
  BY ElementOfSeq, LenProperties DEF TypeOK
<1>2. \A b \in Block : b.data \in Seq(Nat) /\ b.size \in Nat
  BY DEF Block
<1> QED BY <1>1, <1>2 DEF TypeOK

\* Encrypting more keeps the order of what was encrypted.
LEMMA EncryptOrder ==
  ASSUME TypeOK, Order, NEW n \in PacketSizes, encrypted' = encrypted + n,
         UNCHANGED <<outVars, kernel, received>>
  PROVE  Order'
<1>1. \A s \in Seq(Nat) : UpTo(s, encrypted) => UpTo(s, encrypted')
  BY UnitsOrder DEF TypeOK
<1>2. \A i \in DOMAIN msg_queue : msg_queue[i].data \in Seq(Nat)
  BY QueuedBlocks
<1>3. SentOrder'
  BY <1>1 DEF TypeOK, Order, SentOrder, outVars
<1>4. \A i \in DOMAIN msg_queue : BehindNext(msg_queue[i].data)
  BY <1>1, <1>2 DEF Order, QueueOrder, Behind, BehindNext, outVars
<1>5. QueueOrder'
  BY <1>4, QueueOrderNext DEF Order, QueueOrder, outVars
<1> QED BY <1>3, <1>5 DEF Order

\* A packet goes behind everything.
LEMMA StoreOrder ==
  ASSUME TypeOK, Order, NEW n \in PacketSizes, Store(n), encrypted' = encrypted + n,
         UNCHANGED <<kernel, received>>
  PROVE  /\ Order'
         /\ m_OutBuffer' \in Seq(Nat) /\ Len(m_OutBuffer') <= BufferSize
         /\ msg_queue' \in Seq(Block)
         /\ \A i \in DOMAIN msg_queue' :
              Len(msg_queue'[i].data) \in 1..msg_queue'[i].size
         /\ cur_bytes_' \in Int
<1> DEFINE units == Units(n)
<1>1. /\ units \in Seq(Nat) /\ Len(units) = n
      /\ Increasing(units) /\ UpTo(units, encrypted')
      /\ \A s \in Seq(Nat) : UpTo(s, encrypted) => Below(s, units) /\ UpTo(s, encrypted')
  BY UnitsOrder DEF TypeOK
<1> HIDE DEF units
<1>2. n \in Nat \ {0} /\ encrypted' \in Nat
  BY OutputAssumption DEF TypeOK
<1>3. \A i \in DOMAIN msg_queue : msg_queue[i].data \in Seq(Nat)
  BY QueuedBlocks
<1>4. CASE Fits(n)
  <2>1. /\ m_OutBuffer' = m_OutBuffer \o units
        /\ UNCHANGED <<msg_queue, cur_bytes_>>
        /\ msg_queue = <<>>
        /\ Len(m_OutBuffer) + n <= BufferSize
    BY <1>4 DEF Store, Fits, units
  <2>2. m_OutBuffer \in Seq(Nat) /\ received \in Seq(Nat) /\ kernel \in Seq(Nat)
    BY DEF TypeOK
  <2>3. m_OutBuffer' \in Seq(Nat) /\ Len(m_OutBuffer') <= BufferSize
    BY <1>1, <1>2, <2>1, <2>2, ConcatProperties
  <2>4. /\ Below(m_OutBuffer, units) /\ Below(received, units) /\ Below(kernel, units)
        /\ UpTo(m_OutBuffer, encrypted') /\ UpTo(received, encrypted')
        /\ UpTo(kernel, encrypted')
    BY <1>1, <2>2 DEF Order, SentOrder
  <2>5. Increasing(m_OutBuffer') /\ UpTo(m_OutBuffer', encrypted')
    BY <1>1, <1>2, <2>1, <2>2, <2>4, ConcatOrder, ConcatUpTo DEF Order, SentOrder
  <2>6. Below(received, m_OutBuffer') /\ Below(kernel, m_OutBuffer')
    BY <1>1, <2>1, <2>2, <2>4, ConcatBelow DEF Order, SentOrder
  <2>7. SentOrder'
    BY <2>4, <2>5, <2>6 DEF Order, SentOrder
  <2>8. QueueOrder'
    BY <2>1, QueueOrderNext
  <2> QED BY <2>1, <2>3, <2>7, <2>8 DEF TypeOK, Order
<1>5. CASE ~Fits(n)
  <2> DEFINE block == [data |-> units, size |-> n]
  <2>1. /\ msg_queue' = Append(msg_queue, block)
        /\ cur_bytes_' = cur_bytes_ + n
        /\ UNCHANGED m_OutBuffer
    BY <1>5 DEF Store, block, units
  <2>2. block \in Block /\ block.data = units /\ block.size = n
    BY <1>1, <1>2 DEF Block, block
  <2> HIDE DEF block
  <2>3. /\ msg_queue' \in Seq(Block)
        /\ DOMAIN msg_queue' = 1..Len(msg_queue) + 1
        /\ \A i \in DOMAIN msg_queue' :
             \/ i \in DOMAIN msg_queue /\ msg_queue'[i] = msg_queue[i]
             \/ i = Len(msg_queue) + 1 /\ msg_queue'[i] = block
    BY <2>1, <2>2, AppendProperties DEF TypeOK
  <2>4. SentOrder'
    BY <1>1, <2>1 DEF TypeOK, Order, SentOrder
  <2>5. \A i \in DOMAIN msg_queue : BehindNext(msg_queue[i].data)
    BY <1>1, <1>3, <2>1 DEF Order, QueueOrder, Behind, BehindNext
  <2>6. BehindNext(units)
    BY <1>1, <2>1 DEF TypeOK, Order, SentOrder, BehindNext
  <2>7. \A i \in DOMAIN msg_queue : Below(msg_queue[i].data, units)
    BY <1>1, <1>3 DEF Order, QueueOrder, Behind
  <2>8. QueueOrder'
    <3>1. \A i \in DOMAIN msg_queue' : BehindNext(msg_queue'[i].data)
      BY <2>2, <2>3, <2>5, <2>6
    <3>2. ASSUME NEW i \in DOMAIN msg_queue', NEW j \in DOMAIN msg_queue', i < j
          PROVE  Below(msg_queue'[i].data, msg_queue'[j].data)
      <4>1. i \in DOMAIN msg_queue /\ msg_queue'[i] = msg_queue[i]
        BY <2>3, <3>2
      <4> QED BY <2>2, <2>3, <2>7, <3>2, <4>1 DEF Order, QueueOrder
    <3> QED BY <3>1, <3>2, QueueOrderNext
  <2>9. \A i \in DOMAIN msg_queue' :
          Len(msg_queue'[i].data) \in 1..msg_queue'[i].size
    BY <1>1, <1>2, <2>2, <2>3, QueuedBlocks
  <2> QED BY <1>2, <2>1, <2>3, <2>4, <2>8, <2>9 DEF TypeOK, Order
<1> QED BY <1>4, <1>5

\* A block taken from the queue leaves the rest as it was.
LEMMA DequeueOrder ==
  ASSUME TypeOK, QueueOrder, msg_queue # <<>>, msg_queue' = Tail(msg_queue),
         UNCHANGED <<encrypted, m_OutBuffer, kernel, received>>
  PROVE  QueueOrder'
<1>1. /\ DOMAIN msg_queue = 1..Len(msg_queue) /\ Len(msg_queue) \in Nat
      /\ DOMAIN msg_queue' = 1..(Len(msg_queue) - 1)
      /\ \A i \in DOMAIN msg_queue' : msg_queue'[i] = msg_queue[i + 1]
  BY HeadTailProperties DEF TypeOK
<1>2. \A i \in DOMAIN msg_queue' : i + 1 \in DOMAIN msg_queue
  BY <1>1
<1>3. \A i \in DOMAIN msg_queue' : BehindNext(msg_queue'[i].data)
  BY <1>1, <1>2 DEF QueueOrder, Behind, BehindNext
<1>4. \A i, j \in DOMAIN msg_queue' :
        i < j => Below(msg_queue'[i].data, msg_queue'[j].data)
  <2>1. \A i, j \in DOMAIN msg_queue' : i < j => i + 1 < j + 1
    BY <1>1
  <2> QED BY <1>1, <1>2, <2>1 DEF QueueOrder
<1> QED BY <1>3, <1>4, QueueOrderNext

\* A queue without its first block keeps its type.
LEMMA DequeueTypes ==
  ASSUME TypeOK, msg_queue # <<>>
  PROVE  /\ Head(msg_queue) \in Block
         /\ Len(Head(msg_queue).data) \in 1..Head(msg_queue).size
         /\ Tail(msg_queue) \in Seq(Block)
         /\ \A i \in DOMAIN Tail(msg_queue) :
              Len(Tail(msg_queue)[i].data) \in 1..Tail(msg_queue)[i].size
<1>1. /\ Head(msg_queue) \in Block /\ Head(msg_queue) = msg_queue[1]
      /\ Tail(msg_queue) \in Seq(Block) /\ 1 \in DOMAIN msg_queue
      /\ \A i \in DOMAIN Tail(msg_queue) :
           i + 1 \in DOMAIN msg_queue /\ Tail(msg_queue)[i] = msg_queue[i + 1]
  BY HeadTailProperties DEF TypeOK
<1> QED BY <1>1 DEF TypeOK

\* A part of the buffer goes to the kernel.
LEMMA BufferOrder ==
  ASSUME TypeOK, Order, NEW n \in Nat, n <= Len(m_OutBuffer),
         kernel' = kernel \o Sent(m_OutBuffer, n),
         m_OutBuffer' = Rest(m_OutBuffer, n),
         UNCHANGED <<encrypted, msg_queue, received>>
  PROVE  /\ Order' /\ kernel' \in Seq(Nat) /\ m_OutBuffer' \in Seq(Nat)
         /\ Len(m_OutBuffer') = Len(m_OutBuffer) - n
<1>1. /\ kernel \in Seq(Nat) /\ m_OutBuffer \in Seq(Nat) /\ received \in Seq(Nat)
      /\ encrypted \in Nat
  BY DEF TypeOK
<1>2. /\ Increasing(kernel) /\ Increasing(m_OutBuffer) /\ Below(kernel, m_OutBuffer)
      /\ Below(received, kernel) /\ Below(received, m_OutBuffer)
      /\ UpTo(kernel, encrypted) /\ UpTo(m_OutBuffer, encrypted)
  BY DEF Order, SentOrder
<1>3. /\ kernel' \in Seq(Nat) /\ m_OutBuffer' \in Seq(Nat)
      /\ Len(m_OutBuffer') = Len(m_OutBuffer) - n
      /\ Increasing(kernel') /\ Increasing(m_OutBuffer') /\ Below(kernel', m_OutBuffer')
      /\ Below(received, kernel') /\ Below(received, m_OutBuffer')
      /\ UpTo(kernel', encrypted) /\ UpTo(m_OutBuffer', encrypted)
      /\ \A u \in Seq(Nat) : Below(kernel, u) /\ Below(m_OutBuffer, u) =>
           Below(kernel', u) /\ Below(m_OutBuffer', u)
  BY <1>1, <1>2, MoveOrder
<1>4. SentOrder'
  BY <1>3 DEF Order, SentOrder
<1>5. \A i \in DOMAIN msg_queue : BehindNext(msg_queue[i].data)
  BY <1>3, QueuedBlocks DEF Order, QueueOrder, Behind, BehindNext
<1>6. QueueOrder'
  BY <1>5, QueueOrderNext DEF Order, QueueOrder
<1> QED BY <1>3, <1>4, <1>6 DEF Order

\* A part of the first block goes to the kernel.
LEMMA BlockSent ==
  ASSUME TypeOK, Order, m_OutBuffer = <<>>, msg_queue # <<>>,
         NEW n \in Nat, n <= Len(Head(msg_queue).data),
         kernel' = kernel \o Sent(Head(msg_queue).data, n),
         UNCHANGED <<encrypted, m_OutBuffer, received>>
  PROVE  /\ SentOrder' /\ kernel' \in Seq(Nat)
         /\ Rest(Head(msg_queue).data, n) \in Seq(Nat)
         /\ Len(Rest(Head(msg_queue).data, n)) = Len(Head(msg_queue).data) - n
         /\ BehindNext(Rest(Head(msg_queue).data, n))
         /\ \A i \in DOMAIN msg_queue \ {1} :
              /\ BehindNext(msg_queue[i].data)
              /\ Below(Rest(Head(msg_queue).data, n), msg_queue[i].data)
<1> DEFINE data == Head(msg_queue).data
<1>1. /\ 1 \in DOMAIN msg_queue /\ data = msg_queue[1].data /\ data \in Seq(Nat)
      /\ \A i \in DOMAIN msg_queue \ {1} : 1 < i
  BY QueuedBlocks, HeadTailProperties DEF TypeOK
<1>2. /\ kernel \in Seq(Nat) /\ received \in Seq(Nat) /\ encrypted \in Nat
      /\ m_OutBuffer \in Seq(Nat)
  BY DEF TypeOK
<1> HIDE DEF data
<1>3. /\ Increasing(kernel) /\ Below(received, kernel) /\ UpTo(kernel, encrypted)
      /\ Increasing(data) /\ UpTo(data, encrypted)
      /\ Below(kernel, data) /\ Below(received, data)
  BY <1>1 DEF Order, SentOrder, QueueOrder, Behind
<1>4. /\ kernel' \in Seq(Nat) /\ Rest(data, n) \in Seq(Nat)
      /\ Len(Rest(data, n)) = Len(data) - n
      /\ Increasing(kernel') /\ Increasing(Rest(data, n)) /\ Below(kernel', Rest(data, n))
      /\ Below(received, kernel') /\ Below(received, Rest(data, n))
      /\ UpTo(kernel', encrypted) /\ UpTo(Rest(data, n), encrypted)
      /\ \A u \in Seq(Nat) : Below(kernel, u) /\ Below(data, u) =>
           Below(kernel', u) /\ Below(Rest(data, n), u)
  <2>1. n <= Len(data) /\ kernel' = kernel \o Sent(data, n)
    BY DEF data
  <2> DEFINE k == kernel \o Sent(data, n)
             r == Rest(data, n)
  <2>2. /\ k \in Seq(Nat) /\ r \in Seq(Nat) /\ Len(r) = Len(data) - n
        /\ Increasing(k) /\ Increasing(r) /\ Below(k, r)
    <3>1. Increasing(kernel) /\ Increasing(data) /\ Below(kernel, data) /\ n <= Len(data)
      BY <1>3, <2>1
    <3>2. kernel \in Seq(Nat) /\ data \in Seq(Nat)
      BY <1>1, <1>2
    <3> QED BY <3>1, <3>2, MoveOrder
  <2>3. \A u \in Seq(Nat) : Below(kernel, u) /\ Below(data, u) => Below(k, u) /\ Below(r, u)
    BY <1>1, <1>2, <1>3, <2>1, MoveOrder
  <2>4. /\ Below(received, k) /\ Below(received, r)
        /\ UpTo(k, encrypted) /\ UpTo(r, encrypted)
    BY <1>1, <1>2, <1>3, <2>1, MoveOrder
  <2> QED BY <2>1, <2>2, <2>3, <2>4
<1>5. \A u : Below(m_OutBuffer, u) /\ Below(u, m_OutBuffer)
  BY DEF Below
<1>6. SentOrder'
  BY <1>4, <1>5 DEF Order, SentOrder
<1>7. BehindNext(Rest(data, n))
  BY <1>4, <1>5 DEF BehindNext
<1>8. \A i \in DOMAIN msg_queue \ {1} :
        BehindNext(msg_queue[i].data) /\ Below(Rest(data, n), msg_queue[i].data)
  BY <1>1, <1>4, <1>5, QueuedBlocks DEF Order, QueueOrder, Behind, BehindNext
<1> QED BY <1>4, <1>6, <1>7, <1>8 DEF data

\* The first block is sent and leaves the queue, whole or in part.
LEMMA BlockGone ==
  ASSUME TypeOK, Order, m_OutBuffer = <<>>, msg_queue # <<>>,
         NEW n \in Nat, n <= Len(Head(msg_queue).data),
         kernel' = kernel \o Sent(Head(msg_queue).data, n),
         msg_queue' = Tail(msg_queue),
         UNCHANGED <<encrypted, m_OutBuffer, received>>
  PROVE  Order' /\ kernel' \in Seq(Nat)
<1>1. /\ SentOrder' /\ kernel' \in Seq(Nat)
      /\ \A i \in DOMAIN msg_queue \ {1} : BehindNext(msg_queue[i].data)
  BY BlockSent
<1>2. /\ DOMAIN msg_queue = 1..Len(msg_queue) /\ Len(msg_queue) \in Nat
      /\ DOMAIN msg_queue' = 1..(Len(msg_queue) - 1)
      /\ \A i \in DOMAIN msg_queue' : msg_queue'[i] = msg_queue[i + 1]
  BY HeadTailProperties DEF TypeOK
<1>3. /\ \A i \in DOMAIN msg_queue' : i + 1 \in DOMAIN msg_queue \ {1}
      /\ \A i, j \in DOMAIN msg_queue' : i < j => i + 1 < j + 1
  BY <1>2
<1>4. \A i \in DOMAIN msg_queue' : BehindNext(msg_queue'[i].data)
  BY <1>1, <1>2, <1>3
<1>5. \A i, j \in DOMAIN msg_queue' :
        i < j => Below(msg_queue'[i].data, msg_queue'[j].data)
  BY <1>2, <1>3 DEF Order, QueueOrder
<1> QED BY <1>1, <1>4, <1>5, QueueOrderNext DEF Order

\* A block with less data, and some left, is a block.
LEMMA RestBlock ==
  ASSUME NEW b \in Block, NEW r \in Seq(Nat), Len(r) \in 1..b.size
  PROVE  /\ [b EXCEPT !.data = r] \in Block /\ [b EXCEPT !.data = r].data = r
         /\ Len([b EXCEPT !.data = r].data) \in 1..[b EXCEPT !.data = r].size
BY DEF Block

\* The first block is sent in part and put back in front.
LEMMA BlockPutBack ==
  ASSUME TypeOK, Order, m_OutBuffer = <<>>, msg_queue # <<>>,
         NEW n \in Nat, n < Len(Head(msg_queue).data),
         kernel' = kernel \o Sent(Head(msg_queue).data, n),
         msg_queue' = <<[Head(msg_queue) EXCEPT !.data = Rest(@, n)]>> \o Tail(msg_queue),
         UNCHANGED <<encrypted, m_OutBuffer, received>>
  PROVE  /\ Order' /\ kernel' \in Seq(Nat)
         /\ msg_queue' \in Seq(Block)
         /\ \A i \in DOMAIN msg_queue' :
              Len(msg_queue'[i].data) \in 1..msg_queue'[i].size
<1> DEFINE head == Head(msg_queue)
           rest == Rest(head.data, n)
           block == [head EXCEPT !.data = rest]
<1>1. /\ head \in Block /\ head.data \in Seq(Nat) /\ head.size \in Nat
      /\ Len(head.data) \in 1..head.size /\ n < Len(head.data)
  BY DequeueTypes DEF Block
<1>2. /\ SentOrder' /\ kernel' \in Seq(Nat)
      /\ rest \in Seq(Nat) /\ Len(rest) = Len(head.data) - n
      /\ BehindNext(rest)
      /\ \A i \in DOMAIN msg_queue \ {1} :
           BehindNext(msg_queue[i].data) /\ Below(rest, msg_queue[i].data)
  <2>1. n <= Len(head.data)
    BY <1>1
  <2> QED BY <2>1, BlockSent
<1> HIDE DEF rest, head
<1>3. /\ block \in Block /\ block.data = rest
      /\ Len(block.data) \in 1..block.size
  <2>1. Len(rest) \in 1..head.size
    <3>1. Len(rest) = Len(head.data) - n /\ Len(head.data) \in 1..head.size
      BY <1>1, <1>2
    <3> QED
      BY ONLY <3>1, <1>1, n \in Nat
  <2>2. head \in Block /\ rest \in Seq(Nat)
    BY <1>1, <1>2
  <2> QED BY ONLY <2>1, <2>2, RestBlock DEF block
<1>4. msg_queue' = <<block>> \o Tail(msg_queue) /\ Tail(msg_queue) \in Seq(Block)
  BY DequeueTypes DEF rest, head
<1> HIDE DEF block
<1>5. /\ DOMAIN msg_queue = 1..Len(msg_queue) /\ Len(msg_queue) \in Nat \ {0}
      /\ Len(Tail(msg_queue)) = Len(msg_queue) - 1
      /\ \A i \in 1..(Len(msg_queue) - 1) : Tail(msg_queue)[i] = msg_queue[i + 1]
  BY HeadTailProperties, LenProperties, EmptySeq DEF TypeOK
<1>6. /\ msg_queue' \in Seq(Block) /\ Len(msg_queue') = Len(msg_queue)
      /\ msg_queue'[1] = block
      /\ \A i \in 2..Len(msg_queue) : msg_queue'[i] = msg_queue[i]
  <2>1. <<block>> \in Seq(Block) /\ Len(<<block>>) = 1 /\ <<block>>[1] = block
    BY <1>3
  <2>2. /\ <<block>> \o Tail(msg_queue) \in Seq(Block)
        /\ Len(<<block>> \o Tail(msg_queue)) = 1 + Len(Tail(msg_queue))
        /\ \A i \in 1..(1 + Len(Tail(msg_queue))) :
             (<<block>> \o Tail(msg_queue))[i] =
               IF i <= 1 THEN <<block>>[i] ELSE Tail(msg_queue)[i - 1]
    BY <1>4, <2>1, ConcatProperties
  <2>3. Len(msg_queue') = Len(msg_queue) /\ msg_queue'[1] = block
    BY ONLY <1>4, <1>5, <2>1, <2>2
  <2>4. ASSUME NEW i \in 2..Len(msg_queue)
        PROVE  msg_queue'[i] = msg_queue[i]
    <3>1. i \in 1..(1 + Len(Tail(msg_queue))) /\ i - 1 \in 1..(Len(msg_queue) - 1)
          /\ ~(i <= 1) /\ (i - 1) + 1 = i
      BY ONLY <1>5, i \in 2..Len(msg_queue)
    <3>2. msg_queue'[i] = Tail(msg_queue)[i - 1]
      BY ONLY <1>4, <2>2, <3>1
    <3> QED BY ONLY <1>5, <3>1, <3>2
  <2> QED BY ONLY <1>4, <2>2, <2>3, <2>4
<1>7. /\ DOMAIN msg_queue' = 1..Len(msg_queue)
      /\ \A i \in DOMAIN msg_queue' :
           \/ i = 1 /\ msg_queue'[i] = block
           \/ i \in DOMAIN msg_queue \ {1} /\ msg_queue'[i] = msg_queue[i]
      /\ \A i, j \in DOMAIN msg_queue' : i < j => j # 1
  BY <1>5, <1>6
<1>8. \A i \in DOMAIN msg_queue' : BehindNext(msg_queue'[i].data)
  BY <1>2, <1>3, <1>7
<1>9. ASSUME NEW i \in DOMAIN msg_queue', NEW j \in DOMAIN msg_queue', i < j
      PROVE  Below(msg_queue'[i].data, msg_queue'[j].data)
  <2>1. j \in DOMAIN msg_queue \ {1} /\ msg_queue'[j] = msg_queue[j]
    BY <1>7, <1>9
  <2>2. CASE i = 1
    BY <1>2, <1>3, <1>6, <2>1, <2>2
  <2>3. CASE i # 1
    BY <1>7, <1>9, <2>1, <2>3 DEF Order, QueueOrder
  <2> QED BY <2>2, <2>3
<1>10. QueueOrder'
  BY <1>8, <1>9, QueueOrderNext
<1>11. \A i \in DOMAIN msg_queue' :
         Len(msg_queue'[i].data) \in 1..msg_queue'[i].size
  BY <1>3, <1>7, QueuedBlocks
<1> QED BY <1>2, <1>6, <1>10, <1>11 DEF Order

\* The peer reads what the kernel has held longest.
LEMMA ReadOrder ==
  ASSUME TypeOK, Order, PeerReads
  PROVE  Order' /\ kernel' \in Seq(Nat) /\ received' \in Seq(Nat)
<1>1. /\ kernel \in Seq(Nat) /\ received \in Seq(Nat) /\ m_OutBuffer \in Seq(Nat)
      /\ encrypted \in Nat /\ kernel # <<>>
      /\ received' = Append(received, Head(kernel)) /\ kernel' = Tail(kernel)
      /\ UNCHANGED <<encrypted, m_OutBuffer, msg_queue>>
  BY DEF TypeOK, PeerReads, outVars
<1>2. 1 \in Nat /\ 1 <= Len(kernel)
  BY <1>1, EmptySeq
<1>3. Sent(kernel, 1) = <<Head(kernel)>> /\ Rest(kernel, 1) = Tail(kernel)
  <2>1. Sent(kernel, 1) \in Seq(Nat) /\ Len(Sent(kernel, 1)) = 1
    BY <1>1, <1>2, Parts
  <2>2. Head(kernel) = kernel[1] /\ Head(kernel) \in Nat
    BY <1>1, HeadTailProperties
  <2>3. Sent(kernel, 1)[1] = kernel[1]
    BY <1>1, <1>2 DEF Sent
  <2>4. Sent(kernel, 1) = <<Head(kernel)>>
    BY <2>1, <2>2, <2>3
  <2> QED BY <1>1, <2>4, TailIsSubSeq DEF Rest
<1>4. received' = received \o Sent(kernel, 1) /\ kernel' = Rest(kernel, 1)
  <2>1. Head(kernel) \in Nat
    BY <1>1, HeadTailProperties
  <2>2. Append(received, Head(kernel)) = received \o <<Head(kernel)>>
    BY <1>1, <2>1, AppendIsConcat
  <2> QED BY <1>1, <1>3, <2>2
<1>5. /\ Increasing(received) /\ Increasing(kernel) /\ Below(received, kernel)
      /\ Below(received, m_OutBuffer) /\ Below(kernel, m_OutBuffer)
      /\ UpTo(received, encrypted) /\ UpTo(kernel, encrypted)
  BY DEF Order, SentOrder
<1>6. /\ received' \in Seq(Nat) /\ kernel' \in Seq(Nat)
      /\ Increasing(received') /\ Increasing(kernel') /\ Below(received', kernel')
      /\ Below(received', m_OutBuffer) /\ Below(kernel', m_OutBuffer)
      /\ UpTo(received', encrypted) /\ UpTo(kernel', encrypted)
      /\ \A u \in Seq(Nat) : Below(received, u) /\ Below(kernel, u) =>
           Below(received', u) /\ Below(kernel', u)
  <2> DEFINE k == Rest(kernel, 1)
             r == received \o Sent(kernel, 1)
  <2>1. /\ r \in Seq(Nat) /\ k \in Seq(Nat)
        /\ Increasing(r) /\ Increasing(k) /\ Below(r, k)
    BY <1>1, <1>2, <1>5, MoveOrder
  <2>2. \A u \in Seq(Nat) : Below(received, u) /\ Below(kernel, u) => Below(r, u) /\ Below(k, u)
    BY <1>1, <1>2, <1>5, MoveOrder
  <2>3. UpTo(r, encrypted) /\ UpTo(k, encrypted)
    BY <1>1, <1>2, <1>5, MoveOrder
  <2> HIDE DEF k, r
  <2>4. Below(r, m_OutBuffer) /\ Below(k, m_OutBuffer)
    BY <1>1, <1>5, <2>2
  <2> QED BY <1>4, <2>1, <2>2, <2>3, <2>4 DEF k, r
<1>7. SentOrder'
  BY <1>1, <1>6 DEF Order, SentOrder
<1>8. \A i \in DOMAIN msg_queue : BehindNext(msg_queue[i].data)
  BY <1>1, <1>6, QueuedBlocks DEF Order, QueueOrder, Behind, BehindNext
<1>9. QueueOrder'
  BY <1>1, <1>8, QueueOrderNext DEF Order, QueueOrder
<1> QED BY <1>6, <1>7, <1>9 DEF Order

-----------------------------------------------------------------------------
(* The invariant.                                                          *)

\* Initially only the challenge is in the buffer.
LEMMA InitIInv == Init => IInv
<1> SUFFICES ASSUME Init PROVE IInv
  OBVIOUS
<1>1. /\ <<1>> \in Seq(Nat) /\ Len(<<1>>) = 1 /\ DOMAIN <<1>> = {1} /\ <<1>>[1] = 1
      /\ <<>> \in Seq(Nat) /\ <<>> \in Seq(Block) /\ DOMAIN <<>> = {}
  OBVIOUS
<1>2. TypeOK
  <2>1. /\ closing_ \in BOOLEAN /\ m_OutActive \in BOOLEAN /\ wakeup \in BOOLEAN
        /\ npc \in {"idle", "output", "queue", "schedule", "cancel", "fail"}
        /\ failed \subseteq Senders
    BY DEF Init
  <2>2. encrypted \in Nat /\ cur_bytes_ \in Int
    BY DEF Init
  <2>3. m_OutBuffer \in Seq(Nat) /\ Len(m_OutBuffer) <= BufferSize
    BY <1>1, OutputAssumption DEF Init
  <2>4. /\ msg_queue \in Seq(Block) /\ kernel \in Seq(Nat) /\ received \in Seq(Nat)
        /\ DOMAIN msg_queue = {}
    BY <1>1 DEF Init
  <2> QED BY <2>1, <2>2, <2>3, <2>4 DEF TypeOK
<1>3. SentOrder
  BY <1>1 DEF Init, SentOrder, Increasing, Below, UpTo
<1>4. QueueOrder
  BY <1>1 DEF Init, QueueOrder
<1> QED BY <1>2, <1>3, <1>4 DEF Init, IInv, QueueAlone

\* What the order depends on.
orderVars == <<encrypted, m_OutBuffer, msg_queue, kernel, received>>

\* A step that leaves these alone keeps the order.
LEMMA OrderKept ==
  ASSUME Order, UNCHANGED orderVars
  PROVE  Order'
BY DEF Order, SentOrder, QueueOrder, Behind, orderVars

\* Sending keeps the invariant, also if there is no room.
LEMMA SendStep ==
  ASSUME IInv, NEW n \in PacketSizes,
         (\E t \in Senders : SendPacket(t, n)) \/ SendPong(n)
  PROVE  IInv'
<1>1. TypeOK /\ Order
  BY DEF IInv, Order
<1>2. /\ encrypted' = encrypted + n /\ encrypted' \in Nat
      /\ UNCHANGED <<closing_, m_OutActive, wakeup, kernel, received>>
      /\ failed' \subseteq Senders /\ npc' \in {npc, "fail"} /\ npc # "queue"
      /\ Store(n) \/ UNCHANGED outVars
  BY OutputAssumption DEF IInv, TypeOK, SendPacket, SendPong, Locked
<1>3. npc' \in {"idle", "output", "queue", "schedule", "cancel", "fail"} /\ npc' # "queue"
  BY <1>1, <1>2 DEF TypeOK
<1>4. CASE Store(n)
  BY <1>1, <1>2, <1>3, <1>4, StoreOrder DEF IInv, TypeOK, Order, QueueAlone
<1>5. CASE UNCHANGED outVars
  BY <1>1, <1>2, <1>3, <1>5, EncryptOrder DEF IInv, TypeOK, Order, QueueAlone, outVars
<1> QED BY <1>2, <1>4, <1>5

\* What handle_output does with the buffer keeps the invariant.
LEMMA BufferStep ==
  ASSUME IInv, NEW n \in 1..BufferSize, OutputBuffer(n)
  PROVE  IInv'
<1>1. TypeOK /\ Order
  BY DEF IInv, Order
<1>2. /\ n \in Nat /\ n <= Len(m_OutBuffer)
      /\ kernel' = kernel \o Sent(m_OutBuffer, n)
      /\ m_OutBuffer' = Rest(m_OutBuffer, n)
      /\ UNCHANGED <<closing_, encrypted, msg_queue, cur_bytes_, wakeup, failed, received>>
  BY OutputAssumption DEF OutputBuffer
<1>3. /\ Order' /\ kernel' \in Seq(Nat) /\ m_OutBuffer' \in Seq(Nat)
      /\ Len(m_OutBuffer') = Len(m_OutBuffer) - n
  BY <1>1, <1>2, BufferOrder
<1>4. /\ npc' \in {"queue", "idle", "schedule"} /\ m_OutActive' \in BOOLEAN
      /\ npc' = "queue" => n = Len(m_OutBuffer)
  BY <1>1 DEF OutputBuffer, ScheduleWakeup, TypeOK
<1>5. Len(m_OutBuffer') <= BufferSize
  BY <1>1, <1>2, <1>3, OutputAssumption DEF TypeOK
<1>6. QueueAlone'
  BY <1>1, <1>3, <1>4, EmptySeq DEF QueueAlone, TypeOK
<1> QED BY <1>1, <1>2, <1>3, <1>4, <1>5, <1>6 DEF IInv, TypeOK, Order

\* handle_output_queue keeps the invariant, whatever the kernel takes and
\* whether or not there is room for the block put back.
LEMMA QueueStep ==
  ASSUME IInv,
         \/ QueueSent \/ QueueBlocked \/ QueueError
         \/ \E n \in 1..KernelSize : QueuePart(n)
  PROVE  IInv'
<1> DEFINE block == Head(msg_queue)
<1>1. TypeOK /\ Order
  BY DEF IInv, Order
<1>2. /\ msg_queue # <<>> /\ npc = "queue" /\ m_OutBuffer = <<>>
      /\ UNCHANGED <<closing_, encrypted, m_OutBuffer, wakeup, failed, received>>
  BY DEF IInv, QueueAlone, QueueSent, QueueBlocked, QueueError, QueuePart
<1>3. /\ block \in Block /\ block.data \in Seq(Nat) /\ block.size \in Nat
      /\ Len(block.data) \in Nat
      /\ Tail(msg_queue) \in Seq(Block)
      /\ \A i \in DOMAIN Tail(msg_queue) :
           Len(Tail(msg_queue)[i].data) \in 1..Tail(msg_queue)[i].size
  BY <1>1, <1>2, DequeueTypes DEF Block
<1>4. npc' \in {"idle", "output", "schedule", "cancel", "fail"} /\ m_OutActive' \in BOOLEAN
      /\ cur_bytes_' \in Int
  <2>1. cur_bytes_' = cur_bytes_ - block.size \/ cur_bytes_' = cur_bytes_
    BY DEF QueueSent, QueueBlocked, QueueError, QueuePart
  <2>2. \/ ScheduleWakeup \/ CancelWakeup
        \/ npc' \in {"output", "fail"} /\ UNCHANGED m_OutActive
    BY DEF QueueSent, QueueBlocked, QueueError, QueuePart
  <2>3. npc' \in {"idle", "output", "schedule", "cancel", "fail"} /\ m_OutActive' \in BOOLEAN
    BY <1>1, <2>2 DEF TypeOK, ScheduleWakeup, CancelWakeup
  <2> QED BY <1>1, <1>3, <2>1, <2>3 DEF TypeOK
<1>5. /\ Order' /\ kernel' \in Seq(Nat) /\ msg_queue' \in Seq(Block)
      /\ \A i \in DOMAIN msg_queue' :
           Len(msg_queue'[i].data) \in 1..msg_queue'[i].size
  <2>1. CASE QueueSent
    <3>1. /\ kernel' = kernel \o block.data /\ msg_queue' = Tail(msg_queue)
          /\ Sent(block.data, Len(block.data)) = block.data
      BY <1>3, <2>1, SubSeqFull DEF QueueSent, Sent
    <3> DEFINE n == Len(block.data)
    <3>2. n \in Nat /\ n <= n /\ kernel' = kernel \o Sent(block.data, n)
      <4>1. n \in Nat
        BY <1>3
      <4>2. kernel' = kernel \o Sent(block.data, n)
        BY <3>1, Zenon
      <4> HIDE DEF n
      <4> QED BY <4>1, <4>2
    <3>3. Order' /\ kernel' \in Seq(Nat)
      BY <1>1, <1>2, <1>3, <3>1, <3>2, BlockGone
    <3> QED BY <1>3, <3>1, <3>3
  <2>2. CASE QueueBlocked \/ QueueError
    <3>1. /\ UNCHANGED kernel
          /\ msg_queue' = Tail(msg_queue) \/ UNCHANGED msg_queue
      BY <2>2 DEF QueueBlocked, QueueError
    <3>2. CASE msg_queue' = Tail(msg_queue)
      <4>1. SentOrder' /\ QueueOrder'
        BY <1>1, <1>2, <3>1, <3>2, DequeueOrder DEF Order, SentOrder
      <4> QED BY <1>1, <1>3, <3>1, <3>2, <4>1 DEF Order, TypeOK
    <3>3. CASE UNCHANGED msg_queue
      BY <1>1, <1>2, <3>1, <3>3, OrderKept DEF orderVars, TypeOK
    <3> QED BY <3>1, <3>2, <3>3
  <2>3. ASSUME NEW n \in 1..KernelSize, QueuePart(n)
        PROVE  /\ Order' /\ kernel' \in Seq(Nat) /\ msg_queue' \in Seq(Block)
               /\ \A i \in DOMAIN msg_queue' :
                    Len(msg_queue'[i].data) \in 1..msg_queue'[i].size
    <3>1. /\ n \in Nat /\ n < Len(block.data)
          /\ kernel' = kernel \o Sent(block.data, n)
          /\ \/ msg_queue' = <<[block EXCEPT !.data = Rest(@, n)]>> \o Tail(msg_queue)
             \/ msg_queue' = Tail(msg_queue)
      <4>1. n \in Nat
        BY OutputAssumption
      <4>2. n < Len(block.data) /\ kernel' = kernel \o Sent(block.data, n)
        BY <2>3 DEF QueuePart
      <4>3. \/ msg_queue' = <<[block EXCEPT !.data = Rest(block.data, n)]>> \o Tail(msg_queue)
            \/ msg_queue' = Tail(msg_queue)
        BY <2>3 DEF QueuePart
      <4> QED BY <4>1, <4>2, <4>3
    <3>2. CASE msg_queue' = Tail(msg_queue)
      <4>1. n <= Len(block.data)
        BY <1>3, <3>1
      <4>2. Order' /\ kernel' \in Seq(Nat)
        BY <1>1, <1>2, <3>1, <3>2, <4>1, BlockGone
      <4> QED BY <1>3, <3>2, <4>2
    <3>3. CASE msg_queue' = <<[block EXCEPT !.data = Rest(@, n)]>> \o Tail(msg_queue)
      BY <1>1, <1>2, <3>1, <3>3, BlockPutBack
    <3> QED BY <3>1, <3>2, <3>3
  <2> QED BY <2>1, <2>2, <2>3
<1> QED BY <1>1, <1>2, <1>4, <1>5 DEF IInv, TypeOK, Order, QueueAlone

\* All other steps of the network thread and the closing of the socket leave
\* what is sent alone.
LEMMA OtherStep ==
  ASSUME IInv,
         \/ \E t \in Senders : CloseFailed(t)
         \/ CloseSocket \/ Update \/ OutputEvent \/ OutputClosed \/ OutputEmpty
         \/ OutputBlocked \/ OutputError \/ QueueEmpty
         \/ ReactorSchedule \/ ReactorCancel \/ Fail
  PROVE  IInv'
<1>1. TypeOK /\ Order
  BY DEF IInv, Order
<1>2. UNCHANGED orderVars /\ UNCHANGED cur_bytes_
  BY DEF orderVars, outVars, CloseFailed, CloseSocket, Update, OutputEvent, OutputClosed,
         OutputEmpty, OutputBlocked, OutputError, QueueEmpty, ReactorSchedule,
         ReactorCancel, Fail
<1>3. /\ closing_' \in BOOLEAN /\ m_OutActive' \in BOOLEAN /\ wakeup' \in BOOLEAN
      /\ failed' \subseteq Senders
      /\ npc' \in {"idle", "output", "queue", "schedule", "cancel", "fail"}
      /\ npc' = "queue" => npc = "queue" \/ m_OutBuffer = <<>>
  BY <1>1 DEF TypeOK, CloseFailed, CloseSocket, Update, OutputEvent, OutputClosed,
         OutputEmpty, OutputBlocked, OutputError, QueueEmpty, ReactorSchedule,
         ReactorCancel, Fail, ScheduleWakeup, CancelWakeup
<1>4. TypeOK'
  BY <1>1, <1>2, <1>3 DEF TypeOK, orderVars
<1>5. QueueAlone'
  BY <1>2, <1>3 DEF IInv, QueueAlone, orderVars
<1> QED BY <1>1, <1>2, <1>4, <1>5, OrderKept DEF IInv, Order

\* Every step keeps the invariant, ...
LEMMA StepIInv == IInv /\ [Next]_vars => IInv'
<1> SUFFICES ASSUME IInv, [Next]_vars PROVE IInv'
  OBVIOUS
<1>1. CASE \E n \in PacketSizes : (\E t \in Senders : SendPacket(t, n)) \/ SendPong(n)
  BY <1>1, SendStep
<1>2. CASE \E n \in 1..BufferSize : OutputBuffer(n)
  BY <1>2, BufferStep
<1>3. CASE \/ QueueSent \/ QueueBlocked \/ QueueError
           \/ \E n \in 1..KernelSize : QueuePart(n)
  BY <1>3, QueueStep
<1>4. CASE \/ \E t \in Senders : CloseFailed(t)
           \/ CloseSocket \/ Update \/ OutputEvent \/ OutputClosed \/ OutputEmpty
           \/ OutputBlocked \/ OutputError \/ QueueEmpty
           \/ ReactorSchedule \/ ReactorCancel \/ Fail
  BY <1>4, OtherStep
<1>5. CASE PeerReads
  <2>1. Order' /\ kernel' \in Seq(Nat) /\ received' \in Seq(Nat)
    BY <1>5, ReadOrder DEF IInv, Order
  <2>2. UNCHANGED <<closing_, encrypted, outVars, m_OutActive, wakeup, npc, failed>>
    BY <1>5 DEF PeerReads
  <2> QED BY <2>1, <2>2 DEF IInv, TypeOK, Order, QueueAlone, outVars
<1>6. CASE UNCHANGED vars
  <2>1. Order'
    BY <1>6, OrderKept DEF IInv, Order, vars, orderVars
  <2> QED BY <1>6, <2>1 DEF IInv, TypeOK, Order, QueueAlone, vars
<1> QED BY <1>1, <1>2, <1>3, <1>4, <1>5, <1>6 DEF Next, NetworkThread

\* ... and so it always holds.
THEOREM Invariance == Spec => []IInv
BY InitIInv, StepIInv, PTL DEF Spec

\* Every variable keeps its type (TypeOK): the buffer never overflows, and a
\* queued block always has data.
THEOREM TypeCorrect == Spec => []TypeOK
<1>1. IInv => TypeOK
  BY DEF IInv
<1> QED BY <1>1, Invariance, PTL

\* What the peer gets is in the order of encryption, none of it twice
\* (InOrder), for every size of packets, buffer and kernel, and also where
\* the high water mark loses blocks.
THEOREM DeliveredInOrder == Spec => []InOrder
<1>1. IInv => InOrder
  <2> SUFFICES ASSUME IInv PROVE InOrder
    OBVIOUS
  <2>1. /\ received \in Seq(Nat) /\ kernel \in Seq(Nat)
        /\ Increasing(received) /\ Increasing(kernel) /\ Below(received, kernel)
    BY DEF IInv, TypeOK, SentOrder
  <2>2. Increasing(received \o kernel)
    BY <2>1, ConcatOrder
  <2> QED BY <2>2 DEF InOrder, Increasing
<1> QED BY <1>1, Invariance, PTL

-----------------------------------------------------------------------------
(* The channel: no unit is left out before the connection ends, unless a    *)
(* block is not put back for want of room.                                 *)

In(u, s) == \E i \in DOMAIN s : s[i] = u
InQueue(u, q) == \E i \in DOMAIN q : In(u, q[i].data)

\* The units that the connection holds, received or on their way.
Held(u) ==
  \/ In(u, received) \/ In(u, kernel) \/ In(u, m_OutBuffer)
  \/ InQueue(u, msg_queue)

\* Every unit held has a number, and every number encrypted is held.
Complete ==
  /\ \A u : Held(u) => u \in 1..encrypted
  /\ ~Ending => \A u \in 1..encrypted : Held(u)

\* The block that QueueBlocked puts back finds the queue full.
PutBackLost == QueueBlocked /\ is_full_i(cur_bytes_ - Head(msg_queue).size)

\* A unit of two sequences is one of their concatenation.
LEMMA InConcat ==
  ASSUME NEW s \in Seq(Nat), NEW t \in Seq(Nat), NEW u
  PROVE  In(u, s \o t) <=> In(u, s) \/ In(u, t)
<1>1. /\ s \o t \in Seq(Nat) /\ Len(s \o t) = Len(s) + Len(t)
      /\ \A i \in 1..(Len(s) + Len(t)) :
           (s \o t)[i] = IF i <= Len(s) THEN s[i] ELSE t[i - Len(s)]
  BY ConcatProperties
<1>2. /\ DOMAIN s = 1..Len(s) /\ DOMAIN t = 1..Len(t) /\ Len(s) \in Nat /\ Len(t) \in Nat
      /\ DOMAIN (s \o t) = 1..(Len(s) + Len(t))
  BY <1>1, LenProperties
<1>3. /\ \A i \in DOMAIN s : i \in DOMAIN (s \o t) /\ (s \o t)[i] = s[i]
      /\ \A i \in DOMAIN t :
           i + Len(s) \in DOMAIN (s \o t) /\ (s \o t)[i + Len(s)] = t[i]
      /\ \A i \in DOMAIN (s \o t) :
           \/ i \in DOMAIN s /\ (s \o t)[i] = s[i]
           \/ i - Len(s) \in DOMAIN t /\ (s \o t)[i] = t[i - Len(s)]
  BY <1>1, <1>2
<1> QED BY ONLY <1>3 DEF In

\* A sequence sent in part: every unit is in one of its parts.
LEMMA InParts ==
  ASSUME NEW s \in Seq(Nat), NEW n \in Nat, n <= Len(s), NEW u
  PROVE  In(u, s) <=> In(u, Sent(s, n)) \/ In(u, Rest(s, n))
<1>1. /\ DOMAIN s = 1..Len(s) /\ Len(s) \in Nat
      /\ DOMAIN Sent(s, n) = 1..n
      /\ \A i \in 1..n : Sent(s, n)[i] = s[i]
  BY DEF Sent
<1>2. /\ DOMAIN Rest(s, n) = 1..(Len(s) - n)
      /\ \A i \in 1..(Len(s) - n) : Rest(s, n)[i] = s[i + n]
  BY DEF Rest
<1>3. /\ \A i \in 1..n : i \in 1..Len(s)
      /\ \A i \in 1..(Len(s) - n) : i + n \in 1..Len(s)
      /\ \A i \in 1..Len(s) : i \in 1..n \/ (i - n \in 1..(Len(s) - n) /\ (i - n) + n = i)
  BY ONLY n \in Nat, n <= Len(s), Len(s) \in Nat
<1>4. ASSUME NEW i \in DOMAIN s PROVE In(s[i], Sent(s, n)) \/ In(s[i], Rest(s, n))
  <2>1. CASE i \in 1..n
    BY ONLY <1>1, <2>1 DEF In
  <2>2. CASE i - n \in 1..(Len(s) - n) /\ (i - n) + n = i
    BY ONLY <1>2, <2>2 DEF In
  <2> QED BY ONLY <1>1, <1>3, <2>1, <2>2, i \in DOMAIN s
<1>5. In(u, Sent(s, n)) => In(u, s)
  BY ONLY <1>1, <1>3 DEF In
<1>6. In(u, Rest(s, n)) => In(u, s)
  BY ONLY <1>1, <1>2, <1>3 DEF In
<1>7. In(u, s) => \E i \in DOMAIN s : u = s[i]
  BY DEF In
<1> QED BY ONLY <1>4, <1>5, <1>6, <1>7

\* The front of t moves to the end of s: nothing is lost.
LEMMA InMove ==
  ASSUME NEW s \in Seq(Nat), NEW t \in Seq(Nat), NEW n \in Nat, n <= Len(t), NEW u
  PROVE  In(u, s \o Sent(t, n)) \/ In(u, Rest(t, n)) <=> In(u, s) \/ In(u, t)
<1>1. Sent(t, n) \in Seq(Nat)
  BY Parts
<1>2. In(u, s \o Sent(t, n)) <=> In(u, s) \/ In(u, Sent(t, n))
  BY <1>1, InConcat
<1>3. In(u, t) <=> In(u, Sent(t, n)) \/ In(u, Rest(t, n))
  BY InParts
<1> QED BY ONLY <1>2, <1>3

\* The units of a packet are the next numbers.
LEMMA InUnits ==
  ASSUME encrypted \in Nat, NEW n \in PacketSizes, NEW u
  PROVE  In(u, Units(n)) <=> u \in (encrypted + 1)..(encrypted + n)
<1>1. n \in Nat
  BY OutputAssumption
<1>2. DOMAIN Units(n) = 1..n /\ \A i \in 1..n : Units(n)[i] = encrypted + i
  BY <1>1 DEF Units
<1>3. \A i \in 1..n : encrypted + i \in (encrypted + 1)..(encrypted + n)
  BY <1>1
<1>4. u \in (encrypted + 1)..(encrypted + n) =>
        u - encrypted \in 1..n /\ encrypted + (u - encrypted) = u
  BY <1>1
<1> QED BY ONLY <1>2, <1>3, <1>4 DEF In

\* A queue is its first block and the others.
LEMMA InHeadTail ==
  ASSUME TypeOK, msg_queue # <<>>, NEW u
  PROVE  InQueue(u, msg_queue) <=>
           In(u, Head(msg_queue).data) \/ InQueue(u, Tail(msg_queue))
<1>1. /\ Head(msg_queue) = msg_queue[1] /\ Len(msg_queue) \in Nat \ {0}
      /\ DOMAIN msg_queue = 1..Len(msg_queue)
      /\ DOMAIN Tail(msg_queue) = 1..(Len(msg_queue) - 1)
      /\ \A i \in 1..(Len(msg_queue) - 1) : Tail(msg_queue)[i] = msg_queue[i + 1]
  BY HeadTailProperties, LenProperties, EmptySeq DEF TypeOK
<1>2. /\ 1 \in DOMAIN msg_queue
      /\ \A i \in 1..(Len(msg_queue) - 1) : i + 1 \in DOMAIN msg_queue
      /\ \A i \in DOMAIN msg_queue :
           i = 1 \/ (i - 1 \in 1..(Len(msg_queue) - 1) /\ (i - 1) + 1 = i)
  BY <1>1
<1> QED BY ONLY <1>1, <1>2 DEF InQueue

\* A sequence with one more element in front.
LEMMA FrontOf ==
  ASSUME NEW b, NEW q \in Seq(Block), b \in Block
  PROVE  /\ <<b>> \o q \in Seq(Block) /\ <<b>> \o q # q
         /\ DOMAIN (<<b>> \o q) = 1..(1 + Len(q))
         /\ \A i \in 1..(1 + Len(q)) : (<<b>> \o q)[i] = IF i = 1 THEN b ELSE q[i - 1]
<1>1. <<b>> \in Seq(Block) /\ Len(<<b>>) = 1 /\ <<b>>[1] = b
  OBVIOUS
<1>2. /\ <<b>> \o q \in Seq(Block) /\ Len(<<b>> \o q) = 1 + Len(q)
      /\ \A i \in 1..(1 + Len(q)) :
           (<<b>> \o q)[i] = IF i <= 1 THEN <<b>>[i] ELSE q[i - 1]
  BY <1>1, ConcatProperties
<1>3. Len(q) \in Nat /\ DOMAIN (<<b>> \o q) = 1..(1 + Len(q))
  BY <1>2, LenProperties
<1>4. <<b>> \o q # q
  BY ONLY <1>2, <1>3
<1>5. ASSUME NEW i \in 1..(1 + Len(q))
      PROVE  (<<b>> \o q)[i] = IF i = 1 THEN b ELSE q[i - 1]
  <2>1. i <= 1 <=> i = 1
    BY <1>3
  <2> QED BY ONLY <1>1, <1>2, <2>1, i \in 1..(1 + Len(q))
<1> QED BY <1>2, <1>3, <1>4, <1>5

\* A block put in front of others.
LEMMA InFront ==
  ASSUME NEW b \in Block, NEW q \in Seq(Block), NEW u
  PROVE  InQueue(u, <<b>> \o q) <=> In(u, b.data) \/ InQueue(u, q)
<1>1. /\ DOMAIN (<<b>> \o q) = 1..(1 + Len(q))
      /\ \A i \in 1..(1 + Len(q)) : (<<b>> \o q)[i] = IF i = 1 THEN b ELSE q[i - 1]
  BY FrontOf
<1>2. DOMAIN q = 1..Len(q) /\ Len(q) \in Nat
  BY LenProperties
<1>3. /\ 1 \in 1..(1 + Len(q))
      /\ \A i \in 1..Len(q) : i + 1 \in 1..(1 + Len(q)) /\ i + 1 # 1 /\ (i + 1) - 1 = i
      /\ \A i \in 1..(1 + Len(q)) : i = 1 \/ i - 1 \in 1..Len(q)
  BY <1>2
<1>4. /\ (<<b>> \o q)[1] = b
      /\ \A i \in 1..Len(q) : (<<b>> \o q)[i + 1] = q[i]
      /\ \A i \in 1..(1 + Len(q)) :
           i = 1 \/ (i - 1 \in 1..Len(q) /\ (<<b>> \o q)[i] = q[i - 1])
  BY ONLY <1>1, <1>3
<1>5. InQueue(u, <<b>> \o q) => In(u, b.data) \/ InQueue(u, q)
  BY ONLY <1>1, <1>2, <1>4 DEF InQueue
<1>6. In(u, b.data) => InQueue(u, <<b>> \o q)
  BY ONLY <1>1, <1>3, <1>4 DEF InQueue
<1>7. InQueue(u, q) => InQueue(u, <<b>> \o q)
  BY ONLY <1>1, <1>2, <1>3, <1>4 DEF InQueue
<1> QED BY ONLY <1>5, <1>6, <1>7

\* A block put at the end of a queue.
LEMMA InAppend ==
  ASSUME NEW b \in Block, NEW q \in Seq(Block), NEW u
  PROVE  InQueue(u, Append(q, b)) <=> InQueue(u, q) \/ In(u, b.data)
<1>1. /\ DOMAIN q = 1..Len(q) /\ Len(q) \in Nat
      /\ DOMAIN Append(q, b) = 1..(Len(q) + 1)
      /\ \A i \in 1..Len(q) : Append(q, b)[i] = q[i]
      /\ Append(q, b)[Len(q) + 1] = b
  BY AppendProperties, LenProperties
<1>2. /\ Len(q) + 1 \in 1..(Len(q) + 1)
      /\ \A i \in 1..Len(q) : i \in 1..(Len(q) + 1)
      /\ \A i \in 1..(Len(q) + 1) : i \in 1..Len(q) \/ i = Len(q) + 1
  BY <1>1
<1> QED BY ONLY <1>1, <1>2 DEF InQueue

\* What a step that encrypts a unit or moves it does: what is held after it
\* was held before or is new, ...
NoneAppears == \A u : Held(u)' => Held(u) \/ u \in (encrypted + 1)..encrypted'
\* ... and nothing that was held, and nothing new, is left out.
NoneLost == \A u : Held(u) \/ u \in (encrypted + 1)..encrypted' => Held(u)'

\* A step that leaves all units where they are.
LEMMA HeldKept ==
  ASSUME UNCHANGED orderVars, encrypted \in Nat
  PROVE  NoneAppears /\ NoneLost
<1>1. \A u : Held(u)' <=> Held(u)
  BY DEF Held, orderVars
<1>2. \A u : ~(u \in (encrypted + 1)..encrypted')
  BY DEF orderVars
<1> QED BY <1>1, <1>2 DEF NoneAppears, NoneLost

\* Sending: the units are stored, or the connection ends.
LEMMA HeldSend ==
  ASSUME IInv, NEW n \in PacketSizes,
         (\E t \in Senders : SendPacket(t, n)) \/ SendPong(n)
  PROVE  /\ encrypted' \in Nat /\ encrypted' > encrypted
         /\ NoneAppears /\ (~Ending' => NoneLost)
         /\ UNCHANGED received /\ (Ending => Ending')
<1>1. n \in Nat \ {0} /\ encrypted \in Nat /\ encrypted' = encrypted + n
  BY OutputAssumption DEF IInv, TypeOK, SendPacket, SendPong
<1>2. UNCHANGED <<kernel, received>>
  BY DEF SendPacket, SendPong
<1>3. \/ Store(n) /\ UNCHANGED <<closing_, failed, npc>>
      \/ UNCHANGED outVars /\ Ending'
  BY DEF SendPacket, SendPong, Ending
<1>4. \A u : In(u, Units(n)) <=> u \in (encrypted + 1)..encrypted'
  BY <1>1, InUnits
<1>5. NoneAppears /\ (~Ending' => NoneLost)
  <2>1. CASE Store(n) /\ Fits(n)
    <3>1. /\ m_OutBuffer' = m_OutBuffer \o Units(n)
          /\ UNCHANGED msg_queue
      BY <2>1 DEF Store
    <3>2. \A u : In(u, m_OutBuffer') <=> In(u, m_OutBuffer) \/ In(u, Units(n))
      BY <1>1, <3>1, InConcat, UnitsOrder DEF IInv, TypeOK
    <3>3. \A u : Held(u)' <=> Held(u) \/ In(u, Units(n))
      BY <1>2, <3>1, <3>2 DEF Held
    <3> QED BY <1>4, <3>3 DEF NoneAppears, NoneLost
  <2>2. CASE Store(n) /\ ~Fits(n)
    <3> DEFINE block == [data |-> Units(n), size |-> n]
    <3>1. /\ msg_queue' = Append(msg_queue, block)
          /\ UNCHANGED m_OutBuffer
      BY <2>2 DEF Store
    <3>2. block \in Block /\ block.data = Units(n)
      BY <1>1, UnitsOrder DEF Block
    <3> HIDE DEF block
    <3>3. \A u : InQueue(u, msg_queue') <=> InQueue(u, msg_queue) \/ In(u, Units(n))
      BY <3>1, <3>2, InAppend DEF IInv, TypeOK
    <3>4. \A u : Held(u)' <=> Held(u) \/ In(u, Units(n))
      BY <1>2, <3>1, <3>3 DEF Held
    <3> QED BY <1>4, <3>4 DEF NoneAppears, NoneLost
  <2>3. CASE UNCHANGED outVars /\ Ending'
    <3>1. \A u : Held(u)' <=> Held(u)
      BY <1>2, <2>3 DEF Held, outVars
    <3> QED BY <2>3, <3>1 DEF NoneAppears
  <2> QED BY <1>3, <2>1, <2>2, <2>3
<1>6. Ending => Ending'
  BY <1>3 DEF Ending
<1>7. encrypted' \in Nat /\ encrypted' > encrypted
  BY ONLY <1>1
<1> QED BY <1>2, <1>5, <1>6, <1>7

\* The buffer is sent in part or whole.
LEMMA HeldBuffer ==
  ASSUME IInv, NEW n \in 1..BufferSize, OutputBuffer(n)
  PROVE  NoneAppears /\ NoneLost
<1>1. /\ n \in Nat /\ n <= Len(m_OutBuffer)
      /\ kernel' = kernel \o Sent(m_OutBuffer, n)
      /\ m_OutBuffer' = Rest(m_OutBuffer, n)
      /\ UNCHANGED <<encrypted, msg_queue, received>>
  BY OutputAssumption DEF OutputBuffer
<1>2. \A u : In(u, kernel') \/ In(u, m_OutBuffer') <=> In(u, kernel) \/ In(u, m_OutBuffer)
  BY <1>1, InMove DEF IInv, TypeOK
<1>3. \A u : Held(u)' <=> Held(u)
  BY <1>1, <1>2 DEF Held
<1>4. \A u : ~(u \in (encrypted + 1)..encrypted')
  BY <1>1 DEF IInv, TypeOK
<1> QED BY <1>3, <1>4 DEF NoneAppears, NoneLost

\* A block is sent whole.
LEMMA HeldQueueSent ==
  ASSUME IInv, QueueSent
  PROVE  NoneAppears /\ NoneLost
<1> DEFINE data == Head(msg_queue).data
<1>1. /\ msg_queue # <<>> /\ kernel' = kernel \o data /\ msg_queue' = Tail(msg_queue)
      /\ UNCHANGED <<encrypted, m_OutBuffer, received>>
  BY DEF QueueSent
<1>2. data \in Seq(Nat)
  BY <1>1, DequeueTypes DEF IInv, Block
<1>3. \A u : InQueue(u, msg_queue) <=> In(u, data) \/ InQueue(u, msg_queue')
  BY <1>1, InHeadTail DEF IInv
<1> HIDE DEF data
<1>4. \A u : In(u, kernel') <=> In(u, kernel) \/ In(u, data)
  BY <1>1, <1>2, InConcat DEF IInv, TypeOK
<1>5. \A u : Held(u)' <=> Held(u)
  BY <1>1, <1>3, <1>4 DEF Held
<1>6. \A u : ~(u \in (encrypted + 1)..encrypted')
  BY <1>1 DEF IInv, TypeOK
<1> QED BY <1>5, <1>6 DEF NoneAppears, NoneLost

\* A block is sent in part: the rest is put back, or the connection ends.
LEMMA HeldQueuePart ==
  ASSUME IInv, NEW n \in 1..KernelSize, QueuePart(n)
  PROVE  NoneAppears /\ (~Ending' => NoneLost)
<1> DEFINE head == Head(msg_queue)
           rest == Rest(head.data, n)
           block == [head EXCEPT !.data = rest]
<1>1. /\ msg_queue # <<>> /\ n \in Nat /\ n < Len(head.data)
      /\ kernel' = kernel \o Sent(head.data, n)
      /\ UNCHANGED <<encrypted, m_OutBuffer, received>>
      /\ \/ msg_queue' = <<block>> \o Tail(msg_queue)
         \/ msg_queue' = Tail(msg_queue) /\ npc' = "fail"
  <2>1. n \in Nat
    BY OutputAssumption
  <2>2. /\ msg_queue # <<>> /\ n < Len(head.data)
        /\ kernel' = kernel \o Sent(head.data, n)
        /\ UNCHANGED <<encrypted, m_OutBuffer, received>>
    BY DEF QueuePart
  <2>3. \/ msg_queue' = <<[head EXCEPT !.data = Rest(head.data, n)]>> \o Tail(msg_queue)
        \/ msg_queue' = Tail(msg_queue) /\ npc' = "fail"
    BY DEF QueuePart
  <2> QED BY <2>1, <2>2, <2>3
<1>2. /\ head \in Block /\ head.data \in Seq(Nat) /\ Len(head.data) \in 1..head.size
      /\ Tail(msg_queue) \in Seq(Block)
  BY <1>1, DequeueTypes DEF IInv, Block
<1>3. \A u : InQueue(u, msg_queue) <=> In(u, head.data) \/ InQueue(u, Tail(msg_queue))
  BY <1>1, InHeadTail DEF IInv
<1>4. n <= Len(head.data)
  BY <1>1, <1>2
<1>5. /\ rest \in Seq(Nat) /\ Len(rest) = Len(head.data) - n
      /\ Sent(head.data, n) \in Seq(Nat)
  BY <1>1, <1>2, <1>4, Parts
<1>6. \A u : In(u, head.data) <=> In(u, Sent(head.data, n)) \/ In(u, rest)
  BY <1>1, <1>2, <1>4, InParts
<1>7. \A u : In(u, kernel') <=> In(u, kernel) \/ In(u, Sent(head.data, n))
  BY <1>1, <1>5, InConcat DEF IInv, TypeOK
<1>8. Len(rest) \in 1..head.size
  <2>1. Len(head.data) \in 1..head.size /\ n < Len(head.data) /\ n \in Nat /\ head.size \in Nat
    BY <1>1, <1>2 DEF Block
  <2> QED BY ONLY <1>5, <2>1
<1> HIDE DEF head, rest
<1>9. block \in Block /\ block.data = rest
  BY <1>2, <1>5, <1>8, RestBlock
<1> HIDE DEF block
<1>10. CASE msg_queue' = <<block>> \o Tail(msg_queue)
  <2>1. \A u : InQueue(u, msg_queue') <=> In(u, rest) \/ InQueue(u, Tail(msg_queue))
    BY <1>2, <1>9, <1>10, InFront
  <2>2. \A u : Held(u)' <=> Held(u)
    BY <1>1, <1>3, <1>6, <1>7, <2>1 DEF Held
  <2>3. \A u : ~(u \in (encrypted + 1)..encrypted')
    BY <1>1 DEF IInv, TypeOK
  <2> QED BY <2>2, <2>3 DEF NoneAppears, NoneLost
<1>11. CASE msg_queue' = Tail(msg_queue) /\ npc' = "fail"
  <2>1. \A u : Held(u)' => Held(u)
    BY <1>1, <1>3, <1>6, <1>7, <1>11 DEF Held
  <2> QED BY <1>11, <2>1 DEF NoneAppears, Ending
<1> QED BY <1>1, <1>10, <1>11

\* The block taken from the queue is not sent: it is put back, or the
\* connection ends, or it is lost for want of room.
LEMMA HeldQueueBack ==
  ASSUME IInv, QueueBlocked \/ QueueError
  PROVE  NoneAppears /\ (~Ending' /\ ~PutBackLost => NoneLost)
<1>1. /\ msg_queue # <<>>
      /\ UNCHANGED <<encrypted, m_OutBuffer, kernel, received>>
      /\ \/ UNCHANGED msg_queue
         \/ msg_queue' = Tail(msg_queue) /\ (Ending' \/ PutBackLost)
  BY DEF QueueBlocked, QueueError, PutBackLost, Ending
<1>2. CASE UNCHANGED msg_queue
  BY <1>1, <1>2, HeldKept DEF orderVars, IInv, TypeOK
<1>3. CASE msg_queue' = Tail(msg_queue) /\ (Ending' \/ PutBackLost)
  <2>1. \A u : InQueue(u, msg_queue') => InQueue(u, msg_queue)
    BY <1>1, <1>3, InHeadTail DEF IInv
  <2>2. \A u : Held(u)' => Held(u)
    BY <1>1, <2>1 DEF Held
  <2> QED BY <1>3, <2>2 DEF NoneAppears
<1> QED BY <1>1, <1>2, <1>3

\* The peer takes what the kernel held.
LEMMA HeldRead ==
  ASSUME IInv, PeerReads
  PROVE  NoneAppears /\ NoneLost
<1>1. /\ kernel \in Seq(Nat) /\ kernel # <<>> /\ received \in Seq(Nat)
      /\ received' = Append(received, Head(kernel)) /\ kernel' = Tail(kernel)
      /\ UNCHANGED <<encrypted, m_OutBuffer, msg_queue>>
  BY DEF PeerReads, outVars, IInv, TypeOK
<1>2. /\ Head(kernel) = kernel[1] /\ DOMAIN kernel = 1..Len(kernel)
      /\ Len(kernel) \in Nat \ {0} /\ Head(kernel) \in Nat
      /\ DOMAIN Tail(kernel) = 1..(Len(kernel) - 1)
      /\ \A i \in 1..(Len(kernel) - 1) : Tail(kernel)[i] = kernel[i + 1]
  BY <1>1, HeadTailProperties, LenProperties, EmptySeq
<1>3. \A u : In(u, kernel) <=> u = Head(kernel) \/ In(u, Tail(kernel))
  <2>1. /\ 1 \in DOMAIN kernel
        /\ \A i \in 1..(Len(kernel) - 1) : i + 1 \in DOMAIN kernel
        /\ \A i \in DOMAIN kernel :
             i = 1 \/ (i - 1 \in 1..(Len(kernel) - 1) /\ (i - 1) + 1 = i)
    BY <1>2
  <2> QED BY ONLY <1>2, <2>1 DEF In
<1>4. \A u : In(u, received') <=> In(u, received) \/ u = Head(kernel)
  <2>1. /\ DOMAIN received = 1..Len(received) /\ Len(received) \in Nat
        /\ DOMAIN received' = 1..(Len(received) + 1)
        /\ \A i \in 1..Len(received) : received'[i] = received[i]
        /\ received'[Len(received) + 1] = Head(kernel)
    BY <1>1, <1>2, AppendProperties, LenProperties
  <2>2. /\ Len(received) + 1 \in 1..(Len(received) + 1)
        /\ \A i \in 1..Len(received) : i \in 1..(Len(received) + 1)
        /\ \A i \in 1..(Len(received) + 1) : i \in 1..Len(received) \/ i = Len(received) + 1
    BY <2>1
  <2> QED BY ONLY <2>1, <2>2 DEF In
<1>5. \A u : Held(u)' <=> Held(u)
  BY <1>1, <1>3, <1>4 DEF Held
<1>6. \A u : ~(u \in (encrypted + 1)..encrypted')
  BY <1>1 DEF IInv, TypeOK
<1> QED BY <1>5, <1>6 DEF NoneAppears, NoneLost

\* The steps that move no unit.
Standing ==
  \/ \E t \in Senders : CloseFailed(t)
  \/ CloseSocket \/ Update \/ OutputEvent \/ OutputClosed \/ OutputEmpty
  \/ OutputBlocked \/ OutputError \/ QueueEmpty
  \/ ReactorSchedule \/ ReactorCancel \/ Fail

\* A connection that ends goes on doing so.
LEMMA EndingLasts ==
  ASSUME IInv, [Next]_vars, Ending
  PROVE  Ending'
<1>1. CASE \E n \in PacketSizes : (\E t \in Senders : SendPacket(t, n)) \/ SendPong(n)
  BY <1>1, HeldSend
<1>2. CASE Standing
  BY <1>2 DEF Standing, Ending, CloseFailed, CloseSocket, Update, OutputEvent, OutputClosed,
         OutputEmpty, OutputBlocked, OutputError, QueueEmpty, ReactorSchedule,
         ReactorCancel, Fail, ScheduleWakeup, CancelWakeup
<1>3. CASE \/ \E n \in 1..BufferSize : OutputBuffer(n)
           \/ QueueSent \/ QueueBlocked \/ QueueError
           \/ \E n \in 1..KernelSize : QueuePart(n)
  BY <1>3 DEF Ending, OutputBuffer, QueueSent, QueueBlocked, QueueError, QueuePart
<1>4. CASE PeerReads \/ UNCHANGED vars
  BY <1>4 DEF Ending, PeerReads, vars
<1> QED BY <1>1, <1>2, <1>3, <1>4 DEF Next, NetworkThread, Standing

\* Initially the challenge is held.
LEMMA InitComplete == Init => Complete
<1> SUFFICES ASSUME Init PROVE Complete
  OBVIOUS
<1>1. /\ received = <<>> /\ kernel = <<>> /\ msg_queue = <<>>
      /\ m_OutBuffer = <<1>> /\ encrypted = 1
  BY DEF Init
<1>2. DOMAIN <<>> = {} /\ DOMAIN <<1>> = {1} /\ <<1>>[1] = 1 /\ 1..1 = {1}
  OBVIOUS
<1> QED BY <1>1, <1>2 DEF Complete, Held, In, InQueue

\* Every step but the one that loses a block keeps the channel complete.
LEMMA StepComplete == IInv /\ Complete /\ [Next]_vars /\ ~PutBackLost => Complete'
<1> SUFFICES ASSUME IInv, Complete, [Next]_vars, ~PutBackLost PROVE Complete'
  OBVIOUS
<1>1. /\ encrypted \in Nat /\ encrypted' \in Nat /\ encrypted' >= encrypted
      /\ NoneAppears /\ (~Ending' => NoneLost)
  <2>1. CASE \E n \in PacketSizes : (\E t \in Senders : SendPacket(t, n)) \/ SendPong(n)
    <3>1. PICK n \in PacketSizes : (\E t \in Senders : SendPacket(t, n)) \/ SendPong(n)
      BY <2>1
    <3>2. /\ encrypted' \in Nat /\ encrypted' > encrypted
          /\ NoneAppears /\ (~Ending' => NoneLost)
      BY <3>1, HeldSend
    <3>3. encrypted \in Nat
      BY DEF IInv, TypeOK
    <3> QED BY ONLY <3>2, <3>3
  <2>2. ASSUME UNCHANGED encrypted
        PROVE  encrypted \in Nat /\ encrypted' \in Nat /\ encrypted' >= encrypted
    BY <2>2 DEF IInv, TypeOK
  <2>3. CASE Standing \/ UNCHANGED vars
    <3>1. UNCHANGED orderVars
      BY <2>3 DEF orderVars, vars, outVars, Standing, CloseFailed, CloseSocket, Update,
         OutputEvent, OutputClosed, OutputEmpty, OutputBlocked, OutputError, QueueEmpty,
         ReactorSchedule, ReactorCancel, Fail
    <3>2. UNCHANGED encrypted
      BY <3>1 DEF orderVars
    <3> QED BY <2>2, <3>1, <3>2, HeldKept
  <2>4. CASE \E n \in 1..BufferSize : OutputBuffer(n)
    BY <2>2, <2>4, HeldBuffer DEF OutputBuffer
  <2>5. CASE QueueSent
    BY <2>2, <2>5, HeldQueueSent DEF QueueSent
  <2>6. CASE \E n \in 1..KernelSize : QueuePart(n)
    BY <2>2, <2>6, HeldQueuePart DEF QueuePart
  <2>7. CASE QueueBlocked \/ QueueError
    BY <2>2, <2>7, HeldQueueBack DEF QueueBlocked, QueueError
  <2>8. CASE PeerReads
    BY <2>2, <2>8, HeldRead DEF PeerReads
  <2> QED
    BY <2>1, <2>3, <2>4, <2>5, <2>6, <2>7, <2>8 DEF Next, NetworkThread, Standing
<1>2. ASSUME NEW u, Held(u)' PROVE u \in 1..encrypted'
  <2>1. u \in 1..encrypted \/ u \in (encrypted + 1)..encrypted'
    BY <1>1, <1>2 DEF NoneAppears, Complete
  <2> QED BY ONLY <1>1, <2>1
<1>3. ASSUME ~Ending', NEW u \in 1..encrypted' PROVE Held(u)'
  <2>1. u \in 1..encrypted \/ u \in (encrypted + 1)..encrypted'
    BY ONLY <1>1, u \in 1..encrypted'
  <2>2. ~Ending
    BY <1>3, EndingLasts
  <2> QED BY <1>1, <1>3, <2>1, <2>2 DEF NoneLost, Complete
<1> QED BY <1>2, <1>3 DEF Complete

\* What the peer reads next is the next number, or a later one if the
\* connection ends.
LEMMA ReadChannel ==
  ASSUME IInv, Complete, PeerReads
  PROVE  Channel!Read
<1> DEFINE unit == Head(kernel)
           latest == Channel!Latest
<1>1. /\ kernel \in Seq(Nat) /\ kernel # <<>> /\ received \in Seq(Nat)
      /\ m_OutBuffer \in Seq(Nat) /\ encrypted \in Nat
      /\ Increasing(received) /\ Increasing(kernel)
      /\ Below(received, kernel) /\ Below(kernel, m_OutBuffer)
  BY DEF PeerReads, IInv, TypeOK, SentOrder
<1>2. /\ Head(kernel) = kernel[1] /\ DOMAIN kernel = 1..Len(kernel)
      /\ Len(kernel) \in Nat \ {0} /\ kernel[1] \in Nat
      /\ DOMAIN received = 1..Len(received) /\ Len(received) \in Nat
      /\ \A i \in DOMAIN received : received[i] \in Nat
  BY <1>1, HeadTailProperties, LenProperties, EmptySeq
<1>3. 1 \in DOMAIN kernel /\ \A i \in DOMAIN kernel : i = 1 \/ 1 < i
  BY <1>2
<1>4. unit \in 1..encrypted
  BY <1>2, <1>3 DEF Complete, Held, In
<1>5. latest \in Nat /\ latest < unit
  <2>1. CASE received = <<>>
    BY <1>4, <2>1 DEF Channel!Latest
  <2>2. CASE received # <<>>
    <3>1. Len(received) \in DOMAIN received /\ latest = received[Len(received)]
      BY <1>1, <1>2, <2>2, EmptySeq DEF Channel!Latest
    <3> QED BY <1>1, <1>2, <1>3, <3>1 DEF Below
  <2> QED BY <2>1, <2>2
<1>6. \A i \in DOMAIN received : received[i] <= latest
  <2>1. CASE received = <<>>
    BY <2>1
  <2>2. CASE received # <<>>
    <3>1. Len(received) \in DOMAIN received /\ latest = received[Len(received)]
      BY <1>1, <1>2, <2>2, EmptySeq DEF Channel!Latest
    <3>2. \A i \in DOMAIN received : i = Len(received) \/ i < Len(received)
      BY <1>2
    <3>3. \A i \in DOMAIN received : received[i] \in Nat
      BY <1>2
    <3> HIDE DEF latest
    <3>4. \A i \in DOMAIN received : i < Len(received) => received[i] < latest
      BY <1>1, <3>1 DEF Increasing
    <3> QED BY ONLY <1>5, <3>1, <3>2, <3>3, <3>4
  <2> QED BY <2>1, <2>2
<1> HIDE DEF latest, unit
<1>7. ASSUME ~Ending, unit # latest + 1 PROVE FALSE
  <2>1. latest + 1 \in 1..encrypted /\ latest < latest + 1 /\ latest + 1 < unit
    BY ONLY <1>1, <1>4, <1>5, <1>7
  <2>2. Held(latest + 1)
    BY <1>7, <2>1 DEF Complete
  <2>3. \A i \in DOMAIN kernel : unit <= kernel[i]
    <3>1. \A i \in DOMAIN kernel : i = 1 \/ unit < kernel[i]
      BY <1>1, <1>2, <1>3 DEF Increasing, unit
    <3>2. \A i \in DOMAIN kernel : kernel[i] \in Nat
      BY <1>1, ElementOfSeq, LenProperties
    <3>3. kernel[1] = unit
      BY <1>2 DEF unit
    <3>4. unit \in Nat
      BY <1>2 DEF unit
    <3>5. ASSUME NEW i \in DOMAIN kernel PROVE unit <= kernel[i]
      <4>1. kernel[i] \in Nat /\ (unit = kernel[i] \/ unit < kernel[i])
        BY ONLY <3>1, <3>2, <3>3, i \in DOMAIN kernel
      <4> QED BY ONLY <3>4, <4>1
    <3> QED BY <3>5
  <2>4. \A i \in DOMAIN m_OutBuffer : unit < m_OutBuffer[i]
    BY <1>1, <1>2, <1>3 DEF Below, unit
  <2>5. \A j \in DOMAIN msg_queue : \A i \in DOMAIN msg_queue[j].data :
          unit < msg_queue[j].data[i]
    BY <1>2, <1>3 DEF IInv, QueueOrder, Behind, Below, unit
  <2>6. ~In(latest + 1, received)
    BY <1>2, <1>5, <1>6, <2>1 DEF In
  <2>7. ~In(latest + 1, kernel)
    BY <1>4, <2>1, <2>3 DEF In
  <2>8. ~In(latest + 1, m_OutBuffer)
    BY <1>4, <1>5, <2>1, <2>4 DEF In
  <2>9. ~InQueue(latest + 1, msg_queue)
    BY <1>4, <1>5, <2>1, <2>5 DEF In, InQueue
  <2> QED BY <2>2, <2>6, <2>7, <2>8, <2>9 DEF Held
<1>8. unit \in (latest + 1)..encrypted
  BY <1>1, <1>4, <1>5
<1>9. /\ received' = Append(received, unit)
      /\ UNCHANGED <<encrypted, closing_, failed, npc>>
  BY DEF PeerReads, unit
<1>10. UNCHANGED Ending
  BY <1>9 DEF Ending
<1> QED BY <1>7, <1>8, <1>9, <1>10 DEF Channel!Read, latest

\* A connection that ends is one in which Ending is a Boolean.
LEMMA EndingBoolean == IInv => Ending \in BOOLEAN
BY DEF Ending, IInv, TypeOK

\* Initially the channel is open and nothing is received.
LEMMA ChannelInit == Init => Channel!Init
BY DEF Init, Channel!Init, Ending

\* Every step of the output is one of the channel or leaves it as it is.
LEMMA ChannelStep ==
  IInv /\ IInv' /\ Complete /\ [Next]_vars => [Channel!Next]_(Channel!channelVars)
<1> SUFFICES ASSUME IInv, IInv', Complete, [Next]_vars
             PROVE  [Channel!Next]_(Channel!channelVars)
  OBVIOUS
<1>1. CASE \E n \in PacketSizes : (\E t \in Senders : SendPacket(t, n)) \/ SendPong(n)
  <2>1. PICK n \in PacketSizes : (\E t \in Senders : SendPacket(t, n)) \/ SendPong(n)
    BY <1>1
  <2>2. /\ encrypted' \in Nat /\ encrypted' > encrypted
        /\ UNCHANGED received /\ (Ending => Ending')
    BY <2>1, HeldSend
  <2>3. Ending' \in {Ending, TRUE}
    <3>1. Ending \in BOOLEAN /\ Ending' \in BOOLEAN
      BY EndingBoolean DEF Ending
    <3> QED BY <2>2, <3>1
  <2> QED BY <2>2, <2>3 DEF Channel!Next, Channel!Write
<1>2. CASE PeerReads
  BY <1>2, ReadChannel DEF Channel!Next
<1>3. ASSUME UNCHANGED <<encrypted, received>>
      PROVE  [Channel!Next]_(Channel!channelVars)
  <2>1. CASE Ending
    <3>1. Ending' = TRUE
      BY <2>1, EndingLasts, EndingBoolean DEF Ending
    <3> QED BY <1>3, <3>1 DEF Channel!Next, Channel!End
  <2>2. CASE Ending'
    <3>1. Ending' = TRUE
      BY <2>2 DEF Ending
    <3> QED BY <1>3, <3>1 DEF Channel!Next, Channel!End
  <2>3. CASE ~Ending /\ ~Ending'
    <3>1. Ending' = Ending
      BY <2>3 DEF Ending
    <3> QED BY <1>3, <3>1 DEF Channel!channelVars
  <2> QED BY <2>1, <2>2, <2>3
<1>4. CASE Standing \/ UNCHANGED vars
  <2>1. UNCHANGED <<encrypted, received>>
    BY <1>4 DEF vars, outVars, Standing, CloseFailed, CloseSocket, Update,
         OutputEvent, OutputClosed, OutputEmpty, OutputBlocked, OutputError, QueueEmpty,
         ReactorSchedule, ReactorCancel, Fail
  <2> QED BY <1>3, <2>1
<1>5. CASE \/ \E n \in 1..BufferSize : OutputBuffer(n)
           \/ QueueSent \/ QueueBlocked \/ QueueError
           \/ \E n \in 1..KernelSize : QueuePart(n)
  <2>1. UNCHANGED <<encrypted, received>>
    BY <1>5 DEF OutputBuffer, QueueSent, QueueBlocked, QueueError, QueuePart
  <2> QED BY <1>3, <2>1
<1> QED BY <1>1, <1>2, <1>4, <1>5 DEF Next, NetworkThread, Standing

\* The socket is a byte channel (ChannelSpec) in every behaviour in which
\* no block finds the queue full when QueueBlocked puts it back: the one way
\* in which units are lost.
THEOREM ChannelWithoutLoss == Spec /\ [][~PutBackLost]_vars => ChannelSpec
<1>1. Init => IInv /\ Complete /\ Channel!Init
  BY InitIInv, InitComplete, ChannelInit
<1>2. IInv /\ [Next]_vars => IInv'
  BY StepIInv
<1>3. IInv /\ Complete /\ [Next]_vars /\ [~PutBackLost]_vars => Complete'
  <2>1. CASE ~PutBackLost
    BY <2>1, StepComplete
  <2>2. ASSUME UNCHANGED vars, Complete PROVE Complete'
    <3>1. /\ UNCHANGED encrypted /\ UNCHANGED Ending
          /\ \A u : Held(u)' <=> Held(u)
      BY <2>2 DEF vars, Ending, Held
    <3> QED BY <2>2, <3>1 DEF Complete
  <2> QED BY <2>1, <2>2
<1>4. IInv /\ IInv' /\ Complete /\ [Next]_vars => [Channel!Next]_(Channel!channelVars)
  BY ChannelStep
<1> QED BY <1>1, <1>2, <1>3, <1>4, PTL DEF Spec, ChannelSpec, Channel!Spec

-----------------------------------------------------------------------------
(* Packets of one size lose no block: the block taken from the queue leaves *)
(* the room it is put back into.                                           *)

EvenSizes == \A m, n \in PacketSizes : m = n

\* The queue is at most one packet over its mark.
RoomForOne ==
  /\ \A n \in PacketSizes : cur_bytes_ < HighWater + n
  /\ \A i \in DOMAIN msg_queue : msg_queue[i].size \in PacketSizes

\* Initially nothing is queued.
LEMMA InitRoom == Init => RoomForOne
<1> SUFFICES ASSUME Init PROVE RoomForOne
  OBVIOUS
<1>1. cur_bytes_ = 0 /\ msg_queue = <<>>
  BY DEF Init
<1>2. DOMAIN <<>> = {}
  OBVIOUS
<1>3. \A n \in PacketSizes : 0 < HighWater + n
  BY OutputAssumption
<1> QED BY <1>1, <1>2, <1>3 DEF RoomForOne

\* With packets of one size the queue never exceeds its mark by more.
LEMMA StepRoom ==
  ASSUME EvenSizes, IInv, RoomForOne, [Next]_vars
  PROVE  RoomForOne'
<1>1. /\ cur_bytes_ \in Int /\ HighWater \in Nat /\ PacketSizes \subseteq Nat \ {0}
      /\ msg_queue \in Seq(Block)
  BY OutputAssumption DEF IInv, TypeOK
<1>2. CASE UNCHANGED <<msg_queue, cur_bytes_>>
  BY <1>2 DEF RoomForOne
<1>3. ASSUME NEW n \in PacketSizes,
             (\E t \in Senders : SendPacket(t, n)) \/ SendPong(n),
             ~(UNCHANGED <<msg_queue, cur_bytes_>>)
      PROVE  RoomForOne'
  <2> DEFINE block == [data |-> Units(n), size |-> n]
  <2>1. /\ ~is_full_i(cur_bytes_)
        /\ msg_queue' = Append(msg_queue, block) /\ cur_bytes_' = cur_bytes_ + n
    BY <1>3 DEF SendPacket, SendPong, Store, outVars
  <2>2. cur_bytes_' < HighWater + n
    BY <1>1, <2>1 DEF is_full_i
  <2>3. \A m \in PacketSizes : cur_bytes_' < HighWater + m
    BY <2>2 DEF EvenSizes
  <2>4. block \in Block /\ block.size = n
    <3>1. n \in Nat /\ Units(n) \in Seq(Nat)
      BY <1>1, UnitsOrder DEF IInv, TypeOK
    <3> QED BY <3>1 DEF Block
  <2> HIDE DEF block
  <2>5. /\ DOMAIN msg_queue = 1..Len(msg_queue)
        /\ DOMAIN msg_queue' = 1..(Len(msg_queue) + 1) /\ Len(msg_queue) \in Nat
        /\ \A i \in 1..Len(msg_queue) : msg_queue'[i] = msg_queue[i]
        /\ msg_queue'[Len(msg_queue) + 1] = block
    BY <1>1, <2>1, <2>4, AppendProperties, LenProperties
  <2>6. \A i \in DOMAIN msg_queue' :
          \/ i \in DOMAIN msg_queue /\ msg_queue'[i] = msg_queue[i]
          \/ msg_queue'[i] = block
    BY <2>5
  <2>7. \A i \in DOMAIN msg_queue' : msg_queue'[i].size \in PacketSizes
    BY <2>4, <2>6 DEF RoomForOne
  <2> QED BY <2>3, <2>7 DEF RoomForOne
<1>4. ASSUME msg_queue # <<>>, msg_queue' = Tail(msg_queue),
             cur_bytes_' = cur_bytes_ - Head(msg_queue).size
      PROVE  RoomForOne'
  <2>1. /\ Head(msg_queue) = msg_queue[1]
        /\ DOMAIN msg_queue = 1..Len(msg_queue) /\ Len(msg_queue) \in Nat \ {0}
        /\ DOMAIN msg_queue' = 1..(Len(msg_queue) - 1)
        /\ \A i \in 1..(Len(msg_queue) - 1) : msg_queue'[i] = msg_queue[i + 1]
    BY <1>1, <1>4, HeadTailProperties, LenProperties, EmptySeq
  <2>2. /\ 1 \in DOMAIN msg_queue
        /\ \A i \in DOMAIN msg_queue' : i + 1 \in DOMAIN msg_queue
    BY <2>1
  <2>3. Head(msg_queue).size \in Nat
    BY <1>1, <2>1, <2>2 DEF RoomForOne
  <2>4. \A n \in PacketSizes : cur_bytes_' < HighWater + n
    BY <1>1, <1>4, <2>3 DEF RoomForOne
  <2> QED BY <2>1, <2>2, <2>4 DEF RoomForOne
<1>5. ASSUME NEW n \in 1..KernelSize, QueuePart(n), ~(msg_queue' = Tail(msg_queue))
      PROVE  RoomForOne'
  <2> DEFINE block == [Head(msg_queue) EXCEPT !.data = Rest(Head(msg_queue).data, n)]
  <2>1. /\ msg_queue # <<>> /\ msg_queue' = <<block>> \o Tail(msg_queue)
        /\ UNCHANGED cur_bytes_
    BY <1>5 DEF QueuePart
  <2>2. Head(msg_queue) \in Block /\ Tail(msg_queue) \in Seq(Block)
    BY <2>1, DequeueTypes DEF IInv
  <2>3. block.size = Head(msg_queue).size
    BY <2>2 DEF Block
  <2> HIDE DEF block
  <2>4. /\ Head(msg_queue) = msg_queue[1]
        /\ DOMAIN msg_queue = 1..Len(msg_queue) /\ Len(msg_queue) \in Nat \ {0}
        /\ Len(Tail(msg_queue)) = Len(msg_queue) - 1
        /\ \A i \in 1..(Len(msg_queue) - 1) : Tail(msg_queue)[i] = msg_queue[i + 1]
    BY <1>1, <2>1, HeadTailProperties, LenProperties, EmptySeq
  <2>5. /\ DOMAIN msg_queue' = 1..(1 + Len(Tail(msg_queue)))
        /\ \A i \in 1..(1 + Len(Tail(msg_queue))) :
             msg_queue'[i] = IF i = 1 THEN block ELSE Tail(msg_queue)[i - 1]
    BY <2>1, <2>2, FrontOf
  <2>6. \A i \in DOMAIN msg_queue' :
          i \in DOMAIN msg_queue
            /\ (IF i = 1 THEN msg_queue'[i] = block ELSE msg_queue'[i] = msg_queue[i])
    <3> SUFFICES ASSUME NEW i \in DOMAIN msg_queue'
                 PROVE  /\ i \in DOMAIN msg_queue
                        /\ IF i = 1 THEN msg_queue'[i] = block
                                    ELSE msg_queue'[i] = msg_queue[i]
      OBVIOUS
    <3>1. i \in 1..Len(msg_queue) /\ (i # 1 => i - 1 \in 1..(Len(msg_queue) - 1) /\ (i - 1) + 1 = i)
      BY <2>4, <2>5
    <3> QED BY ONLY <2>4, <2>5, <3>1, i \in DOMAIN msg_queue'
  <2>7. \A i \in DOMAIN msg_queue' : msg_queue'[i].size \in PacketSizes
    BY <2>3, <2>4, <2>6 DEF RoomForOne
  <2> QED BY <2>1, <2>7 DEF RoomForOne
<1>6. CASE \/ QueueSent \/ QueueError
  BY <1>4, <1>6 DEF QueueSent, QueueError
<1>7. CASE QueueBlocked
  BY <1>2, <1>4, <1>7 DEF QueueBlocked
<1>8. CASE \E n \in 1..KernelSize : QueuePart(n)
  <2>1. PICK n \in 1..KernelSize : QueuePart(n)
    BY <1>8
  <2>2. CASE msg_queue' = Tail(msg_queue)
    <3>1. Tail(msg_queue) # <<[Head(msg_queue) EXCEPT !.data = Rest(Head(msg_queue).data, n)]>>
                              \o Tail(msg_queue)
      BY <2>1, DequeueTypes, FrontOf DEF IInv, QueuePart
    <3> QED BY <1>4, <2>1, <2>2, <3>1 DEF QueuePart
  <2> QED BY <1>5, <2>1, <2>2
<1>9. CASE Standing \/ PeerReads \/ UNCHANGED vars \/ \E n \in 1..BufferSize : OutputBuffer(n)
  <2>1. UNCHANGED <<msg_queue, cur_bytes_>>
    BY <1>9 DEF vars, outVars, PeerReads, OutputBuffer, Standing, CloseFailed, CloseSocket,
         Update, OutputEvent, OutputClosed, OutputEmpty, OutputBlocked, OutputError,
         QueueEmpty, ReactorSchedule, ReactorCancel, Fail
  <2> QED BY <1>2, <2>1
<1>10. CASE \E n \in PacketSizes : (\E t \in Senders : SendPacket(t, n)) \/ SendPong(n)
  BY <1>2, <1>3, <1>10
<1> QED BY <1>6, <1>7, <1>8, <1>9, <1>10 DEF Next, NetworkThread, Standing

\* A block put back finds room.
LEMMA NothingLost ==
  ASSUME IInv, RoomForOne
  PROVE  ~PutBackLost
<1> SUFFICES ASSUME PutBackLost PROVE FALSE
  OBVIOUS
<1>1. msg_queue # <<>> /\ cur_bytes_ - Head(msg_queue).size >= HighWater
  BY DEF PutBackLost, QueueBlocked, is_full_i
<1>2. Head(msg_queue).size \in PacketSizes
  BY <1>1, HeadTailProperties, LenProperties, EmptySeq DEF IInv, TypeOK, RoomForOne
<1>3. cur_bytes_ \in Int /\ HighWater \in Nat /\ Head(msg_queue).size \in Nat
  BY <1>2, OutputAssumption DEF IInv, TypeOK
<1> QED BY <1>1, <1>2, <1>3 DEF RoomForOne

\* With packets of one size the socket is a byte channel (ChannelSpec): what
\* the peer receives has no gap before somebody ends the connection, for
\* every size of the buffer, the kernel and the mark.
THEOREM EvenPacketsAreAChannel == EvenSizes => (Spec => ChannelSpec)
<1> SUFFICES ASSUME EvenSizes PROVE Spec => ChannelSpec
  OBVIOUS
<1>1. Init => RoomForOne
  BY InitRoom
<1>2. IInv /\ RoomForOne /\ [Next]_vars => RoomForOne'
  BY StepRoom
<1>3. IInv /\ RoomForOne => [~PutBackLost]_vars
  BY NothingLost
<1>4. Spec => [][~PutBackLost]_vars
  BY <1>1, <1>2, <1>3, Invariance, PTL DEF Spec
<1> QED BY <1>4, ChannelWithoutLoss
=============================================================================
