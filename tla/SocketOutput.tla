---------------------------- MODULE SocketOutput ----------------------------
(***************************************************************************)
(* The output of an open WorldSocket (src/game/WorldSocket.cpp): threads    *)
(* that send, the buffer and the queue of message blocks behind it, and     *)
(* the network thread that writes them to the kernel and registers with     *)
(* the reactor when the kernel is full.                                    *)
(*                                                                         *)
(* A packet is some units, numbered in the order in which SendPacket        *)
(* encrypts them.  m_OutBufferLock is held in an action, and from one       *)
(* action to the next where Locked says so.                                *)
(***************************************************************************)
EXTENDS Integers, Sequences, SequencesExt

CONSTANTS
  Senders,      \* the threads that send, but for the network thread
  PacketSizes,
  BufferSize,   \* m_OutBufferSize
  HighWater,    \* high_water_mark of the message queue
  KernelSize,   \* what the kernel buffers for the peer
  MaxUnits      \* bound: units sent

ASSUME OutputAssumption ==
  /\ PacketSizes \subseteq Nat \ {0}
  /\ BufferSize \in Nat \ {0} /\ HighWater \in Nat
  /\ KernelSize \in Nat /\ MaxUnits \in Nat

VARIABLES
  closing_,
  encrypted,    \* the units SendPacket has encrypted
  m_OutBuffer,
  msg_queue,    \* message blocks, with the size they are accounted for
  cur_bytes_,   \* the bytes the queue accounts for
  m_OutActive,
  wakeup,       \* the reactor calls handle_output when the kernel has room
  npc,          \* where the network thread is
  failed,       \* senders whose SendPacket failed and that now close
  kernel, received

vars == <<closing_, encrypted, m_OutBuffer, msg_queue, cur_bytes_, m_OutActive,
          wakeup, npc, failed, kernel, received>>
outVars == <<m_OutBuffer, msg_queue, cur_bytes_>>

Block == [data : Seq(Nat), size : Nat]

TypeOK ==
  /\ closing_ \in BOOLEAN
  /\ encrypted \in Nat
  /\ m_OutBuffer \in Seq(Nat) /\ Len(m_OutBuffer) <= BufferSize
  /\ msg_queue \in Seq(Block)
  /\ \A i \in DOMAIN msg_queue :
       Len(msg_queue[i].data) \in 1..msg_queue[i].size
  /\ cur_bytes_ \in Int
  /\ m_OutActive \in BOOLEAN /\ wakeup \in BOOLEAN
  /\ npc \in {"idle", "output", "queue", "schedule", "cancel", "fail"}
  /\ failed \subseteq Senders
  /\ kernel \in Seq(Nat) /\ received \in Seq(Nat)

\* What WorldSocket::open leaves: the challenge is in the buffer, and the
\* reactor is registered for input and output.
Init ==
  /\ closing_ = FALSE
  /\ encrypted = 1
  /\ m_OutBuffer = <<1>>
  /\ msg_queue = <<>>
  /\ cur_bytes_ = 0
  /\ m_OutActive = TRUE
  /\ wakeup = TRUE
  /\ npc = "idle"
  /\ failed = {}
  /\ kernel = <<>> /\ received = <<>>

-----------------------------------------------------------------------------
(* ACE_Message_Queue, and the threads that send.                           *)

is_full_i(bytes) == bytes >= HighWater

\* The network thread holds m_OutBufferLock between two actions.
Locked == npc = "queue"

Units(n) == [i \in 1..n |-> encrypted + i]

\* The packet goes to the buffer only if no block waits behind it.
\* Mutant: whenever it fits.
FitsAnyway(n) == Len(m_OutBuffer) + n <= BufferSize
\* Mutant: only whether a block waits is looked at.
FitsUnmeasured(n) == msg_queue = <<>>
Fits(n) == Len(m_OutBuffer) + n <= BufferSize /\ msg_queue = <<>>

Store(n) ==
  IF Fits(n)
    THEN /\ m_OutBuffer' = m_OutBuffer \o Units(n)
         /\ UNCHANGED <<msg_queue, cur_bytes_>>
    ELSE /\ msg_queue' = Append(msg_queue, [data |-> Units(n), size |-> n])
         /\ cur_bytes_' = cur_bytes_ + n
         /\ UNCHANGED m_OutBuffer

\* WorldSocket::SendPacket: the header is encrypted, and then there may be
\* no room.
SendPacket(t, n) ==
  /\ ~Locked
  /\ ~closing_
  /\ t \notin failed
  /\ encrypted + n <= MaxUnits                                          \* bound
  /\ encrypted' = encrypted + n
  /\ \/ /\ Fits(n) \/ ~is_full_i(cur_bytes_)
        /\ Store(n)
        /\ UNCHANGED failed
     \/ /\ ~Fits(n) /\ is_full_i(cur_bytes_)
        /\ failed' = failed \cup {t}
        /\ UNCHANGED outVars
  /\ UNCHANGED <<closing_, m_OutActive, wakeup, npc, kernel, received>>

\* HandlePing answers from the network thread; if it cannot, handle_input
\* fails.
SendPong(n) ==
  /\ npc = "idle"
  /\ ~closing_
  /\ encrypted + n <= MaxUnits                                          \* bound
  /\ encrypted' = encrypted + n
  /\ \/ /\ Fits(n) \/ ~is_full_i(cur_bytes_)
        /\ Store(n)
        /\ UNCHANGED npc
     \/ /\ ~Fits(n) /\ is_full_i(cur_bytes_)
        /\ npc' = "fail"
        /\ UNCHANGED outVars
  /\ UNCHANGED <<closing_, m_OutActive, wakeup, failed, kernel, received>>

\* WorldSession::SendPacket closes the socket after a packet that failed.
CloseFailed(t) ==
  /\ ~Locked
  /\ t \in failed
  /\ closing_' = TRUE
  /\ failed' = failed \ {t}
  /\ UNCHANGED <<encrypted, outVars, m_OutActive, wakeup, npc, kernel, received>>

\* WorldSocket::CloseSocket, by a kick.
CloseSocket ==
  /\ ~Locked
  /\ ~closing_
  /\ closing_' = TRUE
  /\ UNCHANGED <<encrypted, outVars, m_OutActive, wakeup, npc, failed, kernel,
                 received>>

-----------------------------------------------------------------------------
(* The network thread.                                                     *)

\* cancel_wakeup_output and schedule_wakeup_output set m_OutActive and
\* release the lock before they call the reactor.
\* Mutant: m_OutActive stays set.
CancelWakeupKeeps ==
  /\ npc' = IF m_OutActive THEN "cancel" ELSE "idle"
  /\ UNCHANGED m_OutActive
CancelWakeup ==
  /\ m_OutActive' = FALSE
  /\ npc' = IF m_OutActive THEN "cancel" ELSE "idle"
ScheduleWakeup ==
  /\ m_OutActive' = TRUE
  /\ npc' = IF m_OutActive THEN "idle" ELSE "schedule"

\* The kernel takes part of what it is offered, at least a unit if it has room.
Room == KernelSize - Len(kernel)
Sent(data, n) == SubSeq(data, 1, n)
Rest(data, n) == SubSeq(data, n + 1, Len(data))

\* WorldSocket::Update, from the loop of the network thread or handle_input.
Update ==
  /\ npc = "idle"
  /\ ~closing_
  /\ ~m_OutActive
  /\ m_OutBuffer # <<>> \/ msg_queue # <<>>
  /\ npc' = "output"
  /\ UNCHANGED <<closing_, encrypted, outVars, m_OutActive, wakeup, failed, kernel,
                 received>>

\* The reactor calls handle_output.
OutputEvent ==
  /\ npc = "idle"
  /\ wakeup
  /\ Room > 0
  /\ npc' = "output"
  /\ UNCHANGED <<closing_, encrypted, outVars, m_OutActive, wakeup, failed, kernel,
                 received>>

\* handle_output
OutputClosed ==
  /\ npc = "output"
  /\ closing_
  /\ npc' = "fail"
  /\ UNCHANGED <<closing_, encrypted, outVars, m_OutActive, wakeup, failed, kernel,
                 received>>

OutputEmpty ==
  /\ npc = "output"
  /\ ~closing_
  /\ m_OutBuffer = <<>>
  /\ npc' = "queue"
  /\ UNCHANGED <<closing_, encrypted, outVars, m_OutActive, wakeup, failed, kernel,
                 received>>

OutputBuffer(n) ==
  /\ npc = "output"
  /\ ~closing_
  /\ m_OutBuffer # <<>>
  /\ n <= Room /\ n <= Len(m_OutBuffer)
  /\ kernel' = kernel \o Sent(m_OutBuffer, n)
  /\ m_OutBuffer' = Rest(m_OutBuffer, n)
  /\ IF n = Len(m_OutBuffer)
       THEN npc' = "queue" /\ UNCHANGED m_OutActive
       ELSE ScheduleWakeup
  /\ UNCHANGED <<closing_, encrypted, msg_queue, cur_bytes_, wakeup, failed, received>>

OutputBlocked ==
  /\ npc = "output"
  /\ ~closing_
  /\ m_OutBuffer # <<>>
  /\ Room = 0
  /\ ScheduleWakeup
  /\ UNCHANGED <<closing_, encrypted, outVars, wakeup, failed, kernel, received>>

\* handle_output_queue, under the lock of handle_output
QueueEmpty ==
  /\ npc = "queue"
  /\ msg_queue = <<>>
  /\ CancelWakeup
  /\ UNCHANGED <<closing_, encrypted, outVars, wakeup, failed, kernel, received>>

\* The whole block is sent: the next one, or the end.
QueueSent ==
  /\ npc = "queue"
  /\ msg_queue # <<>>
  /\ LET block == Head(msg_queue)
     IN /\ Len(block.data) <= Room
        /\ kernel' = kernel \o block.data
        /\ cur_bytes_' = cur_bytes_ - block.size
  /\ msg_queue' = Tail(msg_queue)
  /\ IF Tail(msg_queue) = <<>>
       THEN CancelWakeup
       ELSE npc' = "output" /\ UNCHANGED m_OutActive
  /\ UNCHANGED <<closing_, encrypted, m_OutBuffer, wakeup, failed, received>>

\* Part of the block is sent, and the block put back in front.
\* Mutant: the block is not put back.
QueuePartDropped(n) ==
  /\ npc = "queue"
  /\ msg_queue # <<>>
  /\ LET block == Head(msg_queue)
     IN /\ n <= Room /\ n < Len(block.data)
        /\ kernel' = kernel \o Sent(block.data, n)
        /\ cur_bytes_' = cur_bytes_ - block.size
  /\ msg_queue' = Tail(msg_queue)
  /\ ScheduleWakeup
  /\ UNCHANGED <<closing_, encrypted, m_OutBuffer, wakeup, failed, received>>
QueuePart(n) ==
  /\ npc = "queue"
  /\ msg_queue # <<>>
  /\ LET block == Head(msg_queue)
     IN /\ n <= Room /\ n < Len(block.data)
        /\ kernel' = kernel \o Sent(block.data, n)
        /\ \/ /\ ~is_full_i(cur_bytes_ - block.size)
              /\ msg_queue' = <<[block EXCEPT !.data = Rest(@, n)]>> \o Tail(msg_queue)
              /\ UNCHANGED cur_bytes_
              /\ ScheduleWakeup
           \/ /\ is_full_i(cur_bytes_ - block.size)
              /\ msg_queue' = Tail(msg_queue)
              /\ cur_bytes_' = cur_bytes_ - block.size
              /\ npc' = "fail"
              /\ UNCHANGED m_OutActive
  /\ UNCHANGED <<closing_, encrypted, m_OutBuffer, wakeup, failed, received>>

\* Nothing can be sent: the block is put back, and whether there was room
\* for it is not looked at.
QueueBlocked ==
  /\ npc = "queue"
  /\ msg_queue # <<>>
  /\ Room = 0
  /\ LET block == Head(msg_queue)
     IN IF is_full_i(cur_bytes_ - block.size)
          THEN /\ msg_queue' = Tail(msg_queue)
               /\ cur_bytes_' = cur_bytes_ - block.size
          ELSE UNCHANGED <<msg_queue, cur_bytes_>>
  /\ ScheduleWakeup
  /\ UNCHANGED <<closing_, encrypted, m_OutBuffer, wakeup, failed, kernel, received>>

\* send fails: handle_output leaves the buffer, handle_output_queue has
\* released the block.
OutputError ==
  /\ npc = "output"
  /\ ~closing_
  /\ m_OutBuffer # <<>>
  /\ npc' = "fail"
  /\ UNCHANGED <<closing_, encrypted, outVars, m_OutActive, wakeup, failed, kernel,
                 received>>
QueueError ==
  /\ npc = "queue"
  /\ msg_queue # <<>>
  /\ cur_bytes_' = cur_bytes_ - Head(msg_queue).size
  /\ msg_queue' = Tail(msg_queue)
  /\ npc' = "fail"
  /\ UNCHANGED <<closing_, encrypted, m_OutBuffer, m_OutActive, wakeup, failed, kernel,
                 received>>

\* The calls to the reactor, after the lock is released.
ReactorSchedule ==
  /\ npc = "schedule"
  /\ wakeup' = TRUE
  /\ npc' = "idle"
  /\ UNCHANGED <<closing_, encrypted, outVars, m_OutActive, failed, kernel, received>>
ReactorCancel ==
  /\ npc = "cancel"
  /\ wakeup' = FALSE
  /\ npc' = "idle"
  /\ UNCHANGED <<closing_, encrypted, outVars, m_OutActive, failed, kernel, received>>

\* handle_close, or CloseSocket from the loop: what returned -1 ends here.
Fail ==
  /\ npc = "fail"
  /\ closing_' = TRUE
  /\ wakeup' = FALSE
  /\ npc' = "idle"
  /\ UNCHANGED <<encrypted, outVars, m_OutActive, failed, kernel, received>>

NetworkThread ==
  \/ Update \/ OutputEvent
  \/ OutputClosed \/ OutputEmpty \/ OutputBlocked
  \/ \E n \in 1..BufferSize : OutputBuffer(n)
  \/ QueueEmpty \/ QueueSent \/ QueueBlocked
  \/ \E n \in 1..KernelSize : QueuePart(n)
  \/ ReactorSchedule \/ ReactorCancel \/ Fail

-----------------------------------------------------------------------------
(* The peer, and the specification.                                        *)

PeerReads ==
  /\ kernel # <<>>
  /\ received' = Append(received, Head(kernel))
  /\ kernel' = Tail(kernel)
  /\ UNCHANGED <<closing_, encrypted, outVars, m_OutActive, wakeup, npc, failed>>

Next ==
  \/ \E t \in Senders, n \in PacketSizes : SendPacket(t, n)
  \/ \E n \in PacketSizes : SendPong(n)
  \/ \E t \in Senders : CloseFailed(t)
  \/ CloseSocket
  \/ NetworkThread
  \/ OutputError \/ QueueError
  \/ PeerReads

Spec ==
  /\ Init /\ [][Next]_vars
  /\ WF_vars(NetworkThread)
  /\ \A t \in Senders : WF_vars(CloseFailed(t))
  /\ WF_vars(PeerReads)

-----------------------------------------------------------------------------
(* Properties.                                                             *)

\* What is queued, oldest first.
Queued == FlattenSeq([i \in DOMAIN msg_queue |-> msg_queue[i].data])
Stream == received \o kernel \o m_OutBuffer \o Queued

\* What the peer gets is in the order in which SendPacket encrypted it, none
\* of it twice, whatever the buffer, the queue and partial sends do.
InOrder ==
  LET wire == received \o kernel
  IN \A i, j \in DOMAIN wire : i < j => wire[i] < wire[j]

\* Somebody closes the socket, or has.
Ending == closing_ \/ failed # {} \/ npc = "fail"

\* Everything encrypted has been sent or waits to be sent, unless the
\* connection ends: the header cipher depends on every header before, so
\* that a packet left out makes the rest unreadable.
NoGap == ~Ending => Stream = [i \in 1..encrypted |-> i]

\* The socket is a byte channel to its peer.
Channel == INSTANCE ByteChannel WITH written <- encrypted, ending <- Ending
ChannelSpec == Channel!Spec

\* What is sent arrives, unless the socket closes: a socket never sleeps on
\* data, neither outside the reactor with m_OutActive set nor without it.
AllDelivered ==
  \A u \in 1..MaxUnits : (encrypted >= u) ~> (u \in Range(received) \/ closing_)
=============================================================================
