---------------------------- MODULE SshTransport ----------------------------
(***************************************************************************)
(* The SSH transport, netconf/src/transport/ssh.rs: a task between the     *)
(* channel and two bounded queues.  Its user sends a batch of requests     *)
(* before it awaits the first reply, as the nested futures of Session::rpc *)
(* let it (and as Client::load_config of the agent does over its own       *)
(* transports); the server answers in order.  Messages are not told apart: *)
(* a counter for each stage says how many are in it.                       *)
(***************************************************************************)
EXTENDS Integers, Sequences, FiniteSets

CONSTANTS Batch,       \* bound: requests sent before a reply is awaited
          QueueLen,    \* capacity of each mpsc channel, 32 in the code
          MaxInPacket  \* bound: messages that end in one Data packet

ASSUME SshAssumption == Batch \in Nat /\ QueueLen \in Nat \ {0} /\ MaxInPacket \in Nat

VARIABLES
  user,      \* sending, receiving, done, failed with a transport error, or
             \* gone, when the session and with it both handles are dropped
  sent,      \* requests that send() has returned for
  outQueue,  \* requests in the out queue
  task,      \* in select!, waiting to enqueue a message, or ended
  atServer,  \* requests the server has and has not answered
  replies,   \* bytes of replies not in a packet yet, as ends of messages
  packets,   \* channel messages on their way: Data, with how many messages
             \* end in it, or Eof
  inBuf,     \* complete messages in the task's in_buf
  inQueue,   \* messages in the in queue
  received,  \* replies that recv() has returned
  hungUp,    \* the server has closed its side
  lost       \* the connection is no more

channel == <<hungUp, lost>>
vars    == <<user, sent, outQueue, task, atServer, replies, packets, inBuf, inQueue,
             received, channel>>

Packet == [type : {"data", "eof"}, ends : 0 .. MaxInPacket]
Data(n) == [type |-> "data", ends |-> n]
Eof     == [type |-> "eof", ends |-> 0]

Init ==
  /\ user = "sending" /\ sent = 0 /\ outQueue = 0
  /\ task = "selecting" /\ atServer = 0 /\ replies = 0 /\ packets = <<>>
  /\ inBuf = 0 /\ inQueue = 0 /\ received = 0 /\ hungUp = FALSE /\ lost = FALSE

----------------------------------------------------------------------------
(* The user of the transport. *)

(* Sender::send waits for a place; EnqueueMessage when the task is gone.   *)
Send ==
  /\ user = "sending" /\ sent < Batch
  /\ IF task = "ended"
     THEN user' = "failed" /\ UNCHANGED <<sent, outQueue>>
     ELSE /\ outQueue < QueueLen
          /\ sent' = sent + 1 /\ outQueue' = outQueue + 1
          /\ UNCHANGED user
  /\ UNCHANGED <<task, atServer, replies, packets, inBuf, inQueue, received, channel>>

StartReceiving ==
  /\ user = "sending" /\ sent = Batch
  /\ user' = "receiving"
  /\ UNCHANGED <<sent, outQueue, task, atServer, replies, packets, inBuf, inQueue,
                 received, channel>>

(* Receiver::recv drains the queue; DequeueMessage when it is empty and    *)
(* the task is gone.                                                       *)
Receive ==
  /\ user = "receiving"
  /\ \/ /\ received = Batch /\ user' = "done"
        /\ UNCHANGED <<received, inQueue>>
     \/ /\ received < Batch /\ inQueue > 0
        /\ inQueue' = inQueue - 1 /\ received' = received + 1
        /\ UNCHANGED user
     \/ /\ received < Batch /\ inQueue = 0 /\ task = "ended"
        /\ user' = "failed"
        /\ UNCHANGED <<received, inQueue>>
  /\ UNCHANGED <<sent, outQueue, task, atServer, replies, packets, inBuf, channel>>

Drop ==
  /\ user # "gone" /\ user' = "gone"
  /\ UNCHANGED <<sent, outQueue, task, atServer, replies, packets, inBuf, inQueue,
                 received, channel>>

----------------------------------------------------------------------------
(* The task.  When it ends, what is in its buffer or the out queue is lost. *)

EndTask == task' = "ended" /\ inBuf' = 0 /\ outQueue' = 0

(* Mutant: a request that cannot be written is dropped. *)
ForwardRequest_IgnoresError ==
  /\ task = "selecting"
  /\ \/ /\ outQueue > 0 /\ outQueue' = outQueue - 1
        /\ atServer' = IF lost THEN atServer ELSE atServer + 1
        /\ UNCHANGED <<task, inBuf>>
     \/ outQueue = 0 /\ user = "gone" /\ EndTask /\ UNCHANGED atServer
  /\ UNCHANGED <<user, sent, replies, packets, inQueue, received, channel>>

(* Mutant: a queue that has no sender any more is like one that is empty. *)
ForwardRequest_IgnoresNone ==
  /\ task = "selecting" /\ outQueue > 0
  /\ \/ /\ ~lost /\ outQueue' = outQueue - 1 /\ atServer' = atServer + 1
        /\ UNCHANGED <<task, inBuf>>
     \/ lost /\ EndTask /\ UNCHANGED atServer
  /\ UNCHANGED <<user, sent, replies, packets, inQueue, received, channel>>

(* data() fails when the connection is lost, and recv() returns None when  *)
(* the queue is empty for good: either ends the task.                      *)
ForwardRequest ==
  /\ task = "selecting"
  /\ \/ /\ outQueue > 0 /\ ~lost
        /\ outQueue' = outQueue - 1 /\ atServer' = atServer + 1
        /\ UNCHANGED <<task, inBuf>>
     \/ outQueue > 0 /\ lost /\ EndTask /\ UNCHANGED atServer
     \/ outQueue = 0 /\ user = "gone" /\ EndTask /\ UNCHANGED atServer
  /\ UNCHANGED <<user, sent, replies, packets, inQueue, received, channel>>

(* Mutant: the buffer is searched before the new bytes are appended. *)
TakePacket_SearchesFirst ==
  /\ task = "selecting" /\ packets # <<>> /\ Head(packets).type = "data"
  /\ packets' = Tail(packets)
  /\ IF inBuf > 0
     THEN task' = "enqueueing" /\ inBuf' = inBuf + Head(packets).ends - 1
     ELSE task' = "selecting" /\ inBuf' = inBuf + Head(packets).ends
  /\ UNCHANGED <<user, sent, outQueue, atServer, replies, inQueue, received, channel>>

(* Mutant: Eof is one of the messages that are ignored. *)
TakePacket_IgnoresEof ==
  /\ task = "selecting" /\ packets # <<>>
  /\ packets' = Tail(packets)
  /\ LET found == inBuf + Head(packets).ends IN
       /\ task' = IF found > 0 THEN "enqueueing" ELSE "selecting"
       /\ inBuf' = IF found > 0 THEN found - 1 ELSE 0
  /\ UNCHANGED <<user, sent, outQueue, atServer, replies, inQueue, received, channel>>

(* One message is split off, even if there are more, and Eof ends the task. *)
(* That there will be no packets any more, as the connection is lost, is    *)
(* passed over: wait() is called again, at once and for ever.               *)
TakePacket ==
  /\ task = "selecting" /\ packets # <<>>
  /\ packets' = Tail(packets)
  /\ LET found == inBuf + Head(packets).ends IN
       IF Head(packets).type = "eof"
       THEN EndTask
       ELSE /\ task' = IF found > 0 THEN "enqueueing" ELSE "selecting"
            /\ inBuf' = IF found > 0 THEN found - 1 ELSE 0
            /\ UNCHANGED outQueue
  /\ UNCHANGED <<user, sent, atServer, replies, inQueue, received, channel>>

(* Mutant: a message is dropped when the in queue is full. *)
Enqueue_DropsWhenFull ==
  /\ task = "enqueueing" /\ user # "gone"
  /\ task' = "selecting"
  /\ inQueue' = IF inQueue < QueueLen THEN inQueue + 1 ELSE inQueue
  /\ UNCHANGED <<user, sent, outQueue, atServer, replies, packets, inBuf, received, channel>>

(* Mutant: the in queue has no bound. *)
Enqueue_Unbounded ==
  /\ task = "enqueueing" /\ user # "gone"
  /\ task' = "selecting" /\ inQueue' = inQueue + 1
  /\ UNCHANGED <<user, sent, outQueue, atServer, replies, packets, inBuf, received, channel>>

(* The task waits for a place here and serves neither side meanwhile; it   *)
(* ends when no one is there to take the message.                          *)
Enqueue ==
  /\ task = "enqueueing"
  /\ \/ /\ user # "gone" /\ inQueue < QueueLen
        /\ task' = "selecting" /\ inQueue' = inQueue + 1
        /\ UNCHANGED <<outQueue, inBuf>>
     \/ user = "gone" /\ EndTask /\ UNCHANGED inQueue
  /\ UNCHANGED <<user, sent, atServer, replies, packets, received, channel>>

----------------------------------------------------------------------------
(* The server and the channel. *)

Answer ==
  /\ atServer > 0 /\ ~hungUp /\ ~lost
  /\ atServer' = atServer - 1 /\ replies' = replies + 1
  /\ UNCHANGED <<user, sent, outQueue, task, packets, inBuf, inQueue, received, channel>>

(* A packet may end within a message, and one may end several of them.     *)
Transmit ==
  /\ replies > 0 /\ ~hungUp /\ ~lost
  /\ \E n \in 1 .. MaxInPacket :
       /\ n <= replies /\ replies' = replies - n
       /\ \E pieces \in {<<>>, <<Data(0)>>} :
            packets' = packets \o pieces \o <<Data(n)>>
  /\ UNCHANGED <<user, sent, outQueue, task, atServer, inBuf, inQueue, received, channel>>

HangUp ==
  /\ ~hungUp /\ ~lost /\ hungUp' = TRUE
  /\ packets' = Append(packets, Eof)
  /\ UNCHANGED <<user, sent, outQueue, task, atServer, replies, inBuf, inQueue, received, lost>>

(* The connection is lost with the last of the packets on their way.       *)
Lose ==
  /\ ~lost /\ lost' = TRUE
  /\ \E n \in 0 .. Len(packets) : packets' = SubSeq(packets, 1, n)
  /\ UNCHANGED <<user, sent, outQueue, task, atServer, replies, inBuf, inQueue, received, hungUp>>

User   == Send \/ StartReceiving \/ Receive
Task   == ForwardRequest \/ TakePacket \/ Enqueue
Server == Answer \/ Transmit
Next   == User \/ Drop \/ Task \/ Server \/ HangUp \/ Lose

Spec == Init /\ [][Next]_vars

(* select! picks its branches in random order, so neither side is starved. *)
FairSpec ==
  /\ Spec
  /\ WF_vars(User) /\ WF_vars(Answer) /\ WF_vars(Transmit)
  /\ SF_vars(ForwardRequest) /\ SF_vars(TakePacket) /\ WF_vars(Enqueue)

----------------------------------------------------------------------------
InHand == IF task = "enqueueing" THEN 1 ELSE 0

(* The ends of messages in the packets of a sequence, each with its place. *)
Ends(s)   == {e \in (1 .. Len(s)) \X (1 .. MaxInPacket) : e[2] <= s[e[1]].ends}
InPackets == Cardinality(Ends(packets))

(* Type invariant, with the bounds of the two queues. *)
TypeOK ==
  /\ user \in {"sending", "receiving", "done", "failed", "gone"}
  /\ task \in {"selecting", "enqueueing", "ended"}
  /\ outQueue \in 0 .. QueueLen /\ inQueue \in 0 .. QueueLen
  /\ sent \in 0 .. Batch /\ received \in 0 .. Batch
  /\ atServer \in Nat /\ replies \in Nat /\ inBuf \in Nat
  /\ packets \in Seq(Packet) /\ hungUp \in BOOLEAN /\ lost \in BOOLEAN

(* Until the task ends or the connection does, every request that was sent *)
(* and every reply to it is in one of the stages: a full queue makes the   *)
(* task wait, it loses nothing (ssh.rs:69-97).                             *)
NothingLost ==
  task # "ended" /\ ~lost =>
    sent = outQueue + atServer + replies + InPackets + inBuf + InHand + inQueue + received

Settled == user \in {"done", "failed", "gone"}

(* The replies to a batch all arrive, unless the server hangs up, the      *)
(* connection is lost or the session dropped (session.rs:246-247).         *)
AllAnswered == []~(hungUp \/ lost \/ user = "gone") => <>(user = "done")

(* When Eof is on its way, the user is not left waiting: it gets its       *)
(* replies or an error (ssh.rs:98-101, 140-155).                           *)
HangUpIsNoticed ==
  (\E i \in DOMAIN packets : packets[i] = Eof) /\ ~lost ~> Settled \/ lost

(* When the connection is lost while a request waits to be forwarded, the  *)
(* user gets its replies or an error (ssh.rs:69-80, 140-155).  One that    *)
(* only waits for replies is not told (ssh.rs:105-107).                    *)
LossIsNoticed == (lost /\ outQueue > 0) ~> Settled

(* A session that is dropped takes the task with it, whatever it waits for *)
(* and whatever the queues hold (ssh.rs:69-80, 95).                        *)
TaskEnds == (user = "gone") ~> (task = "ended")

=============================================================================
