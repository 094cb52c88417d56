------------------------- MODULE SshTransportProofs -------------------------
(***************************************************************************)
(* Proofs about SshTransport, for batches and queues of every size and     *)
(* packets that end any number of messages.                                *)
(***************************************************************************)
EXTENDS SshTransport, FiniteSetTheorems, SequenceTheorems, TLAPS

(* There are finitely many ends in a sequence of packets.                  *)
LEMMA EndsFinite ==
  ASSUME NEW s \in Seq(Packet)
  PROVE  IsFiniteSet(Ends(s)) /\ Cardinality(Ends(s)) \in Nat
<1>1. IsFiniteSet(1 .. Len(s)) /\ IsFiniteSet(1 .. MaxInPacket)
  BY SshAssumption, FS_Interval, LenProperties
<1>2. IsFiniteSet((1 .. Len(s)) \X (1 .. MaxInPacket))
  BY <1>1, FS_Product
<1>3. Ends(s) \in SUBSET ((1 .. Len(s)) \X (1 .. MaxInPacket))
  BY DEF Ends
<1>4. IsFiniteSet(Ends(s))
  BY <1>2, <1>3, FS_Subset
<1> QED
  BY <1>4, FS_CardinalityType

(* The pairs of one place with the numbers up to n are n.                  *)
LEMMA EndsOfOne ==
  ASSUME NEW i, NEW n \in Nat
  PROVE  IsFiniteSet({i} \X (1 .. n)) /\ Cardinality({i} \X (1 .. n)) = n
<1>1. IsFiniteSet({i}) /\ Cardinality({i}) = 1
  BY FS_Singleton
<1>2. IsFiniteSet(1 .. n) /\ Cardinality(1 .. n) = n
  BY FS_Interval
<1>3. Cardinality({i} \X (1 .. n)) = 1 * n
  BY <1>1, <1>2, FS_Product
<1> QED
  BY <1>1, <1>2, <1>3, FS_Product

(* A packet that is added brings its ends.                                 *)
LEMMA EndsAppend ==
  ASSUME NEW s \in Seq(Packet), NEW p \in Packet
  PROVE  Cardinality(Ends(Append(s, p))) = Cardinality(Ends(s)) + p.ends
<1> DEFINE l == Len(s) + 1
           new == {l} \X (1 .. p.ends)
           t == Append(s, p)
<1>1. /\ Len(s) \in Nat /\ Len(t) = l /\ t[l] = p
      /\ \A i \in 1 .. Len(s) : t[i] = s[i]
  BY AppendProperties, LenProperties
<1>2. p.ends \in Nat /\ p.ends <= MaxInPacket /\ MaxInPacket \in Nat
  BY SshAssumption DEF Packet
<1>3. Ends(t) = Ends(s) \cup new
  <2> HIDE DEF t
  <2>1. ASSUME NEW e \in Ends(t) PROVE e \in Ends(s) \cup new
    BY <1>1, <1>2, <2>1 DEF Ends
  <2>2. ASSUME NEW e \in Ends(s) PROVE e \in Ends(t)
    BY <1>1, <1>2, <2>2 DEF Ends
  <2>3. ASSUME NEW e \in new PROVE e \in Ends(t)
    BY <1>1, <1>2, <2>3 DEF Ends
  <2> QED
    BY <2>1, <2>2, <2>3
<1>4. Ends(s) \cap new = {}
  BY <1>1 DEF Ends
<1>5. IsFiniteSet(Ends(s)) /\ IsFiniteSet(new) /\ Cardinality(new) = p.ends
  BY <1>2, EndsFinite, EndsOfOne
<1>6. Cardinality(Ends(s) \cup new) = Cardinality(Ends(s)) + Cardinality(new) - Cardinality({})
  BY <1>4, <1>5, FS_Union
<1> QED
  BY <1>2, <1>3, <1>5, <1>6, EndsFinite, FS_EmptySet

(* The first packet takes its ends with it.                                *)
LEMMA EndsTail ==
  ASSUME NEW s \in Seq(Packet), s # <<>>
  PROVE  Cardinality(Ends(s)) = Head(s).ends + Cardinality(Ends(Tail(s)))
<1> DEFINE p == Head(s)
           t == Tail(s)
           first == {1} \X (1 .. p.ends)
           rest == {e \in Ends(s) : e[1] # 1}
           move == [e \in Ends(t) |-> <<e[1] + 1, e[2]>>]
<1>1. /\ Len(s) \in Nat \ {0} /\ Len(t) = Len(s) - 1 /\ p = s[1] /\ p \in Packet
      /\ \A i \in 1 .. Len(t) : t[i] = s[i + 1]
      /\ t \in Seq(Packet)
  BY HeadTailProperties, LenProperties, EmptySeq
<1>2. p.ends \in Nat /\ p.ends <= MaxInPacket /\ MaxInPacket \in Nat
  BY <1>1, SshAssumption DEF Packet
<1>3. Ends(s) = first \cup rest /\ first \cap rest = {}
  BY <1>1, <1>2 DEF Ends
<1>4. move \in Bijection(Ends(t), rest)
  <2> HIDE DEF t, p
  <2>1. ASSUME NEW e \in Ends(t) PROVE <<e[1] + 1, e[2]>> \in rest
    BY <1>1, <2>1 DEF Ends
  <2>2. ASSUME NEW d, NEW e, d \in Ends(t), e \in Ends(t), move[d] = move[e] PROVE d = e
    BY <2>2 DEF Ends
  <2>3. ASSUME NEW e \in rest PROVE \E d \in Ends(t) : move[d] = e
    <3>1. <<e[1] - 1, e[2]>> \in Ends(t)
      BY <1>1, <2>3 DEF Ends
    <3>2. e = <<e[1], e[2]>> /\ e[1] \in Nat
      BY <2>3 DEF Ends
    <3> QED
      BY <3>1, <3>2
  <2> QED
    BY <2>1, <2>2, <2>3 DEF Bijection, Injection, Surjection, IsInjective
<1>5. IsFiniteSet(rest) /\ Cardinality(rest) = Cardinality(Ends(t)) /\ Cardinality(Ends(t)) \in Nat
  <2>1. IsFiniteSet(Ends(t)) /\ Cardinality(Ends(t)) \in Nat
    BY <1>1, EndsFinite
  <2>2. ExistsBijection(Ends(t), rest)
    BY <1>4 DEF ExistsBijection
  <2> QED
    BY <2>1, <2>2, FS_Bijection
<1>6. IsFiniteSet(first) /\ Cardinality(first) = p.ends
  BY <1>2, EndsOfOne
<1>7. Cardinality(first \cup rest) = Cardinality(first) + Cardinality(rest) - Cardinality({})
  BY <1>3, <1>5, <1>6, FS_Union
<1>8. Cardinality(Ends(s)) = Cardinality(first \cup rest)
  BY <1>3
<1> HIDE DEF first, rest, move
<1> QED
  BY <1>2, <1>5, <1>6, <1>7, <1>8, FS_EmptySet

----------------------------------------------------------------------------
(* What a packet is, and that packets are added to a sequence of them.     *)
LEMMA Packets ==
  /\ Eof \in Packet /\ \A n \in 0 .. MaxInPacket : Data(n) \in Packet
  /\ \A s \in Seq(Packet), p \in Packet : Append(s, p) \in Seq(Packet)
<1>1. Eof \in Packet /\ \A n \in 0 .. MaxInPacket : Data(n) \in Packet
  BY SshAssumption DEF Eof, Data, Packet
<1>2. \A s \in Seq(Packet), p \in Packet : Append(s, p) \in Seq(Packet)
  BY AppendProperties
<1> QED
  BY <1>1, <1>2

(* A packet that ends a message comes alone or after a piece of it.        *)
LEMMA Pieces ==
  ASSUME NEW s \in Seq(Packet), NEW pieces \in {<<>>, <<Data(0)>>},
         NEW n \in 1 .. MaxInPacket
  PROVE  /\ s \o pieces \o <<Data(n)>> \in Seq(Packet)
         /\ Cardinality(Ends(s \o pieces \o <<Data(n)>>)) = Cardinality(Ends(s)) + n
<1>1. Data(0) \in Packet /\ Data(n) \in Packet /\ Data(0).ends = 0 /\ Data(n).ends = n
  BY Packets, SshAssumption DEF Data
<1>2. CASE pieces = <<>>
  <2>1. s \o pieces \o <<Data(n)>> = Append(s, Data(n))
    BY <1>1, <1>2, ConcatProperties, AppendIsConcat, ConcatEmptySeq
  <2> QED
    BY <1>1, <2>1, EndsAppend, Packets
<1>3. CASE pieces = <<Data(0)>>
  <2>1. s \o pieces = Append(s, Data(0)) /\ Append(s, Data(0)) \in Seq(Packet)
    BY <1>1, <1>3, AppendIsConcat, Packets
  <2>2. s \o pieces \o <<Data(n)>> = Append(Append(s, Data(0)), Data(n))
    BY <1>1, <2>1, AppendIsConcat
  <2>3. Cardinality(Ends(Append(s, Data(0)))) = Cardinality(Ends(s)) + 0
    BY <1>1, EndsAppend
  <2>4. Cardinality(Ends(Append(Append(s, Data(0)), Data(n))))
          = Cardinality(Ends(Append(s, Data(0)))) + n
    BY <1>1, <2>1, EndsAppend
  <2>5. Append(Append(s, Data(0)), Data(n)) \in Seq(Packet)
    BY <1>1, <2>1, Packets
  <2>6. Cardinality(Ends(s)) \in Nat /\ n \in Nat
    BY EndsFinite
  <2>7. Cardinality(Ends(Append(Append(s, Data(0)), Data(n)))) = Cardinality(Ends(s)) + n
    BY <2>3, <2>4, <2>6
  <2> QED
    BY <2>2, <2>5, <2>7
<1> QED
  BY <1>2, <1>3

(* The first packet, and those behind it.                                  *)
LEMMA FirstPacket ==
  ASSUME NEW s \in Seq(Packet), s # <<>>
  PROVE  Head(s).ends \in Nat /\ Tail(s) \in Seq(Packet)
<1>1. Head(s) \in Packet /\ Tail(s) \in Seq(Packet)
  BY HeadTailProperties
<1> QED
  BY <1>1, SshAssumption DEF Packet

----------------------------------------------------------------------------
LEMMA InitTypeOK ==
  ASSUME Init PROVE TypeOK
<1>1. packets \in Seq(Packet)
  BY EmptySeq DEF Init
<1>2. 0 \in 0 .. QueueLen /\ 0 \in 0 .. Batch /\ 0 \in Nat
  BY SshAssumption
<1>3. hungUp \in BOOLEAN /\ lost \in BOOLEAN
  BY DEF Init
<1> QED
  BY <1>1, <1>2, <1>3, Zenon DEF Init, TypeOK

LEMMA StepTypeOK ==
  ASSUME TypeOK, [Next]_vars
  PROVE  TypeOK'
<1> USE SshAssumption DEF TypeOK, channel
<1>1. CASE UNCHANGED vars
  BY <1>1 DEF vars
<1>2. CASE User
  BY <1>2 DEF User, Send, StartReceiving, Receive
<1>3. CASE Drop
  BY <1>3 DEF Drop
<1>4. CASE ForwardRequest
  BY <1>4 DEF ForwardRequest, EndTask
<1>5. CASE TakePacket
  <2>1. packets' \in Seq(Packet) /\ Head(packets).ends \in Nat
    BY <1>5, FirstPacket DEF TakePacket
  <2> QED
    BY <1>5, <2>1 DEF TakePacket, EndTask
<1>6. CASE Enqueue
  BY <1>6 DEF Enqueue, EndTask
<1>7. CASE Answer
  BY <1>7 DEF Answer
<1>8. CASE Transmit
  <2>1. packets' \in Seq(Packet)
    BY <1>8, Pieces DEF Transmit
  <2> QED
    BY <1>8, <2>1 DEF Transmit
<1>9. CASE HangUp
  <2>1. packets' \in Seq(Packet)
    BY <1>9, Packets DEF HangUp
  <2> QED
    BY <1>9, <2>1 DEF HangUp
<1>10. CASE Lose
  <2>1. PICK n \in 0 .. Len(packets) : packets' = SubSeq(packets, 1, n)
    BY <1>10 DEF Lose
  <2>2. \A i \in 1 .. n : packets[i] \in Packet
    BY LenProperties, ElementOfSeq
  <2>3. packets' \in Seq(Packet)
    BY <2>1, <2>2, SubSeqProperties, LenProperties
  <2> QED
    BY <1>10, <2>3 DEF Lose
<1> QED
  BY <1>1, <1>2, <1>3, <1>4, <1>5, <1>6, <1>7, <1>8, <1>9, <1>10 DEF Next, Task, Server

(* Once the task has ended or the connection is lost, that is for good.    *)
LEMMA ForGood ==
  ASSUME [Next]_vars
  PROVE  task' # "ended" /\ ~lost' /\ lost \in BOOLEAN => task # "ended" /\ ~lost
BY DEF Next, User, Send, StartReceiving, Receive, Drop, Task, ForwardRequest, TakePacket,
       Enqueue, EndTask, Server, Answer, Transmit, HangUp, Lose, channel, vars

(* Each step moves messages from one stage to the next: the sum stays.     *)
LEMMA StepNothingLost ==
  ASSUME TypeOK, NothingLost, [Next]_vars
  PROVE  NothingLost'
<1> SUFFICES ASSUME task' # "ended", ~lost'
             PROVE  sent' = outQueue' + atServer' + replies' + InPackets' + inBuf'
                              + InHand' + inQueue' + received'
  BY DEF NothingLost
<1>1. sent = outQueue + atServer + replies + InPackets + inBuf + InHand + inQueue + received
  BY ForGood DEF NothingLost, TypeOK
<1>2. InPackets \in Nat
  BY EndsFinite DEF TypeOK, InPackets
<1>3. /\ outQueue \in Int /\ atServer \in Int /\ replies \in Int /\ inBuf \in Int
      /\ inQueue \in Int /\ received \in Int /\ sent \in Int
  BY SshAssumption DEF TypeOK
<1>4. packets' = packets => InPackets' = InPackets
  BY DEF InPackets
<1> USE <1>1, <1>2, <1>3, <1>4 DEF channel
<1>5. CASE UNCHANGED vars
  BY <1>5 DEF vars, InHand
<1>6. CASE User
  BY <1>6 DEF User, Send, StartReceiving, Receive, InHand
<1>7. CASE Drop
  BY <1>7 DEF Drop, InHand
<1>8. CASE ForwardRequest
  BY <1>8 DEF ForwardRequest, EndTask, InHand
<1>9. CASE TakePacket
  <2>1. InPackets = Head(packets).ends + InPackets'
    BY <1>9, EndsTail DEF TakePacket, InPackets, TypeOK
  <2>2. Head(packets).ends \in Nat /\ inBuf \in Nat /\ InPackets' \in Nat
    BY <1>9, FirstPacket, EndsFinite DEF TakePacket, TypeOK, InPackets
  <2>3. inBuf + Head(packets).ends = inBuf' + InHand' /\ InHand = 0
    BY <1>9, <2>2 DEF TakePacket, EndTask, InHand
  <2>4. inBuf' \in Nat /\ InHand' \in Nat
    BY <1>9, <2>2 DEF TakePacket, EndTask, InHand
  <2>5. UNCHANGED <<sent, outQueue, atServer, replies, inQueue, received>>
    BY <1>9 DEF TakePacket, EndTask
  <2>6. sent = outQueue + atServer + replies + InPackets' + inBuf' + InHand' + inQueue + received
    BY <2>1, <2>2, <2>3, <2>4
  <2> QED
    BY <2>5, <2>6
<1>10. CASE Enqueue
  BY <1>10 DEF Enqueue, EndTask, InHand
<1>11. CASE Answer
  BY <1>11 DEF Answer, InHand
<1>12. CASE Transmit
  <2>1. PICK n \in 1 .. MaxInPacket, pieces \in {<<>>, <<Data(0)>>} :
          replies' = replies - n /\ packets' = packets \o pieces \o <<Data(n)>>
    BY <1>12 DEF Transmit
  <2>2. InPackets' = InPackets + n
    BY <2>1, Pieces DEF InPackets, TypeOK
  <2> QED
    BY <1>12, <2>1, <2>2 DEF Transmit, InHand
<1>13. CASE HangUp
  <2>1. InPackets' = InPackets + 0
    BY <1>13, EndsAppend, Packets DEF HangUp, InPackets, TypeOK, Eof
  <2> QED
    BY <1>13, <2>1 DEF HangUp, InHand
<1>14. CASE Lose
  BY <1>14 DEF Lose
<1> QED
  BY <1>5, <1>6, <1>7, <1>8, <1>9, <1>10, <1>11, <1>12, <1>13, <1>14 DEF Next, Task, Server

----------------------------------------------------------------------------
(* The queues are never longer than their capacity, and no counter is      *)
(* counted down below zero (ssh.rs:60-63).                                 *)
THEOREM TypeCorrect == Spec => []TypeOK
<1>1. Init => TypeOK
  BY InitTypeOK
<1>2. TypeOK /\ [Next]_vars => TypeOK'
  BY StepTypeOK
<1> QED
  BY <1>1, <1>2, PTL DEF Spec

(* For every batch, queue and packet: until the task ends or the           *)
(* connection does, each request that was sent, or the reply to it, is in  *)
(* one of the stages (ssh.rs:69-97).                                       *)
THEOREM NothingIsLost == Spec => []NothingLost
<1>1. Init => NothingLost
  <2> SUFFICES ASSUME Init PROVE NothingLost
    OBVIOUS
  <2>1. Ends(packets) = {}
    BY EmptySeq DEF Init, Ends
  <2>2. InPackets = 0
    BY <2>1, FS_EmptySet DEF InPackets
  <2>3. InHand = 0
    BY DEF Init, InHand
  <2> QED
    BY <2>2, <2>3 DEF Init, NothingLost
<1>2. TypeOK /\ NothingLost /\ [Next]_vars => NothingLost'
  BY StepNothingLost
<1> QED
  BY <1>1, <1>2, TypeCorrect, PTL DEF Spec

=============================================================================
