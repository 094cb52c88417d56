--------------------------- MODULE SessionProofs ---------------------------
(***************************************************************************)
(* Proofs about Session, for every number of calls and of faults.          *)
(***************************************************************************)
EXTENDS Session, SequenceTheorems, FiniteSetTheorems,
        WellFoundedInduction, TLAPS

(* Taking a member out of a sequence leaves a sequence, and its head       *)
(* unless the head is what was taken out.                                  *)
LEMMA RemoveAtProperties ==
  ASSUME NEW S, NEW s \in Seq(S), NEW i \in DOMAIN s
  PROVE  /\ RemoveAt(s, i) \in Seq(S)
         /\ i # 1 => RemoveAt(s, i) # <<>> /\ Head(RemoveAt(s, i)) = Head(s)
<1> DEFINE a == SubSeq(s, 1, i - 1)
           b == SubSeq(s, i + 1, Len(s))
<1>1. i \in 1 .. Len(s) /\ Len(s) \in Nat
  BY LenProperties
<1>2. /\ a \in Seq(S) /\ Len(a) = IF 1 <= i - 1 THEN i - 1 ELSE 0
      /\ \A k \in 1 .. i - 1 : a[k] = s[k]
  BY <1>1, ElementOfSeq, SubSeqProperties
<1>3. b \in Seq(S)
  BY <1>1, ElementOfSeq, SubSeqProperties
<1>4. /\ a \o b \in Seq(S) /\ Len(a \o b) = Len(a) + Len(b)
      /\ \A k \in 1 .. Len(a) + Len(b) :
           (a \o b)[k] = IF k <= Len(a) THEN a[k] ELSE b[k - Len(a)]
  BY <1>2, <1>3, ConcatProperties
<1>5. ASSUME i # 1 PROVE a \o b # <<>> /\ Head(a \o b) = Head(s)
  <2>1. Len(a) >= 1 /\ Len(b) \in Nat
    BY <1>1, <1>2, <1>3, <1>5, LenProperties
  <2>2. (a \o b)[1] = s[1]
    BY <1>1, <1>2, <1>4, <1>5, <2>1
  <2> QED
    BY <1>1, <1>4, <2>1, <2>2
<1> QED
  BY <1>4, <1>5 DEF RemoveAt

----------------------------------------------------------------------------
(* Only the holder of the receive mutex reads or carries a message. *)
OnlyHolderReads ==
  \A id \in Ids : fut[id] \in {"reading", "holding"} => HoldsRx(id)

(* Every step of Next is one of these; the proofs below go through them in *)
(* this order.                                                             *)
LEMMA TypingStep == ASSUME TypeOK, OnlyHolderReads, [Next]_vars PROVE TypeOK'
<1> USE BoundsAssumption DEF TypeOK, Ids, NoId, caller, table, waiters, peer,
        Status, Unsettled, FutState, CallState, ServerState
<1>m. NoMessage \in Message /\ \A id \in Ids \cup {NoId} : Reply(id) \in Message
  BY DEF Message, NoMessage, Reply
<1>tail. ASSUME rxQueue # <<>> PROVE Tail(rxQueue) \in Seq(Ids)
  BY <1>tail, HeadTailProperties
<1>1. CASE RpcBegin
  BY <1>1 DEF RpcBegin
<1>3. CASE LockRequests
  BY <1>3 DEF LockRequests
<1>4. CASE SendRequest
  BY <1>4 DEF SendRequest
<1>5. CASE InsertPending
  BY <1>5 DEF InsertPending
<1>6. CASE AbortRpc
  <2>1. torn' \in BOOLEAN
    BY <1>6, Zenon DEF AbortRpc
  <2>2. call' = "idle" /\ UNCHANGED <<lastId, table, waiters, peer>>
    BY <1>6, Zenon DEF AbortRpc
  <2>3. faults' \in 0 .. MaxFaults
    BY <1>6 DEF AbortRpc
  <2> QED
    BY <2>1, <2>2, <2>3
<1>7. ASSUME NEW id \in Ids, Poll(id) PROVE TypeOK'
  BY <1>7, AppendProperties DEF Poll
<1>8. ASSUME NEW id \in Ids, TakeReply(id) PROVE TypeOK'
  BY <1>8, <1>tail DEF TakeReply, HoldsRx, Settle
<1>9. ASSUME NEW id \in Ids, FindPending(id) PROVE TypeOK'
  BY <1>9 DEF FindPending
<1>10. ASSUME NEW id \in Ids, ReadMessage(id) PROVE TypeOK'
  <2>1. Head(wire) \in Message /\ Tail(wire) \in Seq(Message) /\ Tail(rxQueue) \in Seq(Ids)
    BY <1>10, <1>tail, HeadTailProperties DEF ReadMessage, OnlyHolderReads, HoldsRx
  <2>2. inHand' \in Message /\ rxQueue' \in Seq(Ids) /\ wire' \in Seq(Message)
    BY <1>10, <2>1 DEF ReadMessage, Settle
  <2>3. fut' \in [Ids -> FutState]
    BY <1>10 DEF ReadMessage, Settle
  <2> QED
    BY <1>10, <2>2, <2>3 DEF ReadMessage
<1>11. ASSUME NEW id \in Ids, ReadError(id) PROVE TypeOK'
  BY <1>11, <1>tail DEF ReadError, Settle, OnlyHolderReads, HoldsRx
<1>12. ASSUME NEW id \in Ids, StoreReply(id) PROVE TypeOK'
  <2>1. Tail(rxQueue) \in Seq(Ids) /\ Append(Tail(rxQueue), id) \in Seq(Ids)
    BY <1>12, <1>tail, AppendProperties DEF StoreReply, OnlyHolderReads, HoldsRx
  <2>2. CASE Expected(inHand)
    <3>1. requests' \in [Ids -> Status] /\ slot' \in [Ids -> Message] /\ fut' \in [Ids -> FutState]
      BY <1>12, <2>2 DEF StoreReply
    <3> QED
      BY <1>12, <1>m, <2>1, <2>2, <3>1 DEF StoreReply
  <2>3. CASE ~Expected(inHand)
    BY <1>12, <1>m, <2>1, <2>3 DEF StoreReply, Settle
  <2> QED
    BY <2>2, <2>3
<1>13. ASSUME NEW id \in Ids, DropFuture(id) PROVE TypeOK'
  BY <1>13, <1>m, RemoveAtProperties DEF DropFuture
<1>14. ASSUME NEW id \in Ids, Answer(id) PROVE TypeOK'
  BY <1>14, <1>m, AppendProperties DEF Answer
<1>15. ASSUME NEW id \in Ids, AnswerBadly(id) PROVE TypeOK'
  BY <1>15, AppendProperties DEF AnswerBadly, Message
<1>16. ASSUME NEW id \in Ids \cup {NoId}, SendUnexpected(id) PROVE TypeOK'
  <2>1. wire' \in Seq(Message)
    BY <1>16, <1>m, AppendProperties DEF SendUnexpected
  <2>2. faults' \in 0 .. MaxFaults
    BY <1>16, BoundsAssumption DEF SendUnexpected
  <2>3. UNCHANGED <<caller, table, waiters, server>>
    BY <1>16, Zenon DEF SendUnexpected
  <2> QED
    BY <2>1, <2>2, <2>3
<1>17. CASE UNCHANGED vars
  BY <1>17 DEF vars
<1>18. ASSUME NEW id \in Ids, RejectGarbled(id) PROVE TypeOK'
  BY <1>18, AppendProperties DEF RejectGarbled, Message
<1> QED
  BY <1>1, <1>3, <1>4, <1>5, <1>6, <1>7, <1>8, <1>9, <1>10, <1>11, <1>12,
     <1>13, <1>14, <1>15, <1>16, <1>17, <1>18 DEF Next, Caller, Waiter

LEMMA HolderStep ==
  ASSUME TypeOK, OnlyHolderReads, [Next]_vars
  PROVE  OnlyHolderReads'
<1> USE DEF OnlyHolderReads, HoldsRx, caller, table, waiters, peer
<1>1. CASE RpcBegin \/ LockRequests \/ SendRequest \/ InsertPending \/ AbortRpc
  BY <1>1 DEF RpcBegin, LockRequests, SendRequest, InsertPending, AbortRpc, TypeOK
<1>2. ASSUME NEW id \in Ids, Poll(id) PROVE OnlyHolderReads'
  <2>1. rxQueue # <<>> => rxQueue' # <<>> /\ Head(rxQueue') = Head(rxQueue)
    BY <1>2, AppendProperties DEF Poll, TypeOK
  <2> QED
    BY <1>2, <2>1 DEF Poll, TypeOK
<1>3. ASSUME NEW id \in Ids,
             \/ TakeReply(id) \/ FindPending(id) \/ ReadMessage(id) \/ ReadError(id)
             \/ StoreReply(id)
      PROVE  OnlyHolderReads'
  <2>1. rxQueue # <<>> /\ Head(rxQueue) = id
    BY <1>3 DEF TakeReply, FindPending, ReadMessage, ReadError, StoreReply
  <2>2. \A q \in Ids \ {id} : fut'[q] = fut[q] /\ fut[q] \notin {"reading", "holding"}
    BY <1>3, <2>1 DEF TakeReply, FindPending, ReadMessage, ReadError, StoreReply, Settle, TypeOK
  <2>3. fut'[id] \in {"reading", "holding"} => rxQueue' = rxQueue
    BY <1>3 DEF TakeReply, FindPending, ReadMessage, ReadError, StoreReply, Settle, TypeOK
  <2> QED
    BY <2>1, <2>2, <2>3
<1>4. ASSUME NEW id \in Ids, DropFuture(id) PROVE OnlyHolderReads'
  <2> SUFFICES ASSUME NEW q \in Ids \ {id}, fut[q] \in {"reading", "holding"}
               PROVE  rxQueue' # <<>> /\ Head(rxQueue') = q
    BY <1>4 DEF DropFuture, TypeOK
  <2>1. rxQueue # <<>> /\ Head(rxQueue) = q
    OBVIOUS
  <2>2. CASE fut[id] = "unpolled"
    BY <1>4, <2>1, <2>2 DEF DropFuture
  <2>3. CASE fut[id] # "unpolled"
    <3>1. PICK i \in DOMAIN rxQueue : rxQueue[i] = id /\ rxQueue' = RemoveAt(rxQueue, i)
      BY <1>4, <2>3 DEF DropFuture
    <3>2. i # 1
      BY <2>1, <3>1 DEF TypeOK
    <3> QED
      BY <2>1, <3>1, <3>2, RemoveAtProperties DEF TypeOK
  <2> QED
    BY <2>2, <2>3
<1>5. ASSUME NEW id \in Ids, Answer(id) \/ AnswerBadly(id) \/ RejectGarbled(id) PROVE OnlyHolderReads'
  BY <1>5 DEF Answer, AnswerBadly, RejectGarbled
<1>6. ASSUME NEW id \in Ids \cup {NoId}, SendUnexpected(id) PROVE OnlyHolderReads'
  BY <1>6 DEF SendUnexpected
<1>7. CASE UNCHANGED vars
  BY <1>7 DEF vars
<1> QED
  BY <1>1, <1>2, <1>3, <1>4, <1>5, <1>6, <1>7 DEF Next, Caller, Waiter

LEMMA Typed == Spec => [](TypeOK /\ OnlyHolderReads)
<1>1. Init => TypeOK
  <2>1. NoMessage \in Message /\ <<>> \in Seq(Ids) /\ <<>> \in Seq(Message)
    BY DEF NoMessage, Message
  <2> SUFFICES ASSUME Init PROVE TypeOK
    OBVIOUS
  <2>2. lastId \in 0 .. MaxRpcs /\ faults \in 0 .. MaxFaults
    BY BoundsAssumption DEF Init, NoId
  <2>3. call \in CallState /\ torn \in BOOLEAN /\ requests \in [Ids -> Status]
    BY DEF Init, CallState, Status
  <2>4. slot \in [Ids -> Message] /\ fut \in [Ids -> FutState] /\ inHand \in Message
    BY <2>1 DEF Init, FutState
  <2> QED
    BY <2>1, <2>2, <2>3, <2>4 DEF Init, TypeOK, ServerState
<1>2. Init => OnlyHolderReads
  BY DEF Init, OnlyHolderReads
<1> QED
  BY <1>1, <1>2, TypingStep, HolderStep, PTL DEF Spec

(* The state of the session keeps its types.                               *)
THEOREM TypeCorrect == Spec => []TypeOK
BY Typed, PTL

----------------------------------------------------------------------------
(* The table and the futures agree: a future exists once its entry does,   *)
(* and the entry of a call in progress does not exist yet.                 *)
TableInv ==
  /\ \A id \in Ids : fut[id] = "reading" => requests[id] = "pending"
  /\ \A id \in Ids : requests[id] = "absent" => fut[id] = "none"
  /\ call # "idle" => lastId \in Ids
  /\ call \in {"sending", "sent"} => requests[lastId] = "absent"

LEMMA TableStep ==
  ASSUME TypeOK, OnlyHolderReads, TableInv, [Next]_vars
  PROVE  TableInv'
<1> USE DEF TableInv, OnlyHolderReads, HoldsRx, TypeOK, caller, table, waiters, peer
<1>1. CASE RpcBegin
  <2>1. lastId' \in Ids
    BY <1>1, BoundsAssumption DEF RpcBegin, Ids
  <2>2. call' \in {"idle", "waiting"} /\ UNCHANGED <<requests, fut>>
    BY <1>1 DEF RpcBegin
  <2> QED
    BY <2>1, <2>2
<1>2. CASE LockRequests \/ SendRequest \/ AbortRpc
  BY <1>2 DEF LockRequests, SendRequest, AbortRpc
<1>3. CASE InsertPending
  BY <1>3 DEF InsertPending
<1>4. ASSUME NEW id \in Ids, Poll(id) \/ FindPending(id) PROVE TableInv'
  BY <1>4 DEF Poll, FindPending
<1>5. ASSUME NEW id \in Ids, TakeReply(id) PROVE TableInv'
  <2>1. \A q \in Ids \ {id} : requests'[q] = requests[q] /\ fut'[q] = fut[q]
    BY <1>5 DEF TakeReply, Settle
  <2>2. fut'[id] \in {"done", "failed"} /\ requests[id] # "absent" /\ requests'[id] # "absent"
    BY <1>5 DEF TakeReply, Settle
  <2>3. UNCHANGED caller /\ requests[id] # "absent"
    BY <1>5, <2>2 DEF TakeReply
  <2> QED
    BY <2>1, <2>2, <2>3
<1>6. ASSUME NEW id \in Ids, ReadMessage(id) \/ ReadError(id) PROVE TableInv'
  BY <1>6 DEF ReadMessage, ReadError, Settle
<1>7. ASSUME NEW id \in Ids, StoreReply(id) PROVE TableInv'
  <2>1. fut'[id] \in {"queued", "failed"} /\ requests[id] # "absent"
    BY <1>7 DEF StoreReply, Settle
  <2>2. \A q \in Ids \ {id} : fut'[q] = fut[q] /\ fut[q] # "reading"
    BY <1>7 DEF StoreReply, Settle
  <2>3. \A q \in Ids : (requests'[q] = "absent") = (requests[q] = "absent")
    BY <1>7 DEF StoreReply, Expected
  <2>4. UNCHANGED caller
    BY <1>7 DEF StoreReply
  <2> QED
    BY <2>1, <2>2, <2>3, <2>4
<1>8. ASSUME NEW id \in Ids, DropFuture(id) PROVE TableInv'
  BY <1>8 DEF DropFuture, Unsettled
<1>9. ASSUME NEW id \in Ids, Answer(id) \/ AnswerBadly(id) \/ RejectGarbled(id) PROVE TableInv'
  BY <1>9 DEF Answer, AnswerBadly, RejectGarbled
<1>10. ASSUME NEW id \in Ids \cup {NoId}, SendUnexpected(id) PROVE TableInv'
  BY <1>10 DEF SendUnexpected
<1>11. CASE UNCHANGED vars
  BY <1>11 DEF vars
<1> QED
  BY <1>1, <1>2, <1>3, <1>4, <1>5, <1>6, <1>7, <1>8, <1>9, <1>10, <1>11
     DEF Next, Caller, Waiter

LEMMA Consistent == Spec => [](TypeOK /\ OnlyHolderReads /\ TableInv)
<1>1. Init => TableInv
  BY DEF Init, TableInv
<1> QED
  BY <1>1, Typed, TableStep, PTL DEF Spec

(* No future reads the transport while its own reply is already stored:    *)
(* checking the table and reading are one critical section.                *)
THEOREM NothingStranded == Spec => []NoStrandedReply
<1>1. OnlyHolderReads /\ TableInv => NoStrandedReply
  BY DEF OnlyHolderReads, TableInv, NoStrandedReply
<1> QED
  BY <1>1, Consistent, PTL

(* A stored reply is neither overwritten nor removed before its own future *)
(* takes it.                                                               *)
THEOREM StoredReplyKept == Spec => StoredReplyIsKept
<1> DEFINE Kept(id) == requests[id] = "ready" =>
             \/ requests'[id] = "ready" /\ slot'[id] = slot[id]
             \/ requests'[id] = "complete" /\ fut'[id] \in {"done", "failed"}
<1>1. ASSUME TypeOK, TableInv, Next, NEW id \in Ids PROVE Kept(id)
  <2> USE <1>1 DEF TypeOK, caller, table, waiters, peer
  <2>1. CASE RpcBegin \/ LockRequests \/ SendRequest \/ AbortRpc
    BY <2>1 DEF RpcBegin, LockRequests, SendRequest, AbortRpc
  <2>2. CASE InsertPending
    BY <2>2 DEF InsertPending, TableInv
  <2>3. ASSUME NEW q \in Ids, TakeReply(q) PROVE Kept(id)
    <3>1. UNCHANGED slot /\ (id # q => requests'[id] = requests[id])
      BY <2>3 DEF TakeReply
    <3>2. requests[q] = "ready" => requests'[q] = "complete" /\ fut'[q] \in {"done", "failed"}
      BY <2>3 DEF TakeReply, Settle
    <3> QED
      BY <3>1, <3>2
  <2>4. ASSUME NEW q \in Ids, StoreReply(q) PROVE Kept(id)
    BY <2>4 DEF StoreReply, Expected
  <2>5. ASSUME NEW q \in Ids,
               \/ Poll(q) \/ FindPending(q) \/ ReadMessage(q) \/ ReadError(q)
               \/ DropFuture(q) \/ Answer(q) \/ AnswerBadly(q) \/ RejectGarbled(q)
        PROVE  Kept(id)
    <3>1. UNCHANGED table
      BY <2>5 DEF Poll, FindPending, ReadMessage, ReadError, DropFuture, Answer, AnswerBadly,
                  RejectGarbled
    <3> QED
      BY <3>1
  <2>6. ASSUME NEW q \in Ids \cup {NoId}, SendUnexpected(q) PROVE Kept(id)
    BY <2>6 DEF SendUnexpected
  <2> QED
    BY <1>1, <2>1, <2>2, <2>3, <2>4, <2>5, <2>6 DEF Next, Caller, Waiter
<1>2. TypeOK /\ TableInv /\ [Next]_vars => [\A id \in Ids : Kept(id)]_vars
  BY <1>1
<1> QED
  BY <1>2, Consistent, PTL DEF Spec, StoredReplyIsKept

----------------------------------------------------------------------------
(* Messages with an id of the client exist only once the server answered   *)
(* that request, entries hold messages with their own id, and a future is  *)
(* done only with the message its entry gave up.                           *)
Answered(id) == server[id] = "answered"

AnswerInv ==
  /\ \A id \in Ids : server[id] # "none" => id <= lastId
  /\ call \in {"waiting", "sending"} => server[lastId] = "none"
  /\ \A i \in DOMAIN wire : wire[i].id \in Ids => Answered(wire[i].id)
  /\ inHand.id \in Ids => Answered(inHand.id)
  /\ \A id \in Ids : requests[id] \in {"ready", "complete"} => slot[id].id = id /\ Answered(id)
  /\ \A id \in Ids : fut[id] = "done" => requests[id] = "complete" /\ slot[id].body = "good"

LEMMA AnswerStep ==
  ASSUME TypeOK, OnlyHolderReads, TableInv, AnswerInv, [Next]_vars
  PROVE  AnswerInv'
<1> USE DEF AnswerInv, Answered, TypeOK, caller, table, waiters, peer
<1>1. CASE RpcBegin
  <2>1. lastId' = lastId + 1 /\ lastId' \in Ids
    BY <1>1, BoundsAssumption DEF RpcBegin, Ids
  <2>2. server[lastId'] = "none"
    BY <2>1, BoundsAssumption DEF Ids
  <2>3. UNCHANGED <<table, waiters, peer>>
    BY <1>1 DEF RpcBegin
  <2>4. \A id \in Ids : server'[id] # "none" => id <= lastId'
    BY <2>1, <2>3, BoundsAssumption DEF Ids
  <2>5. server'[lastId'] = "none"
    BY <2>2, <2>3
  <2> QED
    BY <2>3, <2>4, <2>5
<1>2. CASE LockRequests \/ AbortRpc
  BY <1>2 DEF LockRequests, AbortRpc
<1>3. CASE SendRequest
  <2>1. lastId \in Ids /\ server[lastId] = "none" /\ call' = "sent"
    BY <1>3 DEF SendRequest, TableInv
  <2>2. \A id \in Ids : id # lastId => server'[id] = server[id]
    BY <1>3 DEF SendRequest
  <2>3. UNCHANGED <<lastId, table, waiters, wire>>
    BY <1>3 DEF SendRequest
  <2>4. \A id \in Ids : Answered(id) => Answered(id)'
    BY <2>1, <2>2
  <2>5. \A id \in Ids : server'[id] # "none" => id <= lastId'
    BY <2>1, <2>2, <2>3, BoundsAssumption DEF Ids
  <2> QED
    BY <2>1, <2>3, <2>4, <2>5
<1>4. CASE InsertPending
  BY <1>4 DEF InsertPending, TableInv
<1>5. ASSUME NEW id \in Ids, Poll(id) \/ FindPending(id) PROVE AnswerInv'
  BY <1>5 DEF Poll, FindPending
<1>6. ASSUME NEW id \in Ids, TakeReply(id) PROVE AnswerInv'
  <2>1. UNCHANGED <<caller, slot, inHand, peer>>
    BY <1>6 DEF TakeReply
  <2>2. \A q \in Ids \ {id} : requests'[q] = requests[q] /\ fut'[q] = fut[q]
    BY <1>6 DEF TakeReply, Settle
  <2>3. requests'[id] \in {"ready", "complete"} => requests[id] \in {"ready", "complete"}
    BY <1>6 DEF TakeReply, Settle
  <2>4. fut'[id] = "done" => requests'[id] = "complete" /\ slot[id].body = "good"
    BY <1>6 DEF TakeReply, Settle
  <2> QED
    BY <2>1, <2>2, <2>3, <2>4
<1>7. ASSUME NEW id \in Ids, ReadMessage(id) PROVE AnswerInv'
  <2>1. /\ wire # <<>> /\ wire' = Tail(wire) /\ inHand' \in {inHand, Head(wire)}
        /\ UNCHANGED <<caller, table, server>>
    BY <1>7 DEF ReadMessage, Settle
  <2>2. /\ Head(wire) = wire[1] /\ 1 \in DOMAIN wire
        /\ \A i \in DOMAIN wire' : i + 1 \in DOMAIN wire /\ wire'[i] = wire[i + 1]
    BY <2>1, HeadTailProperties, LenProperties
  <2>3. \A q \in Ids : fut'[q] = "done" => fut[q] = "done"
    BY <1>7 DEF ReadMessage, Settle
  <2> QED
    BY <2>1, <2>2, <2>3
<1>8. ASSUME NEW id \in Ids, ReadError(id) PROVE AnswerInv'
  BY <1>8 DEF ReadError, Settle
<1>9. ASSUME NEW id \in Ids, StoreReply(id) PROVE AnswerInv'
  <2>1. UNCHANGED <<caller, peer>> /\ inHand' = NoMessage
    BY <1>9 DEF StoreReply
  <2>2. \A q \in Ids : fut'[q] = "done" => fut[q] = "done"
    BY <1>9 DEF StoreReply, Settle
  <2>3. \A q \in Ids : \/ requests'[q] = requests[q] /\ slot'[q] = slot[q]
                       \/ /\ requests[q] = "pending" /\ q = inHand.id
                          /\ requests'[q] = "ready" /\ slot'[q] = inHand
    BY <1>9 DEF StoreReply, Expected
  <2>4. inHand'.id \notin Ids
    BY <2>1 DEF NoMessage, NoId, Ids
  <2> QED
    BY <2>1, <2>2, <2>3, <2>4
<1>10. ASSUME NEW id \in Ids, DropFuture(id) PROVE AnswerInv'
  <2>1. UNCHANGED <<caller, table, peer>> /\ inHand' \in {inHand, NoMessage}
    BY <1>10 DEF DropFuture
  <2>2. NoMessage.id \notin Ids
    BY DEF NoMessage, NoId, Ids
  <2>3. \A q \in Ids : fut'[q] = "done" => fut[q] = "done"
    BY <1>10 DEF DropFuture
  <2> QED
    BY <2>1, <2>2, <2>3
<1>11. ASSUME NEW id \in Ids, Answer(id) \/ AnswerBadly(id) PROVE AnswerInv'
  <2>1. PICK m \in Message : m.id = id /\ wire' = Append(wire, m)
    BY <1>11 DEF Answer, AnswerBadly, Reply, Message
  <2>2. /\ UNCHANGED <<caller, table, waiters>>
        /\ server[id] = "received" /\ server' = [server EXCEPT ![id] = "answered"]
    BY <1>11 DEF Answer, AnswerBadly
  <2>3. \A i \in DOMAIN wire' : wire'[i] = m \/ (i \in DOMAIN wire /\ wire'[i] = wire[i])
    BY <2>1, AppendProperties, LenProperties
  <2> QED
    BY <2>1, <2>2, <2>3
<1>12. ASSUME NEW id \in Ids \cup {NoId}, SendUnexpected(id) PROVE AnswerInv'
  <2>1. /\ Reply(id) \in Message /\ wire' = Append(wire, Reply(id))
        /\ UNCHANGED <<caller, table, waiters, server>>
        /\ id \in Ids => Answered(id)
    BY <1>12 DEF SendUnexpected, Reply, Message, NoId, Ids
  <2>2. \A i \in DOMAIN wire' :
          wire'[i] = Reply(id) \/ (i \in DOMAIN wire /\ wire'[i] = wire[i])
    BY <2>1, AppendProperties, LenProperties
  <2> QED
    BY <2>1, <2>2 DEF Reply
<1>13. CASE UNCHANGED vars
  BY <1>13 DEF vars
<1>14. ASSUME NEW id \in Ids, RejectGarbled(id) PROVE AnswerInv'
  <2>1. PICK m \in Message : m.id = NoId /\ wire' = Append(wire, m)
    BY <1>14 DEF RejectGarbled, Message
  <2>2. /\ UNCHANGED <<caller, table, waiters>>
        /\ server[id] = "garbled" /\ server' = [server EXCEPT ![id] = "rejected"]
    BY <1>14 DEF RejectGarbled
  <2>3. \A i \in DOMAIN wire' : wire'[i] = m \/ (i \in DOMAIN wire /\ wire'[i] = wire[i])
    BY <2>1, AppendProperties, LenProperties
  <2>4. m.id \notin Ids /\ \A q \in Ids : Answered(q) => Answered(q)'
    BY <2>1, <2>2 DEF NoId, Ids
  <2> QED
    BY <2>1, <2>2, <2>3, <2>4
<1> QED
  BY <1>1, <1>2, <1>3, <1>4, <1>5, <1>6, <1>7, <1>8, <1>9, <1>10, <1>11, <1>12, <1>13, <1>14
     DEF Next, Caller, Waiter

LEMMA AnswersTraced == Spec => []AnswerInv
<1>1. Init => AnswerInv
  BY DEF Init, AnswerInv, NoMessage, NoId, Ids
<1> QED
  BY <1>1, Consistent, AnswerStep, PTL DEF Spec

(* A future that is done has the reply that carries its own id, and the    *)
(* server sent it in answer to that request.                               *)
THEOREM OwnReplyDelivered == Spec => []OwnReply
<1>1. TypeOK /\ AnswerInv => OwnReply
  BY DEF TypeOK, AnswerInv, Answered, OwnReply, Message, Reply
<1> QED
  BY <1>1, Consistent, AnswersTraced, PTL

----------------------------------------------------------------------------
(* Why failures are bounded by faults: every failure is a debt, and so is  *)
(* every piece of the state that is going to cause one - a message that    *)
(* cannot be parsed, or that no entry will be waiting for when it is read. *)
(* The client's own steps only move debts; a fault creates at most one.    *)
(* A torn request is the server's debt 0 until another one follows it.     *)
Holding == \E id \in Ids : fut[id] = "holding"

FutureInv ==
  /\ \A id \in Ids : fut[id] \in Unsettled => requests[id] \in {"pending", "ready"}
  /\ ~Holding => inHand = NoMessage

(* An entry waits for the reply to r, or will once rpc() goes on. *)
Awaited(r) ==
  r \in Ids /\ (requests[r] = "pending" \/ (call = "sent" /\ lastId = r))

(* The message at place i of the wire is not the first good one for an     *)
(* entry that waits.                                                       *)
Surplus(i) ==
  \/ wire[i].body # "good" \/ ~Awaited(wire[i].id) \/ inHand.id = wire[i].id
  \/ \E j \in 1 .. i - 1 : wire[j].id = wire[i].id

FailedDebt(n) == n \in Ids /\ fut[n] = "failed"
ServerDebt(n) ==
  \/ n = 0 /\ torn
  \/ n \in Ids /\ server[n] = "garbled"
  \/ n \in Ids /\ server[n] = "received" /\ ~Awaited(n)
WireDebt(n)   == n \in DOMAIN wire /\ Surplus(n)
HandDebt(n)   == n = 0 /\ Holding /\ (inHand.body # "good" \/ ~Awaited(inHand.id))
SlotDebt(n)   == n \in Ids /\ requests[n] = "ready" /\ slot[n].body # "good"

Debts ==
  {d \in {"failed", "server", "wire", "hand", "slot"} \X Nat :
     \/ d[1] = "failed" /\ FailedDebt(d[2])
     \/ d[1] = "server" /\ ServerDebt(d[2])
     \/ d[1] = "wire" /\ WireDebt(d[2])
     \/ d[1] = "hand" /\ HandDebt(d[2])
     \/ d[1] = "slot" /\ SlotDebt(d[2])}

DebtsPaid == IsFiniteSet(Debts) /\ Cardinality(Debts) <= faults

LEMMA FutureStep ==
  ASSUME TypeOK, OnlyHolderReads, TableInv, FutureInv, [Next]_vars
  PROVE  FutureInv'
<1> USE DEF FutureInv, Holding, TypeOK, Unsettled, caller, table, waiters, peer
<1>1. CASE RpcBegin \/ LockRequests \/ SendRequest \/ AbortRpc
  BY <1>1 DEF RpcBegin, LockRequests, SendRequest, AbortRpc
<1>2. CASE InsertPending
  BY <1>2 DEF InsertPending, TableInv
<1>3. ASSUME NEW id \in Ids, Poll(id) \/ FindPending(id) PROVE FutureInv'
  BY <1>3 DEF Poll, FindPending
<1>4. ASSUME NEW id \in Ids, TakeReply(id) PROVE FutureInv'
  <2>1. \A q \in Ids \ {id} : requests'[q] = requests[q] /\ fut'[q] = fut[q]
    BY <1>4 DEF TakeReply, Settle
  <2>2. fut'[id] \in {"done", "failed"} /\ fut[id] # "holding" /\ UNCHANGED inHand
    BY <1>4 DEF TakeReply, Settle
  <2> QED
    BY <2>1, <2>2
<1>5. ASSUME NEW id \in Ids, ReadMessage(id) PROVE FutureInv'
  BY <1>5 DEF ReadMessage, Settle
<1>6. ASSUME NEW id \in Ids, ReadError(id) PROVE FutureInv'
  BY <1>6 DEF ReadError, Settle
<1>7. ASSUME NEW id \in Ids, StoreReply(id) PROVE FutureInv'
  <2>1. \A q \in Ids \ {id} : fut'[q] = fut[q]
    BY <1>7 DEF StoreReply, Settle
  <2>2. \A q \in Ids : requests'[q] = requests[q] \/ requests'[q] = "ready"
    BY <1>7 DEF StoreReply, Expected
  <2>3. fut'[id] \in {"queued", "failed"} /\ inHand' = NoMessage
    BY <1>7 DEF StoreReply, Settle
  <2>4. requests[id] \in {"pending", "ready"}
    BY <1>7 DEF StoreReply
  <2> QED
    BY <2>1, <2>2, <2>3, <2>4
<1>8. ASSUME NEW id \in Ids, DropFuture(id) PROVE FutureInv'
  BY <1>8 DEF DropFuture
<1>9. ASSUME NEW id \in Ids, Answer(id) \/ AnswerBadly(id) \/ RejectGarbled(id) PROVE FutureInv'
  BY <1>9 DEF Answer, AnswerBadly, RejectGarbled
<1>10. ASSUME NEW id \in Ids \cup {NoId}, SendUnexpected(id) PROVE FutureInv'
  BY <1>10 DEF SendUnexpected
<1>11. CASE UNCHANGED vars
  BY <1>11 DEF vars
<1> QED
  BY <1>1, <1>2, <1>3, <1>4, <1>5, <1>6, <1>7, <1>8, <1>9, <1>10, <1>11
     DEF Next, Caller, Waiter

(* A set of numbers that is not empty has a least member: the induction    *)
(* that the provers can use.                                               *)
LEMMA LeastMember ==
  ASSUME NEW Q \in SUBSET Nat, Q # {}
  PROVE  \E m \in Q : \A n \in Q : m <= n
<1> DEFINE Less == {p \in Nat \X Nat : p[1] < p[2]}
<1>1. IsWellFoundedOn(Less, Nat)
  BY NatLessThanWellFounded DEF OpToRel
<1>2. \E m \in Q : \A n \in Q : <<n, m>> \notin Less
  <2> HIDE DEF Less
  <2> QED
    BY <1>1, WFMin
<1>3. \A m, n \in Nat : <<n, m>> \notin Less => m <= n
  OBVIOUS
<1> QED
  BY <1>2, <1>3

(* What a set can cover is not less after its members moved, and not more  *)
(* than one more after a member was added.                                 *)
LEMMA MovedSet ==
  ASSUME NEW S, NEW n \in Nat, IsFiniteSet(S), Cardinality(S) <= n,
         NEW g, NEW T, T \subseteq {g[d] : d \in S}
  PROVE  IsFiniteSet(T) /\ Cardinality(T) <= n
<1> DEFINE h == [d \in S |-> g[d]]
           G == {g[d] : d \in S}
<1>1. h \in Surjection(S, G)
  BY DEF Surjection
<1>2. IsFiniteSet(G) /\ Cardinality(G) <= Cardinality(S)
  BY <1>1, FS_Surjection
<1>3. IsFiniteSet(T) /\ Cardinality(T) <= Cardinality(G)
  BY <1>2, FS_Subset
<1>4. Cardinality(S) \in Nat /\ Cardinality(G) \in Nat /\ Cardinality(T) \in Nat
  BY <1>2, <1>3, FS_CardinalityType
<1> QED
  BY <1>2, <1>3, <1>4

LEMMA OneMore ==
  ASSUME NEW S, NEW n \in Nat, IsFiniteSet(S), Cardinality(S) <= n,
         NEW x, NEW T, T \subseteq S \cup {x}
  PROVE  IsFiniteSet(T) /\ Cardinality(T) <= n + 1
<1>1. IsFiniteSet(S \cup {x}) /\ Cardinality(S \cup {x}) <= Cardinality(S) + 1
  <2>1. Cardinality(S) \in Nat
    BY FS_CardinalityType
  <2>2. /\ IsFiniteSet(S \cup {x})
        /\ Cardinality(S \cup {x}) = IF x \in S THEN Cardinality(S) ELSE Cardinality(S) + 1
    BY FS_AddElement
  <2> QED
    BY <2>1, <2>2
<1>2. IsFiniteSet(T) /\ Cardinality(T) <= Cardinality(S \cup {x})
  BY <1>1, FS_Subset
<1>3. /\ Cardinality(S) \in Nat /\ Cardinality(S \cup {x}) \in Nat
      /\ Cardinality(T) \in Nat
  BY <1>1, <1>2, FS_CardinalityType
<1> QED
  BY <1>1, <1>2, <1>3
LEMMA DebtMembers ==
  ASSUME TypeOK, NEW n
  PROVE  /\ FailedDebt(n) => <<"failed", n>> \in Debts
         /\ ServerDebt(n) => <<"server", n>> \in Debts
         /\ WireDebt(n) => <<"wire", n>> \in Debts
         /\ HandDebt(n) => <<"hand", n>> \in Debts
         /\ SlotDebt(n) => <<"slot", n>> \in Debts
<1>1. \A id \in Ids : id \in Nat
  BY BoundsAssumption DEF Ids
<1>2. \A i \in DOMAIN wire : i \in Nat
  BY LenProperties DEF TypeOK
<1>3. FailedDebt(n) => <<"failed", n>> \in Debts
  BY <1>1 DEF Debts, FailedDebt
<1>4. ServerDebt(n) => <<"server", n>> \in Debts
  BY <1>1 DEF Debts, ServerDebt
<1>5. WireDebt(n) => <<"wire", n>> \in Debts
  BY <1>2 DEF Debts, WireDebt
<1>6. HandDebt(n) => <<"hand", n>> \in Debts
  BY DEF Debts, HandDebt
<1>7. SlotDebt(n) => <<"slot", n>> \in Debts
  BY <1>1 DEF Debts, SlotDebt
<1> QED
  BY <1>3, <1>4, <1>5, <1>6, <1>7

LEMMA DebtsWithin ==
  ASSUME NEW S,
         \A n : FailedDebt(n)' => <<"failed", n>> \in S,
         \A n : ServerDebt(n)' => <<"server", n>> \in S,
         \A n : WireDebt(n)' => <<"wire", n>> \in S,
         \A n : HandDebt(n)' => <<"hand", n>> \in S,
         \A n : SlotDebt(n)' => <<"slot", n>> \in S
  PROVE  Debts' \subseteq S
BY SMTT(30) DEF Debts

(* A step of the client moves a debt, and only a fault adds one.           *)
LEMMA DebtStep ==
  ASSUME TypeOK, OnlyHolderReads, TableInv, AnswerInv, FutureInv, DebtsPaid, [Next]_vars
  PROVE  DebtsPaid'
<1> USE DEF caller, table, waiters, peer
<1>nat. faults \in Nat
  BY BoundsAssumption DEF TypeOK
<1>less. ASSUME faults' \in {faults, faults + 1}, Debts' \subseteq Debts PROVE DebtsPaid'
  <2>1. IsFiniteSet(Debts') /\ Cardinality(Debts') <= Cardinality(Debts)
    BY <1>less, FS_Subset DEF DebtsPaid
  <2>2. Cardinality(Debts) \in Nat /\ Cardinality(Debts') \in Nat
    BY <2>1, FS_CardinalityType DEF DebtsPaid
  <2> QED
    BY <1>nat, <1>less, <2>1, <2>2 DEF DebtsPaid
<1>more. ASSUME NEW d, faults' = faults + 1, Debts' \subseteq Debts \cup {d} PROVE DebtsPaid'
  BY <1>nat, <1>more, OneMore DEF DebtsPaid
<1>moved. ASSUME NEW g, faults' = faults, Debts' \subseteq {g[d] : d \in Debts}
          PROVE  DebtsPaid'
  BY <1>nat, <1>moved, MovedSet DEF DebtsPaid
<1>surplus. ASSUME NEW i, wire' = wire, Surplus(i)', \A r : Awaited(r) => Awaited(r)',
                   inHand'.id = inHand.id \/ inHand'.id = NoId
            PROVE  Surplus(i) \/ wire[i].id = NoId
  BY <1>surplus DEF Surplus
<1>unknown. ~Awaited(NoId)
  BY DEF Awaited, NoId, Ids
<1>swap. ASSUME NEW d \in Debts, NEW e, faults' = faults,
                Debts' \subseteq (Debts \ {d}) \cup {e}
         PROVE  DebtsPaid'
  <2> DEFINE g == [c \in Debts |-> IF c = d THEN e ELSE c]
  <2>1. (Debts \ {d}) \cup {e} \subseteq {g[c] : c \in Debts}
    OBVIOUS
  <2>2. Debts' \subseteq {g[c] : c \in Debts}
    BY <1>swap, <2>1
  <2> QED
    BY <1>moved, <1>swap, <2>2
(* Steps that leave the peer and what is awaited as it is. *)
<1>quiet. ASSUME UNCHANGED <<torn, peer>>, \A r : Awaited(r) => Awaited(r)', faults' \in {faults, faults + 1},
                 inHand' \in {inHand, NoMessage},
                 \A n : FailedDebt(n)' => FailedDebt(n),
                 \A n : HandDebt(n)' => HandDebt(n),
                 \A n : SlotDebt(n)' => SlotDebt(n)
          PROVE  DebtsPaid'
  <2>1. \A n : ServerDebt(n)' => ServerDebt(n)
    BY <1>quiet DEF ServerDebt
  <2>2. \A n : WireDebt(n)' => WireDebt(n)
    BY <1>quiet, <1>surplus, <1>unknown DEF WireDebt, Surplus, NoMessage
  <2>3. Debts' \subseteq Debts
    BY <1>quiet, <2>1, <2>2, DebtMembers, DebtsWithin
  <2> QED
    BY <1>less, <1>quiet, <2>3
<1>1. CASE RpcBegin \/ LockRequests \/ (AbortRpc /\ UNCHANGED faults)
  <2>1. UNCHANGED <<torn, table, waiters, peer, faults>> /\ call # "sent" /\ call' # "sent"
    BY <1>nat, <1>1 DEF RpcBegin, LockRequests, AbortRpc
  <2>2. \A r : Awaited(r)' <=> Awaited(r)
    BY <2>1 DEF Awaited
  <2> QED
    BY <1>quiet, <2>1, <2>2 DEF FailedDebt, HandDebt, SlotDebt, Holding
<1>2. CASE SendRequest
  <2>1. /\ lastId \in Ids /\ call = "sending" /\ call' = "sent" /\ torn' = FALSE
        /\ server' = [server EXCEPT ![lastId] = IF torn THEN "garbled" ELSE "received"]
        /\ UNCHANGED <<lastId, table, waiters, wire, faults>>
    BY <1>2 DEF SendRequest, TableInv
  <2>2. Awaited(lastId)' /\ \A r : Awaited(r) => Awaited(r)'
    BY <2>1 DEF Awaited
  <2>3. \A n : ServerDebt(n)' => (ServerDebt(n) /\ n # 0) \/ (n = lastId /\ torn)
    BY <2>1, <2>2, BoundsAssumption DEF ServerDebt, TypeOK, Ids
  <2>4. \A n : WireDebt(n)' => WireDebt(n)
    BY <1>surplus, <1>unknown, <2>1, <2>2 DEF WireDebt, Surplus
  <2>5. \A n : /\ FailedDebt(n)' => FailedDebt(n)
               /\ HandDebt(n)' => HandDebt(n)
               /\ SlotDebt(n)' => SlotDebt(n)
    BY <2>1, <2>2 DEF FailedDebt, HandDebt, SlotDebt, Holding
  <2>6. CASE ~torn
    <3>1. Debts' \subseteq Debts
      BY <2>3, <2>4, <2>5, <2>6, DebtMembers, DebtsWithin
    <3> QED
      BY <1>less, <2>1, <3>1
  <2>7. CASE torn
    <3> DEFINE S == (Debts \ {<<"server", 0>>}) \cup {<<"server", lastId>>}
    <3>1. <<"server", 0>> \in Debts
      BY <2>7, DebtMembers DEF ServerDebt
    <3>2. <<"server", lastId>> \in S /\ \A d \in Debts : d # <<"server", 0>> => d \in S
      OBVIOUS
    <3> HIDE DEF S
    <3>3. \A n : ServerDebt(n)' => <<"server", n>> \in S
      BY <2>3, <3>2, DebtMembers
    <3>4. /\ \A n : FailedDebt(n)' => <<"failed", n>> \in S
          /\ \A n : WireDebt(n)' => <<"wire", n>> \in S
          /\ \A n : HandDebt(n)' => <<"hand", n>> \in S
          /\ \A n : SlotDebt(n)' => <<"slot", n>> \in S
      BY <2>4, <2>5, <3>2, DebtMembers
    <3>5. Debts' \subseteq S
      BY <3>3, <3>4, DebtsWithin
    <3> QED
      BY <1>swap, <2>1, <3>1, <3>5 DEF S
  <2> QED
    BY <2>6, <2>7
<1>3. CASE InsertPending
  <2>1. /\ lastId \in Ids /\ call = "sent" /\ requests[lastId] = "absent"
        /\ requests' = [requests EXCEPT ![lastId] = "pending"]
        /\ fut' = [fut EXCEPT ![lastId] = "unpolled"]
        /\ UNCHANGED <<lastId, torn, slot, rxQueue, inHand, peer, faults>>
    BY <1>3 DEF InsertPending, TableInv
  <2>2. \A r : Awaited(r) => Awaited(r)'
    BY <2>1 DEF Awaited, TypeOK
  <2>3. \A n : FailedDebt(n)' => FailedDebt(n)
    BY <2>1 DEF FailedDebt, TypeOK
  <2>4. \A n : HandDebt(n)' => HandDebt(n)
    BY <2>1, <2>2 DEF HandDebt, Holding, TypeOK
  <2>5. \A n : SlotDebt(n)' => SlotDebt(n)
    BY <2>1 DEF SlotDebt, TypeOK
  <2> QED
    BY <1>quiet, <2>1, <2>2, <2>3, <2>4, <2>5
<1>4. CASE AbortRpc /\ call = "sent"
  <2> DEFINE r == lastId
  <2>1. /\ r \in Ids /\ call' = "idle" /\ faults' = faults + 1 /\ torn' = FALSE
        /\ UNCHANGED <<lastId, table, waiters, peer>>
    BY <1>4 DEF AbortRpc, TableInv
  <2>2. \A q : q # r => (Awaited(q)' <=> Awaited(q))
    BY <2>1 DEF Awaited
  <2>3. \A n : /\ FailedDebt(n)' => FailedDebt(n)
               /\ SlotDebt(n)' => SlotDebt(n)
    BY <2>1 DEF FailedDebt, SlotDebt
  <2>4. \A n : n # r => (ServerDebt(n)' => ServerDebt(n))
    BY <2>1, <2>2 DEF ServerDebt
  <2>5. \A n : HandDebt(n)' => n = 0 /\ (HandDebt(n) \/ inHand.id = r)
    BY <2>1, <2>2 DEF HandDebt, Holding
  <2>6. \A n : WireDebt(n)' => n \in DOMAIN wire /\ (WireDebt(n) \/ wire[n].id = r)
    BY <2>1, <2>2 DEF WireDebt, Surplus
  <2> HIDE DEF r
  <2>7. CASE server[r] # "answered"
    <3>1. inHand.id # r /\ \A i \in DOMAIN wire : wire[i].id # r
      BY <2>1, <2>7 DEF AnswerInv, Answered
    <3>2. Debts' \subseteq Debts \cup {<<"server", r>>}
      BY <2>3, <2>4, <2>5, <2>6, <3>1, DebtMembers, DebtsWithin
    <3> QED
      BY <1>more, <2>1, <3>2
  <2>8. CASE server[r] = "answered"
    <3>1. \A n : ServerDebt(n)' => ServerDebt(n)
      BY <2>1, <2>4, <2>8 DEF ServerDebt
    <3>2. CASE inHand.id = r
      <4>1. \A n : WireDebt(n)' => WireDebt(n)
        BY <2>6, <3>2 DEF WireDebt, Surplus
      <4>2. Debts' \subseteq Debts \cup {<<"hand", 0>>}
        BY <2>3, <2>5, <3>1, <4>1, DebtMembers, DebtsWithin
      <4> QED
        BY <1>more, <2>1, <4>2
    <3>3. CASE inHand.id # r /\ \E i \in DOMAIN wire : wire[i].id = r
      <4> DEFINE Q == {i \in DOMAIN wire : wire[i].id = r}
      <4>1. Q \subseteq Nat /\ Q # {} /\ DOMAIN wire = 1 .. Len(wire) /\ Len(wire) \in Nat
        BY <3>3, LenProperties DEF TypeOK
      <4>2. PICK k \in Q : \A i \in Q : k <= i
        BY <4>1, LeastMember
      <4>3. \A n : WireDebt(n)' => WireDebt(n) \/ n = k
        BY <2>6, <4>1, <4>2 DEF WireDebt, Surplus
      <4>4. Debts' \subseteq Debts \cup {<<"wire", k>>}
        BY <2>3, <2>5, <3>1, <3>3, <4>3, DebtMembers, DebtsWithin
      <4> QED
        BY <1>more, <2>1, <4>4
    <3>4. CASE inHand.id # r /\ ~\E i \in DOMAIN wire : wire[i].id = r
      <4>1. Debts' \subseteq Debts
        BY <2>3, <2>5, <2>6, <3>1, <3>4, DebtMembers, DebtsWithin
      <4> QED
        BY <1>less, <2>1, <4>1
    <3> QED
      BY <3>2, <3>3, <3>4
  <2> QED
    BY <2>7, <2>8
<1>5. ASSUME NEW id \in Ids, Poll(id) \/ FindPending(id) PROVE DebtsPaid'
  <2>1. /\ UNCHANGED <<call, lastId, torn, requests, slot, inHand, peer, faults>>
        /\ fut[id] \in {"unpolled", "queued"}
        /\ fut' \in {[fut EXCEPT ![id] = "queued"], [fut EXCEPT ![id] = "reading"]}
    BY <1>5 DEF Poll, FindPending
  <2>2. \A r : Awaited(r) <=> Awaited(r)'
    BY <2>1 DEF Awaited
  <2>3. \A n : FailedDebt(n)' => FailedDebt(n)
    BY <2>1 DEF FailedDebt, TypeOK
  <2>4. \A n : HandDebt(n)' => HandDebt(n)
    BY <2>1, <2>2 DEF HandDebt, Holding, TypeOK
  <2>5. \A n : SlotDebt(n)' => SlotDebt(n)
    BY <2>1 DEF SlotDebt
  <2> QED
    BY <1>quiet, <2>1, <2>2, <2>3, <2>4, <2>5
<1>6. ASSUME NEW id \in Ids, TakeReply(id) PROVE DebtsPaid'
  <2>1. requests[id] = "ready"
    BY <1>6 DEF TakeReply, FutureInv, Unsettled, TypeOK
  <2>2. /\ requests' = [requests EXCEPT ![id] = "complete"]
        /\ fut' = [fut EXCEPT ![id] = IF slot[id].body = "good" THEN "done" ELSE "failed"]
        /\ UNCHANGED <<caller, slot, inHand, peer, faults>> /\ fut[id] = "queued"
    BY <1>6, <2>1 DEF TakeReply, Settle
  <2>3. \A r : Awaited(r)' <=> Awaited(r)
    BY <2>1, <2>2 DEF Awaited, TypeOK
  <2>4. CASE slot[id].body = "good"
    <3>1. \A n : FailedDebt(n)' => FailedDebt(n)
      BY <2>2, <2>4 DEF FailedDebt, TypeOK
    <3>2. \A n : HandDebt(n)' => HandDebt(n)
      BY <2>2, <2>3, <2>4 DEF HandDebt, Holding, TypeOK
    <3>3. \A n : SlotDebt(n)' => SlotDebt(n)
      BY <2>2 DEF SlotDebt, TypeOK
    <3> QED
      BY <1>quiet, <2>2, <2>3, <3>1, <3>2, <3>3
  <2>5. CASE slot[id].body # "good"
    <3> DEFINE S == (Debts \ {<<"slot", id>>}) \cup {<<"failed", id>>}
    <3>1. <<"slot", id>> \in Debts
      BY <2>1, <2>5, DebtMembers DEF SlotDebt
    <3>2. \A n : FailedDebt(n)' => FailedDebt(n) \/ n = id
      BY <2>2 DEF FailedDebt, TypeOK
    <3>3. \A n : SlotDebt(n)' => SlotDebt(n) /\ n # id
      BY <2>2 DEF SlotDebt, TypeOK
    <3>4. \A n : HandDebt(n)' => HandDebt(n)
      BY <2>2, <2>3 DEF HandDebt, Holding, TypeOK
    <3>5. \A n : ServerDebt(n)' => ServerDebt(n)
      BY <2>2, <2>3 DEF ServerDebt
    <3>6. \A n : WireDebt(n)' => WireDebt(n)
      BY <2>2, <2>3 DEF WireDebt, Surplus
    <3>7. <<"failed", id>> \in S /\ \A d \in Debts : d # <<"slot", id>> => d \in S
      OBVIOUS
    <3> HIDE DEF S
    <3>8. /\ \A n : FailedDebt(n)' => <<"failed", n>> \in S
          /\ \A n : SlotDebt(n)' => <<"slot", n>> \in S
      BY <3>2, <3>3, <3>7, DebtMembers
    <3>9. /\ \A n : HandDebt(n)' => <<"hand", n>> \in S
          /\ \A n : ServerDebt(n)' => <<"server", n>> \in S
          /\ \A n : WireDebt(n)' => <<"wire", n>> \in S
      BY <3>4, <3>5, <3>6, <3>7, DebtMembers
    <3>10. Debts' \subseteq S
      BY <3>8, <3>9, DebtsWithin
    <3> QED
      BY <1>swap, <2>2, <3>1, <3>10 DEF S
  <2> QED
    BY <2>4, <2>5
<1>7. ASSUME NEW id \in Ids, ReadMessage(id) PROVE DebtsPaid'
  <2> DEFINE garbage == Head(wire).body = "garbage"
             head == IF garbage THEN <<"failed", id>> ELSE <<"hand", 0>>
             g == [d \in Debts |-> IF d[1] # "wire" THEN d
                                   ELSE IF d[2] = 1 THEN head ELSE <<"wire", d[2] - 1>>]
             S == {g[d] : d \in Debts}
  <2>1. /\ wire # <<>> /\ wire' = Tail(wire) /\ fut[id] = "reading"
        /\ fut' = [fut EXCEPT ![id] = IF garbage THEN "failed" ELSE "holding"]
        /\ inHand' = IF garbage THEN inHand ELSE Head(wire)
        /\ UNCHANGED <<caller, table, server, faults>>
    BY <1>7 DEF ReadMessage, Settle
  <2>2. /\ Head(wire) = wire[1] /\ 1 \in DOMAIN wire
        /\ \A i \in DOMAIN wire' : /\ i \in Nat \ {0} /\ i + 1 \in DOMAIN wire
                                   /\ wire'[i] = wire[i + 1]
    BY <2>1, HeadTailProperties, LenProperties DEF TypeOK
  <2>3. \A r : Awaited(r)' <=> Awaited(r)
    BY <2>1 DEF Awaited
  <2>4. ~Holding /\ inHand.id = NoId
    BY <2>1 DEF OnlyHolderReads, HoldsRx, Holding, FutureInv, NoMessage
  <2>5. /\ WireDebt(1) => head \in S
        /\ \A n \in Nat \ {0} : WireDebt(n + 1) => <<"wire", n>> \in S
        /\ \A d \in Debts : d[1] # "wire" => d \in S
    <3>1. WireDebt(1) => g[<<"wire", 1>>] = head /\ g[<<"wire", 1>>] \in S
      BY DebtMembers
    <3>2. ASSUME NEW n \in Nat \ {0}, WireDebt(n + 1) PROVE <<"wire", n>> \in S
      <4>1. <<"wire", n + 1>> \in Debts
        BY <3>2, DebtMembers
      <4>2. g[<<"wire", n + 1>>] = <<"wire", n>>
        BY <4>1
      <4> QED
        BY <4>1, <4>2
    <3>3. ASSUME NEW d \in Debts, d[1] # "wire" PROVE d \in S
      <4>1. g[d] = d
        BY <3>3
      <4> QED
        BY <4>1
    <3> HIDE DEF g, S
    <3> QED
      BY <3>1, <3>2, <3>3, Zenon
  <2>6. garbage \/ ~Awaited(Head(wire).id) \/ Head(wire).body # "good" => WireDebt(1)
    BY <2>2 DEF WireDebt, Surplus
  <2>7. \A n : WireDebt(n)' => n \in Nat \ {0} /\ WireDebt(n + 1)
    <3> SUFFICES ASSUME NEW n, WireDebt(n)' PROVE n \in Nat \ {0} /\ WireDebt(n + 1)
      OBVIOUS
    <3>1. /\ n \in DOMAIN wire' /\ n \in Nat \ {0} /\ n + 1 \in DOMAIN wire
          /\ wire'[n] = wire[n + 1] /\ Surplus(n)'
      BY <2>2 DEF WireDebt
    <3>2. CASE wire[n + 1].body # "good" \/ ~Awaited(wire[n + 1].id)
      BY <3>1, <3>2 DEF WireDebt, Surplus
    <3>3. CASE inHand'.id = wire[n + 1].id /\ Awaited(wire[n + 1].id)
      <4>1. 1 \in 1 .. (n + 1) - 1 /\ wire[1].id = wire[n + 1].id
        BY <1>unknown, <2>1, <2>2, <2>4, <3>1, <3>3
      <4> QED
        BY <3>1, <4>1 DEF WireDebt, Surplus
    <3>4. CASE \E j \in 1 .. n - 1 : wire'[j].id = wire'[n].id
      <4>1. PICK j \in 1 .. n - 1 : wire'[j].id = wire'[n].id
        BY <3>4
      <4>2. j \in DOMAIN wire'
        BY <2>1, <3>1, <4>1, HeadTailProperties, LenProperties DEF TypeOK
      <4>3. j + 1 \in 1 .. (n + 1) - 1 /\ wire[j + 1].id = wire[n + 1].id
        BY <2>2, <3>1, <4>1, <4>2
      <4> QED
        BY <3>1, <4>3 DEF WireDebt, Surplus
    <3> QED
      BY <2>3, <3>1, <3>2, <3>3, <3>4 DEF Surplus
  <2>8. \A n : FailedDebt(n)' => FailedDebt(n) \/ (garbage /\ n = id)
    BY <2>1 DEF FailedDebt, TypeOK
  <2>9. \A n : HandDebt(n)' => /\ n = 0 /\ ~garbage
                               /\ ~Awaited(Head(wire).id) \/ Head(wire).body # "good"
    BY <2>1, <2>3, <2>4 DEF HandDebt, Holding, TypeOK
  <2>10. \A n : (ServerDebt(n)' => ServerDebt(n)) /\ (SlotDebt(n)' => SlotDebt(n))
    BY <2>1, <2>3 DEF ServerDebt, SlotDebt
  <2> HIDE DEF garbage, S
  <2>11. /\ \A n : FailedDebt(n)' => <<"failed", n>> \in S
         /\ \A n : HandDebt(n)' => <<"hand", n>> \in S
    BY <2>5, <2>6, <2>8, <2>9, DebtMembers
  <2>12. /\ \A n : ServerDebt(n)' => <<"server", n>> \in S
         /\ \A n : SlotDebt(n)' => <<"slot", n>> \in S
    BY <2>5, <2>10, DebtMembers
  <2>13. \A n : WireDebt(n)' => <<"wire", n>> \in S
    BY <2>5, <2>7
  <2>14. Debts' \subseteq S
    BY <2>11, <2>12, <2>13, DebtsWithin
  <2> QED
    BY <1>moved, <2>1, <2>14 DEF S
<1>8. ASSUME NEW id \in Ids, ReadError(id) PROVE DebtsPaid'
  <2>1. /\ fut' = [fut EXCEPT ![id] = "failed"] /\ fut[id] = "reading"
        /\ UNCHANGED <<caller, table, inHand, peer>> /\ faults' = faults + 1
    BY <1>8 DEF ReadError, Settle
  <2>2. \A r : Awaited(r)' <=> Awaited(r)
    BY <2>1 DEF Awaited
  <2>3. \A n : FailedDebt(n)' => FailedDebt(n) \/ n = id
    BY <2>1 DEF FailedDebt, TypeOK
  <2>4. \A n : /\ ServerDebt(n)' => ServerDebt(n)
               /\ WireDebt(n)' => WireDebt(n)
               /\ SlotDebt(n)' => SlotDebt(n)
    BY <2>1, <2>2 DEF ServerDebt, WireDebt, Surplus, SlotDebt
  <2>5. \A n : HandDebt(n)' => HandDebt(n)
    BY <2>1, <2>2 DEF HandDebt, Holding, TypeOK
  <2>6. Debts' \subseteq Debts \cup {<<"failed", id>>}
    BY <2>3, <2>4, <2>5, DebtMembers, DebtsWithin
  <2> QED
    BY <1>more, <2>1, <2>6
<1>9. ASSUME NEW id \in Ids, StoreReply(id) PROVE DebtsPaid'
  <2> DEFINE r == inHand.id
  <2>1. /\ fut[id] = "holding" /\ call \notin {"sending", "sent"} /\ inHand' = NoMessage
        /\ UNCHANGED <<caller, peer, faults>>
    BY <1>9 DEF StoreReply, RequestsLocked
  <2>2. Awaited(r) <=> Expected(inHand)
    BY <2>1 DEF Awaited, Expected
  <2>3. \A q \in Ids \ {id} : fut[q] # "holding" /\ fut'[q] = fut[q]
    BY <1>9, <2>1 DEF StoreReply, Settle, OnlyHolderReads, HoldsRx, TypeOK
  <2>4. fut'[id] \in {"queued", "failed"}
    BY <1>9 DEF StoreReply, Settle, TypeOK
  <2>5. \A n : ~HandDebt(n)'
    BY <2>3, <2>4 DEF HandDebt, Holding
  <2>6. CASE Expected(inHand)
    <3> DEFINE S == (Debts \ {<<"hand", 0>>}) \cup {<<"slot", r>>}
    <3>1. /\ requests' = [requests EXCEPT ![r] = "ready"] /\ slot' = [slot EXCEPT ![r] = inHand]
          /\ fut' = [fut EXCEPT ![id] = "queued"]
          /\ r \in Ids /\ requests[r] = "pending"
      BY <1>9, <2>6 DEF StoreReply, Expected
    <3>2. \A q : q # r => (Awaited(q)' <=> Awaited(q))
      BY <2>1, <3>1 DEF Awaited, TypeOK
    <3>3. \A n : ServerDebt(n)' => ServerDebt(n)
      BY <2>1, <3>1, <3>2 DEF ServerDebt, AnswerInv, Answered
    <3>4. \A n : WireDebt(n)' => WireDebt(n)
      BY <1>unknown, <2>1, <3>1, <3>2 DEF WireDebt, Surplus, NoMessage
    <3>5. \A n : FailedDebt(n)' => FailedDebt(n)
      BY <3>1 DEF FailedDebt, TypeOK
    <3>6. \A n : SlotDebt(n)' => SlotDebt(n) \/ (n = r /\ inHand.body # "good")
      BY <3>1 DEF SlotDebt, TypeOK
    <3>7. CASE inHand.body = "good"
      <4>1. Debts' \subseteq Debts
        BY <2>5, <3>3, <3>4, <3>5, <3>6, <3>7, DebtMembers, DebtsWithin
      <4> QED
        BY <1>less, <2>1, <4>1
    <3>8. CASE inHand.body # "good"
      <4>1. <<"hand", 0>> \in Debts
        BY <2>1, <3>8, DebtMembers DEF HandDebt, Holding
      <4>2. <<"slot", r>> \in S /\ \A d \in Debts : d # <<"hand", 0>> => d \in S
        OBVIOUS
      <4> HIDE DEF S, r
      <4>3. \A n : SlotDebt(n)' => <<"slot", n>> \in S
        BY <3>6, <4>2, DebtMembers
      <4>4. /\ \A n : FailedDebt(n)' => <<"failed", n>> \in S
            /\ \A n : ServerDebt(n)' => <<"server", n>> \in S
            /\ \A n : WireDebt(n)' => <<"wire", n>> \in S
        BY <3>3, <3>4, <3>5, <4>2, DebtMembers
      <4>5. Debts' \subseteq S
        BY <2>5, <4>3, <4>4, DebtsWithin
      <4> QED
        BY <1>swap, <2>1, <4>1, <4>5 DEF S
    <3> QED
      BY <3>7, <3>8
  <2>7. CASE ~Expected(inHand)
    <3> DEFINE S == (Debts \ {<<"hand", 0>>}) \cup {<<"failed", id>>}
    <3>1. UNCHANGED table /\ fut' = [fut EXCEPT ![id] = "failed"]
      BY <1>9, <2>7 DEF StoreReply, Settle
    <3>2. \A q : Awaited(q)' <=> Awaited(q)
      BY <2>1, <3>1 DEF Awaited
    <3>3. \A n : (ServerDebt(n)' => ServerDebt(n)) /\ (SlotDebt(n)' => SlotDebt(n))
      BY <2>1, <3>1, <3>2 DEF ServerDebt, SlotDebt
    <3>4. \A n : WireDebt(n)' => WireDebt(n)
      BY <1>unknown, <2>1, <3>2 DEF WireDebt, Surplus, NoMessage
    <3>5. \A n : FailedDebt(n)' => FailedDebt(n) \/ n = id
      BY <3>1 DEF FailedDebt, TypeOK
    <3>6. <<"hand", 0>> \in Debts
      BY <2>1, <2>2, <2>7, DebtMembers DEF HandDebt, Holding
    <3>7. <<"failed", id>> \in S /\ \A d \in Debts : d # <<"hand", 0>> => d \in S
      OBVIOUS
    <3> HIDE DEF S, r
    <3>8. \A n : FailedDebt(n)' => <<"failed", n>> \in S
      BY <3>5, <3>7, DebtMembers
    <3>9. /\ \A n : SlotDebt(n)' => <<"slot", n>> \in S
          /\ \A n : ServerDebt(n)' => <<"server", n>> \in S
          /\ \A n : WireDebt(n)' => <<"wire", n>> \in S
      BY <3>3, <3>4, <3>7, DebtMembers
    <3>10. Debts' \subseteq S
      BY <2>5, <3>8, <3>9, DebtsWithin
    <3> QED
      BY <1>swap, <2>1, <3>6, <3>10 DEF S
  <2> QED
    BY <2>6, <2>7
<1>10. ASSUME NEW id \in Ids, DropFuture(id) PROVE DebtsPaid'
  <2>1. /\ fut' = [fut EXCEPT ![id] = "dropped"] /\ UNCHANGED <<caller, table, peer>>
        /\ faults' \in {faults, faults + 1}
    BY <1>10 DEF DropFuture
  <2>2. inHand' = IF fut[id] = "holding" THEN NoMessage ELSE inHand
    BY <1>10 DEF DropFuture
  <2>3. \A r : Awaited(r)' <=> Awaited(r)
    BY <2>1 DEF Awaited
  <2>4. \A n : FailedDebt(n)' => FailedDebt(n)
    BY <2>1 DEF FailedDebt, TypeOK
  <2>5. \A n : HandDebt(n)' => HandDebt(n)
    <3>1. CASE fut[id] = "holding"
      BY <2>1, <3>1 DEF HandDebt, Holding, OnlyHolderReads, HoldsRx, TypeOK
    <3>2. CASE fut[id] # "holding"
      BY <2>1, <2>2, <2>3, <3>2 DEF HandDebt, Holding, TypeOK
    <3> QED
      BY <3>1, <3>2
  <2>6. \A n : SlotDebt(n)' => SlotDebt(n)
    BY <2>1 DEF SlotDebt
  <2> QED
    BY <1>quiet, <2>1, <2>2, <2>3, <2>4, <2>5, <2>6
(* A message that arrives adds at most its own debt. *)
<1>arrives. ASSUME NEW m \in Message, wire' = Append(wire, m), UNCHANGED <<caller, table, waiters>>
            PROVE  /\ \A r : Awaited(r)' <=> Awaited(r)
                   /\ \A n : WireDebt(n)' => WireDebt(n) \/ (n = Len(wire) + 1 /\ Surplus(n)')
                   /\ wire'[Len(wire) + 1] = m
                   /\ \A n : /\ FailedDebt(n)' => FailedDebt(n)
                             /\ HandDebt(n)' => HandDebt(n)
                             /\ SlotDebt(n)' => SlotDebt(n)
  <2>1. /\ wire'[Len(wire) + 1] = m /\ DOMAIN wire = 1 .. Len(wire) /\ Len(wire) \in Nat
        /\ DOMAIN wire' = 1 .. Len(wire) + 1
        /\ \A i \in 1 .. Len(wire) : wire'[i] = wire[i]
    BY <1>arrives, AppendProperties, LenProperties DEF TypeOK
  <2>2. \A r : Awaited(r)' <=> Awaited(r)
    BY <1>arrives DEF Awaited
  <2>3. \A n : /\ FailedDebt(n)' => FailedDebt(n)
               /\ HandDebt(n)' => HandDebt(n)
               /\ SlotDebt(n)' => SlotDebt(n)
    BY <1>arrives, <2>2 DEF FailedDebt, HandDebt, Holding, SlotDebt
  <2>4. ASSUME NEW n \in 1 .. Len(wire), Surplus(n)' PROVE Surplus(n)
    <3>1. \A j \in 1 .. n - 1 : j \in 1 .. Len(wire)
      BY <2>1
    <3> QED
      BY <1>arrives, <2>1, <2>2, <2>4, <3>1 DEF Surplus
  <2>5. \A n : WireDebt(n)' => WireDebt(n) \/ (n = Len(wire) + 1 /\ Surplus(n)')
    BY <2>1, <2>4 DEF WireDebt
  <2> QED
    BY <2>1, <2>2, <2>3, <2>5
<1>11. ASSUME NEW id \in Ids, Answer(id) PROVE DebtsPaid'
  <2>len. DOMAIN wire = 1 .. Len(wire) /\ Len(wire) \in Nat
    BY LenProperties DEF TypeOK
  <2>place. PICK n1 \in Nat : n1 = Len(wire) + 1
    BY <2>len
  <2> DEFINE S == (Debts \ {<<"server", id>>}) \cup {<<"wire", n1>>}
  <2>1. /\ Reply(id) \in Message /\ wire' = Append(wire, Reply(id))
        /\ server[id] = "received" /\ server' = [server EXCEPT ![id] = "answered"]
        /\ UNCHANGED <<caller, table, waiters, faults>>
    BY <1>11 DEF Answer, Reply, Message
  <2>2. \A n : ServerDebt(n)' => ServerDebt(n) /\ n # id
    BY <1>arrives, <2>1, BoundsAssumption DEF ServerDebt, TypeOK, Ids
  <2>3. inHand.id # id /\ \A i \in DOMAIN wire : wire[i].id # id
    BY <2>1 DEF AnswerInv, Answered
  <2>4. Surplus(n1)' => ~Awaited(id)
    <3>2. \A i \in 1 .. Len(wire) : wire'[i] = wire[i]
      BY <2>1, <2>len, AppendProperties DEF TypeOK
    <3>3. wire'[n1] = Reply(id) /\ UNCHANGED inHand /\ \A r : Awaited(r)' <=> Awaited(r)
      BY <1>arrives, <2>1, <2>place
    <3>4. \A j \in 1 .. n1 - 1 : wire'[j].id # id
      BY <2>3, <2>len, <2>place, <3>2
    <3>5. wire'[n1].id = id /\ wire'[n1].body = "good" /\ inHand'.id # id
      BY <2>3, <3>3 DEF Reply
    <3> QED
      BY <3>3, <3>4, <3>5 DEF Surplus
  <2>5. CASE Awaited(id)
    <3>1. \A n : WireDebt(n)' => WireDebt(n)
      BY <1>arrives, <2>1, <2>4, <2>5, <2>place
    <3>2. \A n : /\ FailedDebt(n)' => FailedDebt(n)
                 /\ HandDebt(n)' => HandDebt(n)
                 /\ SlotDebt(n)' => SlotDebt(n)
      BY <1>arrives, <2>1
    <3>3. Debts' \subseteq Debts
      BY <2>2, <3>1, <3>2, DebtMembers, DebtsWithin
    <3> QED
      BY <1>less, <2>1, <3>3
  <2>6. CASE ~Awaited(id)
    <3>1. <<"server", id>> \in Debts
      BY <2>1, <2>6, DebtMembers DEF ServerDebt
    <3>2. <<"wire", n1>> \in S /\ \A d \in Debts : d # <<"server", id>> => d \in S
      OBVIOUS
    <3> HIDE DEF S
    <3>3. \A n : WireDebt(n)' => <<"wire", n>> \in S
      BY <1>arrives, <2>1, <2>place, <3>2, DebtMembers
    <3>4. \A n : ServerDebt(n)' => <<"server", n>> \in S
      BY <2>2, <3>2, DebtMembers
    <3>5. /\ \A n : FailedDebt(n)' => <<"failed", n>> \in S
          /\ \A n : HandDebt(n)' => <<"hand", n>> \in S
          /\ \A n : SlotDebt(n)' => <<"slot", n>> \in S
      BY <1>arrives, <2>1, <3>2, DebtMembers
    <3>6. Debts' \subseteq S
      BY <3>3, <3>4, <3>5, DebtsWithin
    <3> QED
      BY <1>swap, <2>1, <3>1, <3>6 DEF S
  <2> QED
    BY <2>5, <2>6
<1>12. ASSUME NEW m \in Message, wire' = Append(wire, m), faults' = faults + 1,
              UNCHANGED <<caller, table, waiters>>,
              \A n : ServerDebt(n)' => ServerDebt(n)
       PROVE  DebtsPaid'
  <2>1. Debts' \subseteq Debts \cup {<<"wire", Len(wire) + 1>>}
    BY <1>12, <1>arrives, DebtMembers, DebtsWithin
  <2> QED
    BY <1>12, <1>more, <2>1
<1>13. ASSUME NEW id \in Ids, AnswerBadly(id) PROVE DebtsPaid'
  <2>1. /\ server' = [server EXCEPT ![id] = "answered"] /\ faults' = faults + 1
        /\ UNCHANGED <<caller, table, waiters>>
    BY <1>13 DEF AnswerBadly
  <2>2. PICK m \in Message : wire' = Append(wire, m)
    BY <1>13 DEF AnswerBadly, Message
  <2>3. \A n : ServerDebt(n)' => ServerDebt(n)
    BY <1>arrives, <2>1, <2>2 DEF ServerDebt, TypeOK
  <2> QED
    BY <1>12, <2>1, <2>2, <2>3
<1>14. ASSUME NEW id \in Ids \cup {NoId}, SendUnexpected(id) PROVE DebtsPaid'
  <2>1. /\ wire' = Append(wire, Reply(id)) /\ faults' = faults + 1
        /\ UNCHANGED <<caller, table, waiters, server>> /\ Reply(id) \in Message
    BY <1>14 DEF SendUnexpected, Reply, Message
  <2>2. \A n : ServerDebt(n)' => ServerDebt(n)
    BY <1>arrives, <2>1 DEF ServerDebt
  <2> QED
    BY <1>12, <2>1, <2>2
<1>15. CASE UNCHANGED vars
  <2>1. UNCHANGED <<call, lastId, torn, table, fut, inHand, peer, faults>>
    BY <1>15 DEF vars
  <2>2. \A r : Awaited(r)' <=> Awaited(r)
    BY <2>1 DEF Awaited
  <2> QED
    BY <1>quiet, <2>1, <2>2 DEF FailedDebt, HandDebt, SlotDebt, Holding
<1>16. ASSUME NEW id \in Ids, RejectGarbled(id) PROVE DebtsPaid'
  <2>len. DOMAIN wire = 1 .. Len(wire) /\ Len(wire) \in Nat
    BY LenProperties DEF TypeOK
  <2>place. PICK n1 \in Nat : n1 = Len(wire) + 1
    BY <2>len
  <2> DEFINE S == (Debts \ {<<"server", id>>}) \cup {<<"wire", n1>>}
  <2>1. /\ server[id] = "garbled" /\ server' = [server EXCEPT ![id] = "rejected"]
        /\ UNCHANGED <<caller, table, waiters, faults>>
    BY <1>16 DEF RejectGarbled
  <2>2. PICK m \in Message : wire' = Append(wire, m)
    BY <1>16 DEF RejectGarbled, Message
  <2>3. \A n : ServerDebt(n)' => ServerDebt(n) /\ n # id
    BY <1>arrives, <2>1, <2>2, BoundsAssumption DEF ServerDebt, TypeOK, Ids
  <2>4. <<"server", id>> \in Debts
    BY <2>1, DebtMembers DEF ServerDebt
  <2>5. <<"wire", n1>> \in S /\ \A d \in Debts : d # <<"server", id>> => d \in S
    OBVIOUS
  <2> HIDE DEF S
  <2>6. \A n : WireDebt(n)' => <<"wire", n>> \in S
    BY <1>arrives, <2>1, <2>2, <2>place, <2>5, DebtMembers
  <2>7. \A n : ServerDebt(n)' => <<"server", n>> \in S
    BY <2>3, <2>5, DebtMembers
  <2>8. /\ \A n : FailedDebt(n)' => <<"failed", n>> \in S
        /\ \A n : HandDebt(n)' => <<"hand", n>> \in S
        /\ \A n : SlotDebt(n)' => <<"slot", n>> \in S
    BY <1>arrives, <2>1, <2>2, <2>5, DebtMembers
  <2>9. Debts' \subseteq S
    BY <2>6, <2>7, <2>8, DebtsWithin
  <2> QED
    BY <1>swap, <2>1, <2>4, <2>9 DEF S
(* A send that is broken off leaves the debt of the request it garbles. *)
<1>17. CASE AbortRpc /\ call = "sending" /\ faults' = faults + 1
  <2>1. call' = "idle" /\ UNCHANGED <<lastId, table, waiters, peer>>
    BY <1>17 DEF AbortRpc
  <2>2. \A r : Awaited(r)' <=> Awaited(r)
    BY <1>17, <2>1 DEF Awaited
  <2>3. \A n : ServerDebt(n)' => ServerDebt(n) \/ n = 0
    BY <2>1, <2>2 DEF ServerDebt
  <2>4. \A n : /\ FailedDebt(n)' => FailedDebt(n)
               /\ WireDebt(n)' => WireDebt(n)
               /\ HandDebt(n)' => HandDebt(n)
               /\ SlotDebt(n)' => SlotDebt(n)
    BY <2>1, <2>2 DEF FailedDebt, WireDebt, Surplus, HandDebt, SlotDebt, Holding
  <2>5. Debts' \subseteq Debts \cup {<<"server", 0>>}
    BY <2>3, <2>4, DebtMembers, DebtsWithin
  <2> QED
    BY <1>more, <1>17, <2>5
<1>18. AbortRpc => \/ AbortRpc /\ UNCHANGED faults
                   \/ AbortRpc /\ call = "sent"
                   \/ AbortRpc /\ call = "sending" /\ faults' = faults + 1
  BY DEF AbortRpc
<1> QED
  BY <1>1, <1>2, <1>3, <1>4, <1>5, <1>6, <1>7, <1>8, <1>9, <1>10, <1>11, <1>13, <1>14, <1>15,
     <1>16, <1>17, <1>18 DEF Next, Caller, Waiter

LEMMA DebtsSettled == Spec => [](FutureInv /\ DebtsPaid)
<1>1. Init => FutureInv
  BY DEF Init, FutureInv, Holding, Unsettled
<1>2. Init => DebtsPaid
  <2> SUFFICES ASSUME Init PROVE DebtsPaid
    OBVIOUS
  <2>1. \A r : ~HandDebt(r) /\ ~FailedDebt(r) /\ ~ServerDebt(r) /\ ~SlotDebt(r) /\ ~WireDebt(r)
    BY DEF Init, HandDebt, Holding, FailedDebt, ServerDebt, SlotDebt, WireDebt
  <2>2. Debts = {}
    BY <2>1 DEF Debts
  <2> QED
    BY <2>2, FS_EmptySet DEF Init, DebtsPaid
<1>3. TypeOK /\ OnlyHolderReads /\ TableInv /\ AnswerInv /\ FutureInv /\ DebtsPaid
        /\ [Next]_vars => FutureInv' /\ DebtsPaid'
  BY FutureStep, DebtStep
<1> QED
  BY <1>1, <1>2, <1>3, Consistent, AnswersTraced, PTL DEF Spec

LEMMA FailedAreDebts == ASSUME TypeOK, DebtsPaid PROVE FailuresBounded
<1> DEFINE F == {d \in Debts : d[1] = "failed"}
           g == [d \in F |-> d[2]]
<1>1. IsFiniteSet(F) /\ Cardinality(F) <= Cardinality(Debts)
  BY FS_Subset DEF DebtsPaid
<1>2. Failed \subseteq {g[d] : d \in F}
  <2> SUFFICES ASSUME NEW id \in Failed PROVE id \in {g[d] : d \in F}
    OBVIOUS
  <2>1. <<"failed", id>> \in F
    BY DebtMembers DEF Failed, FailedDebt
  <2>2. g[<<"failed", id>>] = id
    BY <2>1
  <2> QED
    BY <2>1, <2>2
<1>3. Cardinality(F) \in Nat /\ Cardinality(Debts) \in Nat
  BY <1>1, FS_CardinalityType DEF DebtsPaid
<1> HIDE DEF F, g
<1>4. IsFiniteSet(Failed) /\ Cardinality(Failed) <= Cardinality(F)
  BY <1>1, <1>2, <1>3, MovedSet
<1>5. Cardinality(Failed) \in Nat
  BY <1>4, FS_CardinalityType
<1> QED
  BY <1>3, <1>1, <1>4, <1>5, BoundsAssumption DEF FailuresBounded, DebtsPaid, TypeOK

(* No more futures fail than there were faults of the peer, the transport  *)
(* or a caller: no interleaving of the session's own steps makes a reply   *)
(* arrive where none is awaited (session.rs:267-276, 299-330).             *)
THEOREM FailuresPaid == Spec => []FailuresBounded
BY FailedAreDebts, Consistent, DebtsSettled, PTL
----------------------------------------------------------------------------
(* The session implements RequestReply.  A future only exists for a        *)
(* request that has left.                                                  *)
SentInv ==
  /\ call = "sent" => server[lastId] # "none"
  /\ \A id \in Ids : fut[id] # "none" => server[id] # "none"

LEMMA SentStep ==
  ASSUME TypeOK, OnlyHolderReads, TableInv, SentInv, [Next]_vars
  PROVE  SentInv'
<1> USE DEF SentInv, TableInv, TypeOK, caller, table, waiters, peer
<1>1. CASE RpcBegin \/ LockRequests \/ AbortRpc
  BY <1>1 DEF RpcBegin, LockRequests, AbortRpc
<1>2. CASE SendRequest
  BY <1>2 DEF SendRequest
<1>3. CASE InsertPending
  BY <1>3 DEF InsertPending
<1>4. ASSUME NEW id \in Ids,
             \/ Poll(id) \/ TakeReply(id) \/ FindPending(id) \/ ReadMessage(id)
             \/ ReadError(id) \/ StoreReply(id) \/ DropFuture(id)
      PROVE  SentInv'
  <2>1. UNCHANGED <<caller, server>> /\ fut[id] # "none"
    BY <1>4 DEF Poll, TakeReply, FindPending, ReadMessage, ReadError, StoreReply, DropFuture,
                Unsettled
  <2>2. \A q \in Ids \ {id} : fut'[q] = fut[q]
    BY <1>4 DEF Poll, TakeReply, FindPending, ReadMessage, ReadError, StoreReply, DropFuture,
                Settle
  <2> QED
    BY <2>1, <2>2
<1>5. ASSUME NEW id \in Ids, Answer(id) \/ AnswerBadly(id) \/ RejectGarbled(id) PROVE SentInv'
  BY <1>5 DEF Answer, AnswerBadly, RejectGarbled
<1>6. ASSUME NEW id \in Ids \cup {NoId}, SendUnexpected(id) PROVE SentInv'
  BY <1>6 DEF SendUnexpected
<1>7. CASE UNCHANGED vars
  BY <1>7 DEF vars
<1> QED
  BY <1>1, <1>2, <1>3, <1>4, <1>5, <1>6, <1>7 DEF Next, Caller, Waiter

LEMMA FuturesSent == Spec => []SentInv
<1>1. Init => SentInv
  BY DEF Init, SentInv
<1> QED
  BY <1>1, Consistent, SentStep, PTL DEF Spec

(* What the caller sees, case by case. *)
LEMMA Views ==
  ASSUME TypeOK, NEW id \in Ids
  PROVE  /\ fut[id] = "done" => CallerView(id) = "delivered"
         /\ fut[id] = "failed" => CallerView(id) = "failed"
         /\ fut[id] = "dropped" => CallerView(id) = "abandoned"
         /\ fut[id] \in Unsettled \cup {"none"} =>
              /\ server[id] = "none" => CallerView(id) = "new"
              /\ server[id] = "received" => CallerView(id) = "asked"
              /\ server[id] = "answered" => CallerView(id) = "answered"
              /\ server[id] \in {"garbled", "rejected"} => CallerView(id) = "asked"
         /\ CallerView(id) = "failed" => fut[id] = "failed"
BY DEF TypeOK, CallerView, FutState, ServerState, Unsettled

LEMMA PromiseStep ==
  ASSUME TypeOK, TypeOK', OnlyHolderReads, TableInv, AnswerInv, SentInv, FailuresBounded',
         FutureInv, [Next]_vars
  PROVE  [Promise!Next]_(Promise!vars)
<1> DEFINE state == [id \in Ids |-> CallerView(id)]
<1> USE DEF caller, table, waiters, peer
<1>stays. ASSUME UNCHANGED <<fut, server>> PROVE state' = state
  BY <1>stays DEF CallerView
<1>other. ASSUME NEW id \in Ids, \A q \in Ids \ {id} : fut'[q] = fut[q] /\ server'[q] = server[q],
                 CallerView(id)' = CallerView(id)
          PROVE  state' = state
  BY <1>other DEF CallerView
<1>moves. ASSUME NEW id \in Ids, \A q \in Ids \ {id} : fut'[q] = fut[q] /\ server'[q] = server[q]
          PROVE  state' = [state EXCEPT ![id] = CallerView(id)']
  BY <1>moves DEF CallerView
<1>views. ASSUME NEW id \in Ids
          PROVE  /\ fut'[id] = "done" => CallerView(id)' = "delivered"
                 /\ fut'[id] = "failed" => CallerView(id)' = "failed"
                 /\ fut'[id] = "dropped" => CallerView(id)' = "abandoned"
                 /\ fut'[id] \in Unsettled \cup {"none"} =>
                      /\ server'[id] = "received" => CallerView(id)' = "asked"
                      /\ server'[id] = "answered" => CallerView(id)' = "answered"
                      /\ server'[id] \in {"garbled", "rejected"} => CallerView(id)' = "asked"
                 /\ CallerView(id)' = "failed" => fut'[id] = "failed"
  BY DEF TypeOK, CallerView, FutState, ServerState, Unsettled
<1>keeps. ASSUME NEW id \in Ids, server'[id] = server[id],
                 fut[id] \in Unsettled \cup {"none"}, fut'[id] \in Unsettled \cup {"none"}
          PROVE  CallerView(id)' = CallerView(id)
  BY <1>keeps DEF CallerView, Unsettled
<1>count. \A S : Promise!Cardinality(S) = Cardinality(S)
  BY DEF Promise!Cardinality, Cardinality
(* A future that fails, and one that is dropped. *)
<1>fails. ASSUME NEW id \in Ids, fut[id] \in Unsettled, fut' = [fut EXCEPT ![id] = "failed"],
                 UNCHANGED server, faults' \in {faults, faults + 1}
          PROVE  Promise!Next
  <2>1. state[id] \in {"asked", "answered"}
    BY <1>fails, Views DEF SentInv, TypeOK, Unsettled, ServerState
  <2>2. state' = [state EXCEPT ![id] = "failed"]
    <3>1. CallerView(id)' = "failed"
      BY <1>fails, <1>views DEF TypeOK
    <3> QED
      BY <1>fails, <1>moves, <3>1
  <2>3. {q \in Ids : state'[q] = "failed"} = Failed'
    BY <1>views DEF Failed
  <2>4. Promise!Fail(id)
    BY <1>count, <1>fails, <2>1, <2>2, <2>3 DEF Promise!Fail, Promise!Move, Promise!MayFault, FailuresBounded
  <2> QED
    BY <2>4 DEF Promise!Next
<1>1. CASE RpcBegin \/ LockRequests
  BY <1>1, <1>stays DEF RpcBegin, LockRequests, Promise!vars
<1>2. CASE SendRequest
  <2>0. PICK id \in Ids : id = lastId
    BY <1>2 DEF SendRequest, TableInv
  <2>1. /\ server[id] = "none" /\ fut[id] = "none"
        /\ server' = [server EXCEPT ![id] = IF torn THEN "garbled" ELSE "received"]
        /\ UNCHANGED <<fut, faults>>
    BY <1>2, <2>0 DEF SendRequest, TableInv, AnswerInv
  <2>2. state[id] = "new" /\ CallerView(id)' = "asked"
    BY <1>views, <2>1, Views DEF TypeOK
  <2>3. state' = [state EXCEPT ![id] = "asked"]
    BY <1>moves, <2>1, <2>2 DEF TypeOK
  <2>4. Promise!Send(id)
    BY <2>1, <2>2, <2>3 DEF Promise!Send, Promise!Move
  <2> QED
    BY <2>1, <2>4 DEF Promise!Next
<1>3. CASE InsertPending
  <2>0. PICK id \in Ids : id = lastId
    BY <1>3 DEF InsertPending, TableInv
  <2>1. /\ fut[id] = "none" /\ fut' = [fut EXCEPT ![id] = "unpolled"]
        /\ UNCHANGED <<server, faults>>
    BY <1>3, <2>0 DEF InsertPending, TableInv
  <2>2. fut[id] \in Unsettled \cup {"none"} /\ fut'[id] \in Unsettled \cup {"none"}
    BY <2>1 DEF TypeOK, Unsettled
  <2>3. CallerView(id)' = CallerView(id)
    BY <1>keeps, <2>1, <2>2
  <2> QED
    BY <1>other, <2>1, <2>3 DEF Promise!vars, TypeOK
<1>4. CASE AbortRpc
  <2>1. UNCHANGED <<fut, server>> /\ faults' \in {faults, faults + 1}
    BY <1>4 DEF AbortRpc
  <2> QED
    BY <1>stays, <2>1 DEF Promise!Next, Promise!Fault, Promise!vars
<1>5. ASSUME NEW id \in Ids, Poll(id) \/ FindPending(id) PROVE [Promise!Next]_(Promise!vars)
  <2>1. /\ UNCHANGED <<server, faults>> /\ fut[id] \in Unsettled /\ fut'[id] \in Unsettled
        /\ \A q \in Ids \ {id} : fut'[q] = fut[q]
    BY <1>5 DEF Poll, FindPending, Unsettled, TypeOK
  <2>2. CallerView(id)' = CallerView(id)
    BY <1>keeps, <2>1
  <2> QED
    BY <1>other, <2>1, <2>2 DEF Promise!vars
<1>6. ASSUME NEW id \in Ids, TakeReply(id) PROVE Promise!Next
  <2>1. requests[id] = "ready" /\ server[id] = "answered"
    BY <1>6 DEF TakeReply, FutureInv, Unsettled, TypeOK, AnswerInv, Answered
  <2>2. /\ fut[id] = "queued" /\ UNCHANGED <<server, faults>>
        /\ fut' = [fut EXCEPT ![id] = IF slot[id].body = "good" THEN "done" ELSE "failed"]
    BY <1>6, <2>1 DEF TakeReply, Settle
  <2>3. CASE slot[id].body = "good"
    <3>1. state[id] = "answered" /\ CallerView(id)' = "delivered"
      BY <1>views, <2>1, <2>2, <2>3, Views DEF TypeOK, Unsettled
    <3>2. state' = [state EXCEPT ![id] = "delivered"]
      BY <1>moves, <2>2, <3>1 DEF TypeOK
    <3>3. Promise!Deliver(id)
      BY <2>2, <3>1, <3>2 DEF Promise!Deliver, Promise!Move
    <3> QED
      BY <3>3 DEF Promise!Next
  <2>4. CASE slot[id].body # "good"
    BY <1>fails, <2>2, <2>4 DEF Unsettled
  <2> QED
    BY <2>3, <2>4
<1>7. ASSUME NEW id \in Ids, ReadMessage(id) PROVE [Promise!Next]_(Promise!vars)
  <2>1. fut[id] = "reading" /\ UNCHANGED <<server, faults>>
    BY <1>7 DEF ReadMessage
  <2>2. CASE fut' = [fut EXCEPT ![id] = "failed"]
    BY <1>fails, <2>1, <2>2 DEF Unsettled
  <2>3. CASE fut' = [fut EXCEPT ![id] = "holding"]
    <3>1. fut'[id] \in Unsettled /\ fut[id] \in Unsettled
      BY <2>1, <2>3 DEF TypeOK, Unsettled
    <3>2. CallerView(id)' = CallerView(id)
      BY <1>keeps, <2>1, <3>1
    <3> QED
      BY <1>other, <2>1, <2>3, <3>2 DEF Promise!vars, TypeOK
  <2> QED
    BY <1>7, <2>2, <2>3 DEF ReadMessage, Settle
<1>8. ASSUME NEW id \in Ids, ReadError(id) PROVE Promise!Next
  BY <1>8, <1>fails DEF ReadError, Settle, Unsettled
<1>9. ASSUME NEW id \in Ids, StoreReply(id) PROVE [Promise!Next]_(Promise!vars)
  <2>1. fut[id] = "holding" /\ UNCHANGED <<server, faults>>
    BY <1>9 DEF StoreReply
  <2>2. CASE fut' = [fut EXCEPT ![id] = "failed"]
    BY <1>fails, <2>1, <2>2 DEF Unsettled
  <2>3. CASE fut' = [fut EXCEPT ![id] = "queued"]
    <3>1. fut'[id] \in Unsettled /\ fut[id] \in Unsettled
      BY <2>1, <2>3 DEF TypeOK, Unsettled
    <3>2. CallerView(id)' = CallerView(id)
      BY <1>keeps, <2>1, <3>1
    <3> QED
      BY <1>other, <2>1, <2>3, <3>2 DEF Promise!vars, TypeOK
  <2> QED
    BY <1>9, <2>2, <2>3 DEF StoreReply, Settle
<1>10. ASSUME NEW id \in Ids, DropFuture(id) PROVE Promise!Next
  <2>1. /\ fut[id] \in Unsettled /\ fut' = [fut EXCEPT ![id] = "dropped"]
        /\ UNCHANGED server /\ faults' \in {faults, faults + 1}
    BY <1>10 DEF DropFuture
  <2>2. state[id] \in {"asked", "answered"} /\ CallerView(id)' = "abandoned"
    BY <1>views, <2>1, Views DEF SentInv, TypeOK, Unsettled, ServerState
  <2>3. state' = [state EXCEPT ![id] = "abandoned"]
    BY <1>moves, <2>1, <2>2 DEF TypeOK
  <2>4. Promise!Abandon(id)
    BY <2>1, <2>2, <2>3 DEF Promise!Abandon, Promise!Move, Promise!MayFault
  <2> QED
    BY <2>4 DEF Promise!Next
<1>11. ASSUME NEW id \in Ids, Answer(id) \/ AnswerBadly(id)
       PROVE  [Promise!Next]_(Promise!vars)
  <2>1. /\ server[id] = "received" /\ server' = [server EXCEPT ![id] = "answered"]
        /\ UNCHANGED fut /\ faults' \in {faults, faults + 1}
    BY <1>11 DEF Answer, AnswerBadly
  <2>2. CASE fut[id] \in Unsettled \cup {"none"}
    <3>1. state[id] = "asked" /\ CallerView(id)' = "answered"
      BY <1>views, <2>1, <2>2, Views DEF TypeOK
    <3>2. state' = [state EXCEPT ![id] = "answered"]
      BY <1>moves, <2>1, <3>1 DEF TypeOK
    <3>3. Promise!Answer(id)
      BY <2>1, <3>1, <3>2 DEF Promise!Answer, Promise!Move, Promise!MayFault
    <3> QED
      BY <3>3 DEF Promise!Next
  <2>3. CASE fut[id] \notin Unsettled \cup {"none"}
    <3>1. CallerView(id)' = CallerView(id)
      BY <1>views, <2>1, <2>3, Views DEF TypeOK, FutState
    <3>2. state' = state
      BY <1>other, <2>1, <3>1 DEF TypeOK
    <3> QED
      BY <2>1, <3>2 DEF Promise!vars, Promise!Next, Promise!Fault
  <2> QED
    BY <2>2, <2>3
<1>12. ASSUME NEW id \in Ids \cup {NoId}, SendUnexpected(id) PROVE Promise!Next
  BY <1>12, <1>stays DEF SendUnexpected, Promise!Next, Promise!Fault
<1>13. CASE UNCHANGED vars
  BY <1>13, <1>stays DEF vars, Promise!vars
<1>14. ASSUME NEW id \in Ids, RejectGarbled(id) PROVE UNCHANGED Promise!vars
  <2>1. /\ server[id] = "garbled" /\ server' = [server EXCEPT ![id] = "rejected"]
        /\ UNCHANGED <<fut, faults>>
    BY <1>14 DEF RejectGarbled
  <2>2. CallerView(id)' = CallerView(id)
    BY <1>views, <2>1, Views DEF TypeOK, FutState, Unsettled
  <2>3. state' = state
    BY <1>other, <2>1, <2>2 DEF TypeOK
  <2> QED
    BY <2>1, <2>3 DEF Promise!vars
<1> QED
  BY <1>1, <1>2, <1>3, <1>4, <1>5, <1>6, <1>7, <1>8, <1>9, <1>10, <1>11, <1>12, <1>13, <1>14
     DEF Next, Caller, Waiter

(* The session implements the promise of RequestReply: every step of its   *)
(* locks, table, queue and wire is a step of the promise or invisible to   *)
(* its callers (session.rs:234-257, 267-330).                              *)
THEOREM KeepsPromise == Spec => ImplementsRequestReply
<1>1. Init => Promise!Init
  BY DEF Init, Promise!Init, CallerView
<1>2. /\ TypeOK /\ TypeOK' /\ OnlyHolderReads /\ TableInv /\ AnswerInv /\ SentInv
      /\ FailuresBounded' /\ FutureInv /\ [Next]_vars
      => [Promise!Next]_(Promise!vars)
  BY PromiseStep
<1> QED
  BY <1>1, <1>2, Consistent, AnswersTraced, FuturesSent, DebtsSettled, FailuresPaid, PTL
     DEF Spec, ImplementsRequestReply, Promise!Spec
----------------------------------------------------------------------------
(* Without faults there are no debts: what is on the wire is the one good  *)
(* reply to a request that waits.  What is left to show is that no step    *)
(* loses it.                                                               *)
LEMMA NoDebts == ASSUME DebtsPaid, TypeOK, faults = 0 PROVE Debts = {}
<1>1. Cardinality(Debts) \in Nat
  BY FS_CardinalityType DEF DebtsPaid
<1> QED
  BY <1>1, FS_EmptySet DEF DebtsPaid

ReplyKept ==
  faults = 0 =>
    \A id \in Ids : server[id] = "answered" => OnWire(id) \/ InHand(id) \/ Stored(id)

LEMMA KeptStep ==
  ASSUME TypeOK, OnlyHolderReads, TableInv, AnswerInv, FutureInv, DebtsPaid, ReplyKept,
         [Next]_vars
  PROVE  ReplyKept'
<1> SUFFICES ASSUME faults' = 0, NEW id \in Ids, server'[id] = "answered"
             PROVE  (OnWire(id) \/ InHand(id) \/ Stored(id))'
  BY DEF ReplyKept
<1> USE DEF caller, table, waiters, peer
<1>fault. faults' # faults + 1 /\ faults \in Nat
  BY BoundsAssumption DEF TypeOK
<1>kept. ASSUME UNCHANGED <<inHand, peer, faults>>, Stored(id) => Stored(id)'
         PROVE  (OnWire(id) \/ InHand(id) \/ Stored(id))'
  BY <1>kept DEF ReplyKept, OnWire, InHand
<1>1. CASE RpcBegin \/ LockRequests
  BY <1>1, <1>kept DEF RpcBegin, LockRequests, Stored
<1>2. CASE SendRequest
  BY <1>2 DEF SendRequest, TypeOK, ReplyKept, OnWire, InHand, Stored
<1>3. CASE InsertPending
  BY <1>3, <1>kept DEF InsertPending, TableInv, TypeOK, Stored
<1>4. CASE AbortRpc
  BY <1>4, <1>fault, <1>kept DEF AbortRpc, Stored
<1>5. ASSUME NEW r \in Ids, Poll(r) \/ FindPending(r)
      PROVE  (OnWire(id) \/ InHand(id) \/ Stored(id))'
  BY <1>5, <1>kept DEF Poll, FindPending, Stored
<1>6. ASSUME NEW r \in Ids, TakeReply(r) PROVE (OnWire(id) \/ InHand(id) \/ Stored(id))'
  BY <1>6, <1>kept DEF TakeReply, TypeOK, Stored
<1>7. ASSUME NEW r \in Ids, ReadMessage(r) PROVE (OnWire(id) \/ InHand(id) \/ Stored(id))'
  <2>1. /\ faults = 0 /\ wire # <<>> /\ wire' = Tail(wire) /\ fut[r] = "reading"
        /\ UNCHANGED <<table, server>>
    BY <1>7 DEF ReadMessage
  <2>2. /\ Head(wire) = wire[1] /\ DOMAIN wire = 1 .. Len(wire) /\ Len(wire) \in Nat \ {0}
        /\ DOMAIN wire' = 1 .. Len(wire) - 1
        /\ \A i \in 1 .. Len(wire) - 1 : wire'[i] = wire[i + 1]
    BY <2>1, HeadTailProperties, LenProperties DEF TypeOK
  <2>3. Head(wire).body = "good"
    <3>1. ~WireDebt(1)
      BY <2>1, NoDebts, DebtMembers
    <3>2. 1 \in DOMAIN wire
      BY <2>2
    <3> QED
      BY <2>2, <3>1, <3>2 DEF WireDebt, Surplus
  <2>4. inHand' = Head(wire)
    BY <1>7, <2>3 DEF ReadMessage
  <2>5. ~InHand(id)
    BY <2>1 DEF OnlyHolderReads, HoldsRx, Holding, FutureInv, InHand, NoMessage, NoId, Ids
  <2>6. OnWire(id) => OnWire(id)' \/ InHand(id)'
    <3>1. ASSUME NEW i \in DOMAIN wire, wire[i].id = id, i # 1 PROVE OnWire(id)'
      <4>1. i - 1 \in DOMAIN wire' /\ wire'[i - 1].id = id
        BY <2>2, <3>1
      <4> QED
        BY <4>1 DEF OnWire
    <3> QED
      BY <2>2, <2>4, <3>1 DEF OnWire, InHand
  <2> QED
    BY <2>1, <2>5, <2>6 DEF ReplyKept, Stored
<1>8. ASSUME NEW r \in Ids, StoreReply(r) PROVE (OnWire(id) \/ InHand(id) \/ Stored(id))'
  <2>1. /\ faults = 0 /\ fut[r] = "holding" /\ call \notin {"sending", "sent"}
        /\ UNCHANGED peer
    BY <1>8 DEF StoreReply, RequestsLocked
  <2>2. Expected(inHand)
    <3>1. Awaited(inHand.id)
      BY <2>1, NoDebts, DebtMembers DEF HandDebt, Holding
    <3> QED
      BY <2>1, <3>1 DEF Awaited, Expected
  <2>3. requests' = [requests EXCEPT ![inHand.id] = "ready"]
    BY <1>8, <2>2 DEF StoreReply
  <2> QED
    BY <2>1, <2>3 DEF ReplyKept, OnWire, InHand, Stored, TypeOK
<1>9. ASSUME NEW r \in Ids, DropFuture(r) PROVE (OnWire(id) \/ InHand(id) \/ Stored(id))'
  BY <1>9, <1>fault, <1>kept DEF DropFuture, Stored
<1>10. ASSUME NEW r \in Ids, Answer(r) PROVE (OnWire(id) \/ InHand(id) \/ Stored(id))'
  <2>1. /\ faults = 0 /\ Reply(r) \in Message /\ wire' = Append(wire, Reply(r))
        /\ server' = [server EXCEPT ![r] = "answered"]
        /\ UNCHANGED <<table, inHand>>
    BY <1>10 DEF Answer, Reply, Message
  <2>2. /\ DOMAIN wire = 1 .. Len(wire) /\ Len(wire) \in Nat
        /\ DOMAIN wire' = 1 .. Len(wire) + 1 /\ wire'[Len(wire) + 1] = Reply(r)
        /\ \A i \in 1 .. Len(wire) : wire'[i] = wire[i]
    BY <2>1, AppendProperties, LenProperties DEF TypeOK
  <2>3. CASE id = r
    BY <2>2, <2>3 DEF OnWire, Reply
  <2>4. CASE id # r
    <3>1. OnWire(id) => OnWire(id)'
      BY <2>2 DEF OnWire
    <3> QED
      BY <2>1, <2>4, <3>1 DEF ReplyKept, InHand, Stored, TypeOK
  <2> QED
    BY <2>3, <2>4
<1>11. ASSUME NEW r \in Ids, ReadError(r) \/ AnswerBadly(r) PROVE FALSE
  BY <1>11, <1>fault DEF ReadError, AnswerBadly
<1>12. ASSUME NEW r \in Ids \cup {NoId}, SendUnexpected(r) PROVE FALSE
  BY <1>12, <1>fault DEF SendUnexpected
<1>13. CASE UNCHANGED vars
  BY <1>13, <1>kept DEF vars, Stored
<1>14. ASSUME NEW r \in Ids, RejectGarbled(r) PROVE FALSE
  <2>1. faults = 0 /\ server[r] = "garbled"
    BY <1>14 DEF RejectGarbled
  <2>2. <<"server", r>> \in Debts
    BY <2>1, DebtMembers DEF ServerDebt
  <2> QED
    BY <2>1, <2>2, NoDebts
<1> QED
  BY <1>1, <1>2, <1>3, <1>4, <1>5, <1>6, <1>7, <1>8, <1>9, <1>10, <1>11, <1>12, <1>13, <1>14
     DEF Next, Caller, Waiter

(* Without faults the one reply to a request is in exactly one place,      *)
(* whatever futures are polled or dropped (session.rs:267-330).            *)
THEOREM OnePlace == Spec => []ReplyInOnePlace
<1>1. Init => ReplyKept
  BY DEF Init, ReplyKept
<1>2. Spec => []ReplyKept
  BY <1>1, KeptStep, Consistent, AnswersTraced, DebtsSettled, PTL DEF Spec
<1>3. TypeOK /\ TableInv /\ FutureInv /\ DebtsPaid /\ ReplyKept => ReplyInOnePlace
  <2> SUFFICES ASSUME TypeOK, TableInv, FutureInv, DebtsPaid, ReplyKept, faults = 0,
                      NEW id \in Ids, server[id] = "answered"
               PROVE  /\ OnWire(id) \/ InHand(id) \/ Stored(id)
                      /\ ~(OnWire(id) /\ InHand(id)) /\ ~(OnWire(id) /\ Stored(id))
                      /\ ~(InHand(id) /\ Stored(id))
                      /\ \A i, j \in DOMAIN wire : wire[i].id = id /\ wire[j].id = id => i = j
    BY DEF ReplyInOnePlace
  <2>1. Awaited(id) => ~Stored(id)
    BY DEF Awaited, TableInv, Stored
  <2>2. \A i \in DOMAIN wire : ~Surplus(i)
    BY NoDebts, DebtMembers DEF WireDebt
  <2>3. OnWire(id) => Awaited(id) /\ ~InHand(id)
    BY <2>2 DEF OnWire, InHand, Surplus
  <2>4. InHand(id) => Awaited(id)
    <3>1. InHand(id) => Holding
      BY DEF InHand, FutureInv, NoMessage, NoId, Ids
    <3> QED
      BY <3>1, NoDebts, DebtMembers DEF HandDebt, InHand
  <2>5. \A i, j \in DOMAIN wire : wire[i].id = id /\ wire[j].id = id => i = j
    <3>1. DOMAIN wire = 1 .. Len(wire) /\ Len(wire) \in Nat
      BY LenProperties DEF TypeOK
    <3>2. \A i, j \in DOMAIN wire : wire[i].id = id /\ wire[j].id = id => ~(j < i)
      BY <2>2, <3>1 DEF Surplus
    <3> QED
      BY <3>1, <3>2
  <2> QED
    BY <2>1, <2>3, <2>4, <2>5 DEF ReplyKept
<1> QED
  BY <1>2, <1>3, Consistent, DebtsSettled, PTL
=============================================================================
