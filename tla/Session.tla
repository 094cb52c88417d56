------------------------------ MODULE Session ------------------------------
(***************************************************************************)
(* A NETCONF session, netconf/src/session.rs: one caller at a time sends   *)
(* requests with Session::rpc, each call that succeeds returns a future    *)
(* that waits for its own reply in Session::recv, and all those futures    *)
(* share one receive handle and one table of outstanding requests.         *)
(*                                                                         *)
(* The steps are cut where the code awaits: the requests mutex is held     *)
(* across the send, the receive handle's mutex is held across the read,    *)
(* and the bytes of a request reach the server before send() returns.  A   *)
(* send that does not get that far leaves nothing, or part of the request, *)
(* on the stream, as the byte-stream transports do; SSH's queues requests. *)
(*                                                                         *)
(* Payloads are left out: a message is its message-id and how much of it   *)
(* can be parsed.  Warnings and errors in a well-formed reply are results  *)
(* like any other.                                                         *)
(***************************************************************************)
EXTENDS Integers, Sequences, SequencesExt, FiniteSets

CONSTANTS MaxRpcs,    \* bound: calls of rpc() and close() in a behaviour
          MaxFaults   \* bound: faults of the peer, the transport, the caller

ASSUME BoundsAssumption == MaxRpcs \in Nat \ {0} /\ MaxFaults \in Nat

VARIABLES
  lastId,    \* Session::last_message_id
  call,      \* where the rpc() in progress is; rpc takes &mut self
  torn,      \* part of a request is on the stream, its rest will not follow
  requests,  \* status of each entry of Session::requests
  slot,      \* the reply in a Ready entry, then in the future that took it
  fut,       \* where the future that rpc() returned for each id is
  rxQueue,   \* the FIFO mutex around transport_rx, its holder first
  inHand,    \* the message the holder has read and not yet stored
  server,    \* what the server has done with each request
  wire,      \* messages on their way to the client
  faults     \* faults so far

caller   == <<lastId, call, torn>>
table    == <<requests, slot>>
waiters  == <<fut, rxQueue, inHand>>
peer     == <<server, wire>>
vars     == <<lastId, call, torn, requests, slot, fut, rxQueue, inHand,
              server, wire, faults>>

Ids  == 1 .. MaxRpcs
NoId == 0                              \* an id the client has never used

Message   == [id : Ids \cup {NoId}, body : {"good", "bad", "garbage"}]
Reply(id) == [id |-> id, body |-> "good"]
NoMessage == [id |-> NoId, body |-> "garbage"]

Status   == {"absent", "pending", "ready", "complete"}
Unsettled == {"unpolled", "queued", "reading", "holding"}
FutState == {"none", "done", "failed", "dropped"} \cup Unsettled
CallState == {"idle", "waiting", "sending", "sent"}
ServerState == {"none", "received", "answered", "garbled", "rejected"}

(* Mutant: the mutex is let go before the entry is inserted. *)
RequestsLocked_UntilSent == call = "sending"

(* rpc() keeps the requests mutex from the lookup to the insertion.        *)
RequestsLocked == call \in {"sending", "sent"}
HoldsRx(id)    == rxQueue # <<>> /\ Head(rxQueue) = id

Init ==
  /\ lastId = NoId /\ call = "idle" /\ torn = FALSE
  /\ requests = [id \in Ids |-> "absent"]
  /\ slot = [id \in Ids |-> NoMessage]
  /\ fut = [id \in Ids |-> "none"]
  /\ rxQueue = <<>> /\ inHand = NoMessage
  /\ server = [id \in Ids |-> "none"] /\ wire = <<>>
  /\ faults = 0

----------------------------------------------------------------------------
(* The caller of rpc(). *)

(* Mutant: the id is incremented before and after it is used. *)
RpcBegin_CountsTwice ==
  /\ call = "idle" /\ lastId < MaxRpcs
  /\ lastId' = lastId + 2
  /\ call' \in {"waiting", "idle"}
  /\ UNCHANGED <<torn, table, waiters, peer, faults>>

(* The id is taken before the request is built and validated, so a request *)
(* that fails validation uses up an id.  close() begins like this too, for *)
(* an operation that always validates.  It consumes the Session: its       *)
(* behaviours are those in which the caller makes no further call, as      *)
(* nothing here obliges it to (session.rs:335-341).                        *)
RpcBegin ==
  /\ call = "idle" /\ lastId < MaxRpcs
  /\ lastId' = lastId + 1
  /\ call' \in {"waiting", "idle"}
  /\ UNCHANGED <<torn, table, waiters, peer, faults>>

(* MessageIdCollision, or go on with the mutex held.  No receiver keeps    *)
(* the requests mutex across an await, so it is free here.                 *)
LockRequests ==
  /\ call = "waiting"
  /\ call' = IF requests[lastId] = "absent" THEN "sending" ELSE "idle"
  /\ UNCHANGED <<lastId, torn, table, waiters, peer, faults>>

(* The request leaves; the server can answer before send() has returned.   *)
(* Behind a torn request it ends the message that the other one began.     *)
SendRequest ==
  /\ call = "sending"
  /\ call' = "sent"
  /\ server' = [server EXCEPT ![lastId] = IF torn THEN "garbled" ELSE "received"]
  /\ torn' = FALSE
  /\ UNCHANGED <<lastId, table, waiters, wire, faults>>

InsertPending ==
  /\ call = "sent"
  /\ call' = "idle"
  /\ requests' = [requests EXCEPT ![lastId] = "pending"]
  /\ fut' = [fut EXCEPT ![lastId] = "unpolled"]
  /\ UNCHANGED <<lastId, torn, slot, rxQueue, inHand, peer, faults>>

(* Mutant: a call that fails gives its id back. *)
AbortRpc_ReusesId ==
  /\ call \in {"waiting", "sending", "sent"}
  /\ faults < MaxFaults /\ faults' = faults + 1
  /\ call' = "idle" /\ lastId' = lastId - 1
  /\ UNCHANGED <<torn, table, waiters, peer>>

(* send() fails, or the caller drops the outer future: no entry is made.   *)
(* It is a fault when the server has the request nevertheless, or part of  *)
(* it: what write_all() has written is not taken back (tls.rs:86-87).      *)
AbortRpc ==
  /\ call \in {"waiting", "sending", "sent"}
  /\ call' = "idle"
  /\ \/ call # "sent" /\ UNCHANGED <<torn, faults>>
     \/ /\ call # "waiting" /\ torn' = (call = "sending")
        /\ faults < MaxFaults /\ faults' = faults + 1
  /\ UNCHANGED <<lastId, table, waiters, peer>>

----------------------------------------------------------------------------
(* The futures: Session::recv. *)

Poll(id) ==
  /\ fut[id] = "unpolled"
  /\ fut' = [fut EXCEPT ![id] = "queued"]
  /\ rxQueue' = Append(rxQueue, id)
  /\ UNCHANGED <<caller, table, inHand, peer, faults>>

Settle(id, outcome) ==
  /\ fut' = [fut EXCEPT ![id] = outcome]
  /\ rxQueue' = Tail(rxQueue)

(* take() on an entry that is not Pending: its reply, to be parsed, or     *)
(* RequestNotFound or RequestComplete.                                     *)
TakeReply(id) ==
  /\ fut[id] = "queued" /\ HoldsRx(id) /\ ~RequestsLocked
  /\ requests[id] # "pending"
  /\ IF requests[id] = "ready"
     THEN /\ requests' = [requests EXCEPT ![id] = "complete"]
          /\ Settle(id, IF slot[id].body = "good" THEN "done" ELSE "failed")
     ELSE /\ UNCHANGED requests
          /\ Settle(id, "failed")
  /\ UNCHANGED <<caller, slot, inHand, peer, faults>>

(* take() on a Pending entry leaves it; the holder reads the transport.    *)
FindPending(id) ==
  /\ fut[id] = "queued" /\ HoldsRx(id) /\ ~RequestsLocked
  /\ requests[id] = "pending"
  /\ fut' = [fut EXCEPT ![id] = "reading"]
  /\ UNCHANGED <<caller, table, rxQueue, inHand, peer, faults>>

(* PartialReply::recv: a message without a usable message-id fails the     *)
(* future that read it, whoever it was meant for.                          *)
ReadMessage(id) ==
  /\ fut[id] = "reading" /\ wire # <<>>
  /\ wire' = Tail(wire)
  /\ IF Head(wire).body = "garbage"
     THEN Settle(id, "failed") /\ UNCHANGED inHand
     ELSE /\ fut' = [fut EXCEPT ![id] = "holding"]
          /\ inHand' = Head(wire)
          /\ UNCHANGED rxQueue
  /\ UNCHANGED <<caller, table, server, faults>>

ReadError(id) ==
  /\ fut[id] = "reading" /\ faults < MaxFaults
  /\ faults' = faults + 1
  /\ Settle(id, "failed")
  /\ UNCHANGED <<caller, table, inHand, peer>>

(* Mutant: a Ready entry accepts another reply. *)
Expected_OrReady(m) == m.id \in Ids /\ requests[m.id] \in {"pending", "ready"}

Expected(m) == m.id \in Ids /\ requests[m.id] = "pending"

(* Mutant: the reader keeps the mutex and reads on, without a new look.    *)
StoreReply_ReadsOn(id) ==
  /\ fut[id] = "holding" /\ ~RequestsLocked /\ Expected(inHand)
  /\ inHand' = NoMessage
  /\ requests' = [requests EXCEPT ![inHand.id] = "ready"]
  /\ slot' = [slot EXCEPT ![inHand.id] = inHand]
  /\ fut' = [fut EXCEPT ![id] = "reading"]
  /\ UNCHANGED <<caller, peer, rxQueue, faults>>

(* Mutant: the reader takes whatever it read for its own reply. *)
StoreReply_AsOwn(id) ==
  /\ fut[id] = "holding" /\ ~RequestsLocked
  /\ inHand' = NoMessage
  /\ requests' = [requests EXCEPT ![id] = "ready"]
  /\ slot' = [slot EXCEPT ![id] = inHand]
  /\ fut' = [fut EXCEPT ![id] = "queued"]
  /\ rxQueue' = Append(Tail(rxQueue), id)
  /\ UNCHANGED <<caller, peer, faults>>

(* The message goes to the entry it names and the holder lets the mutex    *)
(* go, to queue for it again; a message no entry waits for (unknown id,    *)
(* Complete or already Ready) is an error of the future that read it.      *)
StoreReply(id) ==
  /\ fut[id] = "holding" /\ ~RequestsLocked
  /\ inHand' = NoMessage
  /\ IF Expected(inHand)
     THEN /\ requests' = [requests EXCEPT ![inHand.id] = "ready"]
          /\ slot' = [slot EXCEPT ![inHand.id] = inHand]
          /\ fut' = [fut EXCEPT ![id] = "queued"]
          /\ rxQueue' = Append(Tail(rxQueue), id)
     ELSE /\ UNCHANGED table
          /\ Settle(id, "failed")
  /\ UNCHANGED <<caller, peer, faults>>

(* Mutant: a reader that is dropped takes the bytes it has read with it. *)
DropFuture_LosesInput(id) ==
  /\ fut[id] = "reading" /\ wire # <<>>
  /\ wire' = Tail(wire) /\ Settle(id, "dropped")
  /\ UNCHANGED <<caller, table, inHand, server, faults>>

(* Mutant: a future that is dropped keeps its place at the receive mutex. *)
DropFuture_KeepsMutex(id) ==
  /\ fut[id] \in {"queued", "reading"}
  /\ fut' = [fut EXCEPT ![id] = "dropped"]
  /\ UNCHANGED <<caller, table, rxQueue, inHand, peer, faults>>

(* A future is dropped.  The tokio mutex forgets it and bytes not yet      *)
(* split off stay in the receive buffer; only a message it holds is lost.  *)
DropFuture(id) ==
  /\ fut[id] \in Unsettled
  /\ IF fut[id] = "holding" THEN faults < MaxFaults /\ faults' = faults + 1
                            ELSE UNCHANGED faults
  /\ fut' = [fut EXCEPT ![id] = "dropped"]
  /\ IF fut[id] = "unpolled"
     THEN UNCHANGED rxQueue
     ELSE \E i \in DOMAIN rxQueue : /\ rxQueue[i] = id
                                    /\ rxQueue' = RemoveAt(rxQueue, i)
  /\ inHand' = IF fut[id] = "holding" THEN NoMessage ELSE inHand
  /\ UNCHANGED <<caller, table, peer>>

----------------------------------------------------------------------------
(* The server and the transport: replies in any order, and their faults.   *)

Answer(id) ==
  /\ server[id] = "received"
  /\ server' = [server EXCEPT ![id] = "answered"]
  /\ wire' = Append(wire, Reply(id))
  /\ UNCHANGED <<caller, table, waiters, faults>>

(* A reply that cannot be parsed, with or without a readable message-id.   *)
AnswerBadly(id) ==
  /\ server[id] = "received" /\ faults < MaxFaults
  /\ faults' = faults + 1
  /\ server' = [server EXCEPT ![id] = "answered"]
  /\ \E body \in {"bad", "garbage"} :
       wire' = Append(wire, [id |-> id, body |-> body])
  /\ UNCHANGED <<caller, table, waiters>>

(* A torn request and the next one in one message are no XML.  All that    *)
(* the server can say is that, in an answer without a message-id.          *)
RejectGarbled(id) ==
  /\ server[id] = "garbled"
  /\ server' = [server EXCEPT ![id] = "rejected"]
  /\ wire' = Append(wire, [id |-> NoId, body |-> "garbage"])
  /\ UNCHANGED <<caller, table, waiters, faults>>

(* A reply is repeated, or names an id that was never used.                *)
SendUnexpected(id) ==
  /\ faults < MaxFaults
  /\ id \in {NoId} \cup {r \in Ids : server[r] = "answered"}
  /\ faults' = faults + 1
  /\ wire' = Append(wire, Reply(id))
  /\ UNCHANGED <<caller, table, waiters, server>>

----------------------------------------------------------------------------
Caller == RpcBegin \/ LockRequests \/ SendRequest \/ InsertPending
Waiter(id) == TakeReply(id) \/ FindPending(id) \/ ReadMessage(id) \/ StoreReply(id)

Next ==
  \/ Caller \/ AbortRpc
  \/ \E id \in Ids : \/ Poll(id) \/ Waiter(id) \/ ReadError(id) \/ DropFuture(id)
                     \/ Answer(id) \/ AnswerBadly(id) \/ RejectGarbled(id)
  \/ \E id \in Ids \cup {NoId} : SendUnexpected(id)

Spec == Init /\ [][Next]_vars

(* A call that has started goes on, a future that was polled is polled     *)
(* again until it settles or is dropped - only the holder of the receive   *)
(* mutex can move then -, and the server answers.  Nothing obliges the     *)
(* program to make calls or to poll a future at all.                       *)
Fairness ==
  /\ WF_vars(LockRequests \/ SendRequest \/ InsertPending)
  /\ WF_vars(\E id \in Ids : Waiter(id)) /\ WF_vars(\E id \in Ids : Answer(id))

FairSpec == Spec /\ Fairness

----------------------------------------------------------------------------
(* Type invariant: the shape of the session's state. *)
TypeOK ==
  /\ lastId \in 0 .. MaxRpcs /\ call \in CallState /\ torn \in BOOLEAN
  /\ requests \in [Ids -> Status] /\ slot \in [Ids -> Message]
  /\ fut \in [Ids -> FutState] /\ rxQueue \in Seq(Ids) /\ inHand \in Message
  /\ server \in [Ids -> ServerState] /\ wire \in Seq(Message)
  /\ faults \in 0 .. MaxFaults

(* A future waits on the transport only while its own entry is Pending:    *)
(* its reply was not stored between its look at the table and its read     *)
(* (session.rs:296-311, where the look is made under the receive mutex).   *)
NoStrandedReply ==
  \A id \in Ids : fut[id] = "reading" => requests[id] = "pending" /\ HoldsRx(id)

(* A future yields the reply that carries its own id, which the server has *)
(* sent, however replies are ordered and whoever reads them from the wire  *)
(* (session.rs:313-329 and the message-id check of Reply::try_from).       *)
OwnReply ==
  \A id \in Ids : fut[id] = "done" => slot[id] = Reply(id) /\ server[id] = "answered"

Failed == {id \in Ids : fut[id] = "failed"}

(* Every future that fails is paid for by a fault of the peer, the         *)
(* transport or the caller: no interleaving of the client's own steps      *)
(* makes a reply arrive at a missing, Ready or Complete entry, and one     *)
(* fault fails at most one future (session.rs:267-276 and 299-330).        *)
FailuresBounded == Cardinality(Failed) <= faults

(* A stored reply stays as it is until its own future takes it; a repeated *)
(* reply does not overwrite it (session.rs:320-329).                       *)
StoredReplyIsKept ==
  [][\A id \in Ids : requests[id] = "ready" =>
       \/ requests'[id] = "ready" /\ slot'[id] = slot[id]
       \/ requests'[id] = "complete" /\ fut'[id] \in {"done", "failed"}]_vars

OnWire(id) == \E i \in DOMAIN wire : wire[i].id = id
InHand(id) == inHand.id = id
Stored(id) == requests[id] \in {"ready", "complete"}

(* Without faults the one reply to a request is in exactly one place: on   *)
(* the wire, with the future that read it, or in its entry - also when     *)
(* futures are dropped at any point where they hold no message.            *)
ReplyInOnePlace ==
  \A id \in Ids : faults = 0 /\ server[id] = "answered" =>
    /\ OnWire(id) \/ InHand(id) \/ Stored(id)
    /\ ~(OnWire(id) /\ InHand(id)) /\ ~(OnWire(id) /\ Stored(id))
    /\ ~(InHand(id) /\ Stored(id))
    /\ \A i, j \in DOMAIN wire : wire[i].id = id /\ wire[j].id = id => i = j

(* Without faults, a future that is polled settles with its reply, even    *)
(* when the future that was to read that reply is dropped.                 *)
PolledFutureSettles ==
  [](faults = 0) =>
    \A id \in Ids : (fut[id] = "queued") ~> (fut[id] \in {"done", "dropped"})

(* The caller's view of request id.  A future that settled or was dropped  *)
(* says so; before that, the server's progress tells.                      *)
CallerView(id) ==
  CASE fut[id] = "done"    -> "delivered"
    [] fut[id] = "failed"  -> "failed"
    [] fut[id] = "dropped" -> "abandoned"
    [] OTHER -> [none |-> "new", received |-> "asked", answered |-> "answered",
                 garbled |-> "asked", rejected |-> "asked"][server[id]]

Promise == INSTANCE RequestReply WITH
  Requests <- Ids, state <- [id \in Ids |-> CallerView(id)]

(* The session implements the request/reply promise: answers are delivered *)
(* once, after the server gave them, and errors are paid for by faults.    *)
ImplementsRequestReply == Promise!Spec

=============================================================================
