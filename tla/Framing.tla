------------------------------ MODULE Framing -------------------------------
(***************************************************************************)
(* The receive half of the byte-stream transports: Receiver::recv in       *)
(* netconf/src/transport/junos_local.rs, and in tls.rs, which is the same. *)
(* It cuts the stream after each end-of-message marker ]]>]]>.             *)
(*                                                                         *)
(* The stream ends in two ways: closed, when what was written can still be *)
(* read and then every read is a success with no bytes, and broken, when   *)
(* any read may fail and one that finds no bytes does.                     *)
(*                                                                         *)
(* Bytes are offsets into the stream the server sends: a number of         *)
(* messages, each BodyLen bytes and a marker of MarkerLen bytes.  A body   *)
(* holds no marker and no start of one that a marker can complete.         *)
(***************************************************************************)
EXTENDS Integers, Sequences

CONSTANTS Messages,   \* bound: messages the server sends
          BodyLen, MarkerLen,
          MaxCancels  \* bound: recv() futures that are dropped

ASSUME StreamAssumption ==
  /\ Messages \in Nat \ {0} /\ BodyLen \in Nat /\ MarkerLen \in Nat \ {0}
  /\ MaxCancels \in Nat

VARIABLES
  stream,     \* open, closed or broken
  sent,       \* bytes the server has written
  start,      \* the receive buffer holds the bytes from start ..
  end,        \* .. to end
  searched,   \* end of the searched part of the buffer, local to recv()
  pc,         \* no recv() in progress, in its search, or in its read
  delivered,  \* the pieces recv() has returned
  missed,     \* history: places where searches of this recv() ended
  cancels

buffer == <<start, end>>
vars   == <<stream, sent, buffer, searched, pc, delivered, missed, cancels>>

MessageLen == BodyLen + MarkerLen
EndOf(k)   == k * MessageLen
Length     == EndOf(Messages)

(* Messages whose marker lies in the part of the buffer from offset b on.  *)
MarkersFrom(b) == {k \in 1 .. Messages : EndOf(k) - MarkerLen >= b /\ EndOf(k) <= end}
IsFirst(k, ks) == k \in ks /\ \A j \in ks : k <= j

Init ==
  /\ stream = "open" /\ sent = 0 /\ start = 0 /\ end = 0 /\ searched = 0
  /\ pc = "idle" /\ delivered = <<>> /\ missed = {} /\ cancels = 0

Write ==
  /\ stream = "open" /\ sent < Length
  /\ sent' \in sent + 1 .. Length
  /\ UNCHANGED <<stream, buffer, searched, pc, delivered, missed, cancels>>

(* The server goes away, also in the middle of a message.                  *)
End ==
  /\ stream = "open"
  /\ stream' \in {"closed", "broken"}
  /\ UNCHANGED <<sent, buffer, searched, pc, delivered, missed, cancels>>

(* Mutant: what was searched is remembered from one call to the next.      *)
Recv_Resumes ==
  /\ pc = "idle" /\ start < Length
  /\ pc' = "searching" /\ missed' = {}
  /\ UNCHANGED <<stream, sent, buffer, searched, delivered, cancels>>

Recv ==
  /\ pc = "idle" /\ start < Length
  /\ pc' = "searching"
  /\ searched' = start /\ missed' = {}
  /\ UNCHANGED <<stream, sent, buffer, delivered, cancels>>

(* Mutant: the index of the marker is taken from the start of the buffer. *)
Split_ForgetsOffset ==
  /\ pc = "searching" /\ pc' = "idle"
  /\ \E k \in 1 .. Messages : LET cut == start + EndOf(k) - searched IN
       /\ IsFirst(k, MarkersFrom(searched))
       /\ delivered' = Append(delivered, [from |-> start, to |-> cut, missed |-> missed])
       /\ start' = cut
  /\ UNCHANGED <<stream, sent, end, searched, missed, cancels>>

Split ==
  /\ pc = "searching" /\ pc' = "idle"
  /\ \E k \in 1 .. Messages : LET cut == EndOf(k) IN
       /\ IsFirst(k, MarkersFrom(searched))
       /\ delivered' = Append(delivered, [from |-> start, to |-> cut, missed |-> missed])
       /\ start' = cut
  /\ UNCHANGED <<stream, sent, end, searched, missed, cancels>>

NotFound ==
  /\ pc = "searching" /\ MarkersFrom(searched) = {}
  /\ searched' = end /\ missed' = missed \cup {end}
  /\ pc' = "reading"
  /\ UNCHANGED <<stream, sent, buffer, delivered, cancels>>

(* Some of what has arrived.                                               *)
Read ==
  /\ pc = "reading" /\ end < sent
  /\ end' \in end + 1 .. sent
  /\ pc' = "searching"
  /\ UNCHANGED <<stream, sent, start, searched, delivered, missed, cancels>>

(* No bytes of a stream that was closed: the code takes them for some.     *)
ReadNothing ==
  /\ pc = "reading" /\ stream = "closed" /\ end = sent
  /\ pc' = "searching"
  /\ UNCHANGED <<stream, sent, buffer, searched, delivered, missed, cancels>>

(* Mutant: a read that fails is tried again. *)
ReadFails_Retries ==
  /\ pc = "reading" /\ stream = "broken"
  /\ pc' = "searching"
  /\ UNCHANGED <<stream, sent, buffer, searched, delivered, missed, cancels>>

(* The error of a read is the result of recv().                            *)
ReadFails ==
  /\ pc = "reading" /\ stream = "broken"
  /\ pc' = "idle"
  /\ UNCHANGED <<stream, sent, buffer, searched, delivered, missed, cancels>>

(* Mutant: the buffer belongs to the future that is dropped. *)
Cancel_DropsBuffer ==
  /\ pc = "reading" /\ cancels < MaxCancels
  /\ cancels' = cancels + 1 /\ pc' = "idle"
  /\ start' = end
  /\ UNCHANGED <<stream, sent, end, searched, delivered, missed>>

(* The future is dropped at its await; the buffer is the Receiver's.       *)
Cancel ==
  /\ pc = "reading" /\ cancels < MaxCancels
  /\ cancels' = cancels + 1 /\ pc' = "idle"
  /\ UNCHANGED <<stream, sent, buffer, searched, delivered, missed>>

Receiver == Recv \/ Split \/ NotFound \/ Read \/ ReadNothing \/ ReadFails
Next     == Write \/ End \/ Receiver \/ Cancel

Spec     == Init /\ [][Next]_vars

(* The server writes its messages, unless it goes away, and the client     *)
(* goes on receiving.                                                      *)
FairSpec == Spec /\ WF_vars(Write) /\ WF_vars(Receiver)

----------------------------------------------------------------------------
(* Type invariant.  The slice that is searched lies within the buffer. *)
TypeOK ==
  /\ stream \in {"open", "closed", "broken"}
  /\ sent \in 0 .. Length /\ start \in 0 .. end /\ end \in 0 .. sent
  /\ pc \in {"idle", "searching", "reading"}
  /\ searched \in 0 .. end /\ (pc # "idle" => searched >= start)
  /\ delivered \in Seq([from : 0 .. Length, to : 0 .. Length, missed : SUBSET (0 .. Length)])
  /\ missed \subseteq 0 .. Length /\ cancels \in 0 .. MaxCancels

InMarker(k, offset) == EndOf(k) - MarkerLen < offset /\ offset < EndOf(k)

(* A piece starts where a message starts, ends where a message ends, and   *)
(* runs past the end of another message only if a search of that same call *)
(* had ended inside that message's marker; that an earlier call was        *)
(* dropped there does no harm (junos_local.rs:119-133).                    *)
OnlyCutMarkersAreMissed ==
  \A i \in DOMAIN delivered :
    LET piece == delivered[i] IN
      /\ \E k \in 1 .. Messages : piece.from = EndOf(k - 1)
      /\ \E k \in 1 .. Messages : piece.to = EndOf(k)
      /\ \A k \in 1 .. Messages :
           piece.from < EndOf(k) /\ EndOf(k) < piece.to =>
             \E offset \in piece.missed : InMarker(k, offset)

NoReadEndsInMarker == \A k \in 1 .. Messages : ~InMarker(k, end)
Delivered(k) == \E i \in DOMAIN delivered :
                  delivered[i].from = EndOf(k - 1) /\ delivered[i].to = EndOf(k)

(* If no read ends inside a marker or fails, every message the server has  *)
(* written is delivered, by itself, whichever calls were dropped on the    *)
(* way and though the server has closed the stream since.                  *)
AllDelivered ==
  [](NoReadEndsInMarker /\ stream # "broken") =>
    \A k \in 1 .. Messages : (sent >= EndOf(k)) ~> Delivered(k)

(* When the stream breaks, a call that waits for the rest of a message, or *)
(* finds the rest is no message, ends (junos_local.rs:131, tls.rs:125).    *)
BreakIsNoticed == (stream = "broken" /\ pc # "idle") ~> (pc = "idle")

(* A call ends when the stream has: "An Err variant [...] indicates either *)
(* a session/transport error while receiving the <rpc-reply> message"      *)
(* (session.rs:254-255).                                                   *)
EndIsNoticed == (stream # "open" /\ pc # "idle") ~> (pc = "idle")

=============================================================================
