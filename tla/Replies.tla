------------------------------ MODULE Replies -------------------------------
(***************************************************************************)
(* How a message that should be an <rpc-reply> is read: twice, first for   *)
(* its message-id (PartialReply::read_xml in netconf/src/message/rpc/      *)
(* mod.rs), so that Session can give it to the request it answers, then as *)
(* the Reply of that request's operation.  Both readers take the same XML  *)
(* events, one after the other, and are run here side by side.             *)
(*                                                                         *)
(* An event is what the readers tell apart: the start or the end of an     *)
(* element with children, a whole element without, malformed input, the    *)
(* end of the message.  Comments, which all readers skip, are left out; so *)
(* is the text of an element but for whether it can be parsed.  An         *)
(* <rpc-reply> within an <rpc-reply> is one of the unknown elements.       *)
(***************************************************************************)
EXTENDS Integers, Sequences, SequencesExt, FiniteSets

CONSTANTS Ids,         \* message-ids
          NoId,        \* no message-id attribute
          MaxReplies,  \* bound: <rpc-reply> elements in a message
          MaxItems     \* bound: children of an <rpc-reply> that can be read

ASSUME RepliesAssumption ==
  NoId \notin Ids /\ MaxReplies \in Nat \ {0} /\ MaxItems \in Nat

VARIABLES
  kind,      \* the operation's Reply: EmptyReply, DataReply, BareReply, load's
  at,        \* the innermost element that is open
  list,      \* the element that holds the <ok/> or the <rpc-error>s
  partial,   \* PartialReply's reader
  reply,     \* Reply's reader
  fields,    \* children of the <rpc-error> that have been read
  written,   \* history: the children of the last <rpc-reply>
  flaw,      \* history: the message cannot be read whatever the operation
  disputed,  \* history: an earlier <rpc-reply> was Undercounted
  replies    \* <rpc-reply> elements so far

input == <<at, list, fields, replies>>
vars  == <<kind, input, partial, reply, written, flaw, disputed>>

Kinds    == {"empty", "data", "bare", "load"}
Elements == {"message", "rpc-reply", "results", "rpc-error", "error-info", "end"}

(* error-message stands for error-app-tag and error-path too.              *)
Mandatory == {"error-type", "error-tag", "error-severity"}
Fields    == Mandatory \cup {"error-message", "error-info"}

NoCount == -1
Counts  == NoCount .. MaxItems

(* <ok/>, <data>, <rpc-error>, <load-configuration-results>, and           *)
(* <load-error-count>, the only one with a number.                         *)
Item(where, what, number) == [where |-> where, what |-> what, number |-> number]
Items == [where : {"rpc-reply", "results"}, number : 0 .. MaxItems,
          what : {"ok", "data", "error", "results", "count"}]

(* The states of the two readers.                                          *)
PartialReader == [status : {"outside", "inside", "failed"}, id : Ids \cup {NoId}]
ReplyReader   == [status : {"reading", "failed"}, id : Ids \cup {NoId}, errors : Nat,
                  this : {"none", "ok", "data", "errs"}, count : Counts]

Unread == [status |-> "reading", id |-> NoId, this |-> "none",
           errors |-> 0, count |-> NoCount]
Failed == [Unread EXCEPT !.status = "failed"]

Init ==
  /\ kind \in Kinds /\ at = "message" /\ list = "rpc-reply"
  /\ partial = [status |-> "outside", id |-> NoId]
  /\ reply = Unread
  /\ fields = {} /\ written = <<>> /\ replies = 0
  /\ flaw = FALSE /\ disputed = FALSE

----------------------------------------------------------------------------
(* Both readers. *)

(* Mutant: read_to_end() within a reply stops at the first end tag. *)
PartialSees_AnyEnd(leaves) ==
  partial' = CASE partial.status = "inside"  ->
                    [partial EXCEPT !.status = IF leaves \/ at = "rpc-error"
                                               THEN "outside" ELSE @]
               [] partial.status = "outside" -> [partial EXCEPT !.status = "failed"]
               [] OTHER -> partial

(* Within an <rpc-reply> PartialReply reads to its end and ignores errors: *)
(* malformed input takes it out of the reply as well.  Outside, anything   *)
(* but an <rpc-reply> is an UnexpectedXmlEvent.                            *)
PartialSees(leaves) ==
  partial' = CASE partial.status = "inside"  ->
                    [partial EXCEPT !.status = IF leaves THEN "outside" ELSE @]
               [] partial.status = "outside" -> [partial EXCEPT !.status = "failed"]
               [] OTHER -> partial

(* Reply's reader goes on with next, or returns an error for ever.         *)
ReplySees(takes, next) ==
  reply' = IF reply.status = "reading" /\ takes THEN next ELSE Failed

(* What has been written, as long as there is a point in it.               *)
Write(item) == written' = IF flaw THEN written ELSE Append(written, item)
Spoil       == flaw' = TRUE /\ written' = <<>>
SpoilIf(f)  == IF f THEN Spoil ELSE UNCHANGED <<flaw, written>>

NoAnswerYet == reply.this = "none"

(* Mutant: <ok/> is taken after <rpc-error>s too. *)
TakesOk_AfterErrors ==
  /\ NoAnswerYet
  /\ \/ kind = "empty" /\ at = "rpc-reply"
     \/ kind = "load" /\ at = "results"

(* EmptyReply takes <ok/> only before any <rpc-error>; load's Reply takes  *)
(* it after them as well, and forgets them.                                *)
TakesOk ==
  /\ NoAnswerYet
  /\ \/ kind = "empty" /\ at = "rpc-reply" /\ reply.errors = 0
     \/ kind = "load" /\ at = "results"

TakesData == kind = "data" /\ at = "rpc-reply" /\ NoAnswerYet /\ reply.errors = 0

TakesError ==
  /\ NoAnswerYet
  /\ at = IF kind = "load" THEN "results" ELSE "rpc-reply"

TakesResults == kind = "load" /\ at = "rpc-reply" /\ NoAnswerYet
TakesCount   == kind = "load" /\ at = "results" /\ NoAnswerYet

(* Mutant: fewer errors than the error-count says are good enough. *)
ErrorsWhole_CountAbove ==
  IF kind = "load" THEN reply.errors <= reply.count ELSE reply.errors > 0

(* load's Reply wants as many <rpc-error>s as the <load-error-count> says. *)
ErrorsWhole == IF kind = "load" THEN reply.count = reply.errors ELSE reply.errors > 0

(* What a reply comes to at its end tag; a missing element is an error.    *)
Outcome ==
  CASE ~NoAnswerYet -> reply.this
    [] NoAnswerYet /\ ErrorsWhole -> "errs"
    [] OTHER -> IF kind = "bare" THEN "ok" ELSE "missing"

----------------------------------------------------------------------------
(* What the written children of an <rpc-reply> mean, by the grammar.       *)

All(items, where, whats) ==
  \A i \in DOMAIN items : items[i].where = where /\ items[i].what \in whats

ErrorItems == {i \in DOMAIN written : written[i].what = "error"}
CountItems == {i \in DOMAIN written : written[i].what = "count"}
LastCount  == written[CHOOSE i \in CountItems : \A j \in CountItems : j <= i].number

(* Any number of result elements with errors and counts in them.           *)
LoadErrors(items) ==
  \A i \in DOMAIN items : \/ items[i].where = "results" /\ items[i].what \in {"error", "count"}
                          \/ items[i].where = "rpc-reply" /\ items[i].what = "results"

Ok(where) == Item(where, "ok", 0)
Data      == Item("rpc-reply", "data", 0)

Meaning ==
  CASE kind = "empty" /\ written = <<Ok("rpc-reply")>> -> "ok"
    [] kind = "data" /\ written = <<Data>> -> "data"
    [] kind = "bare" /\ written = <<>> -> "ok"
    [] kind # "load" /\ written # <<>> /\ All(written, "rpc-reply", {"error"}) -> "errs"
    [] kind = "load" /\ written # <<>> /\ Last(written) = Ok("results")
         /\ LoadErrors(Front(written)) -> "ok"
    [] kind = "load" /\ LoadErrors(written) /\ CountItems # {}
         /\ LastCount = Cardinality(ErrorItems) -> "errs"
    [] OTHER -> "missing"

(* More <rpc-error>s than the <load-error-count> says, as in the reply     *)
(* that the comment on load's Errs shows (load_configuration.rs:369-396).  *)
(* The reader does not take it for Errs (461).                             *)
Undercounted ==
  /\ kind = "load" /\ LoadErrors(written) /\ CountItems # {}
  /\ LastCount \in 1 .. Cardinality(ErrorItems) - 1

----------------------------------------------------------------------------
(* The events. *)

Open    == at \in {"rpc-reply", "results"}
HasRoom == Len(written) < MaxItems

(* Mutant: the message-id of the first <rpc-reply> is kept. *)
StartReply_KeepsId(id) ==
  /\ at = "message" /\ replies < MaxReplies
  /\ at' = "rpc-reply" /\ list' = "rpc-reply" /\ replies' = replies + 1
  /\ partial' = IF partial.status = "failed" THEN partial
                ELSE [status |-> "inside", id |-> IF replies > 0 THEN partial.id ELSE id]
  /\ ReplySees(id # NoId, [Unread EXCEPT !.id = id])
  /\ IF id = NoId \/ (replies > 0 /\ Meaning = "missing") THEN Spoil
     ELSE written' = <<>> /\ UNCHANGED flaw
  /\ disputed' = (disputed \/ Undercounted)
  /\ UNCHANGED <<kind, fields>>

(* A second <rpc-reply> replaces the first for both readers, if that could *)
(* be read.  PartialReply minds a missing message-id only at the end.      *)
StartReply(id) ==
  /\ at = "message" /\ replies < MaxReplies
  /\ at' = "rpc-reply" /\ list' = "rpc-reply" /\ replies' = replies + 1
  /\ partial' = IF partial.status = "failed" THEN partial
                ELSE [status |-> "inside", id |-> id]
  /\ ReplySees(id # NoId, [Unread EXCEPT !.id = id])
  /\ IF id = NoId \/ (replies > 0 /\ Meaning = "missing") THEN Spoil
     ELSE written' = <<>> /\ UNCHANGED flaw
  /\ disputed' = (disputed \/ Undercounted)
  /\ UNCHANGED <<kind, fields>>

(* Mutant: a reply that lacks its element is not an error. *)
EndReply_Lenient ==
  /\ at = "rpc-reply" /\ at' = "message"
  /\ PartialSees(TRUE)
  /\ ReplySees(TRUE, [reply EXCEPT !.this = Outcome])
  /\ UNCHANGED <<kind, disputed, list, fields, written, flaw, replies>>

EndReply ==
  /\ at = "rpc-reply" /\ at' = "message"
  /\ PartialSees(TRUE)
  /\ ReplySees(Outcome # "missing", [reply EXCEPT !.this = Outcome])
  /\ UNCHANGED <<kind, disputed, list, fields, written, flaw, replies>>

WriteOk ==
  /\ Open /\ HasRoom
  /\ PartialSees(FALSE)
  /\ ReplySees(TakesOk, [reply EXCEPT !.this = "ok"])
  /\ Write(Ok(at))
  /\ UNCHANGED <<kind, disputed, input, flaw>>

(* The payload, which the operation's own reader may refuse.               *)
WriteData ==
  /\ at = "rpc-reply" /\ HasRoom
  /\ PartialSees(FALSE)
  /\ \/ ReplySees(TakesData, [reply EXCEPT !.this = "data"]) /\ Write(Data) /\ UNCHANGED flaw
     \/ ReplySees(FALSE, reply) /\ Spoil
  /\ UNCHANGED <<kind, disputed, input>>

StartResults ==
  /\ at = "rpc-reply" /\ at' = "results" /\ list' = "results" /\ HasRoom
  /\ PartialSees(FALSE)
  /\ ReplySees(TakesResults, reply)
  /\ Write(Item("rpc-reply", "results", 0))
  /\ UNCHANGED <<kind, disputed, fields, flaw, replies>>

EndResults ==
  /\ at = "results" /\ at' = "rpc-reply" /\ list' = "rpc-reply"
  /\ PartialSees(FALSE)
  /\ ReplySees(TRUE, reply)
  /\ UNCHANGED <<kind, disputed, fields, written, flaw, replies>>

WriteCount(number) ==
  /\ Open /\ HasRoom
  /\ PartialSees(FALSE)
  /\ ReplySees(TakesCount, [reply EXCEPT !.count = number])
  /\ Write(Item(at, "count", number))
  /\ UNCHANGED <<kind, disputed, input, flaw>>

StartError ==
  /\ Open /\ at' = "rpc-error" /\ fields' = {} /\ HasRoom
  /\ PartialSees(FALSE)
  /\ ReplySees(TakesError, reply)
  /\ UNCHANGED <<kind, disputed, list, written, flaw, replies>>

(* A field of an error, at most once, that can be parsed: an error-message *)
(* always, the others if they are known.                                   *)
WriteField(field) ==
  /\ at = "rpc-error" /\ field # "error-info"
  /\ PartialSees(FALSE)
  /\ ReplySees(field \notin fields, reply)
  /\ fields' = fields \cup {field}
  /\ SpoilIf(field \in fields)
  /\ UNCHANGED <<kind, disputed, at, list, replies>>

StartInfo ==
  /\ at = "rpc-error" /\ at' = "error-info"
  /\ PartialSees(FALSE)
  /\ ReplySees("error-info" \notin fields, reply)
  /\ fields' = fields \cup {"error-info"}
  /\ SpoilIf("error-info" \in fields)
  /\ UNCHANGED <<kind, disputed, list, replies>>

(* Any number of known elements has been read in between.                  *)
EndInfo ==
  /\ at = "error-info" /\ at' = "rpc-error"
  /\ PartialSees(FALSE)
  /\ ReplySees(TRUE, reply)
  /\ UNCHANGED <<kind, disputed, list, fields, written, flaw, replies>>

(* Warnings are errors like any other.                                     *)
EndError ==
  /\ at = "rpc-error" /\ at' = list
  /\ PartialSees(FALSE)
  /\ ReplySees(Mandatory \subseteq fields, [reply EXCEPT !.errors = @ + 1])
  /\ IF Mandatory \subseteq fields THEN Write(Item(list, "error", 0)) /\ UNCHANGED flaw
                                   ELSE Spoil
  /\ UNCHANGED <<kind, disputed, list, fields, replies>>

(* An unknown element, one of another namespace, text, a value that cannot *)
(* be parsed, or an element the code wants to have children and is empty.  *)
WriteUnknown ==
  /\ at # "end"
  /\ PartialSees(FALSE)
  /\ ReplySees(FALSE, reply)
  /\ Spoil
  /\ UNCHANGED <<kind, disputed, input>>

Malformed ==
  /\ at # "end"
  /\ PartialSees(TRUE)
  /\ ReplySees(FALSE, reply)
  /\ Spoil
  /\ UNCHANGED <<kind, disputed, input>>

(* The marker, or the end of the input: also in the middle of an element,  *)
(* which PartialReply does not mind.                                       *)
Finish ==
  /\ at # "end" /\ at' = "end"
  /\ partial' = IF partial.id = NoId THEN [partial EXCEPT !.status = "failed"] ELSE partial
  /\ ReplySees(at = "message" /\ ~NoAnswerYet, reply)
  /\ SpoilIf(at # "message" \/ replies = 0)
  /\ UNCHANGED <<kind, disputed, list, fields, replies>>

Next ==
  \/ \E id \in Ids \cup {NoId} : StartReply(id)
  \/ EndReply \/ WriteOk \/ WriteData
  \/ StartResults \/ EndResults \/ \E number \in 0 .. MaxItems : WriteCount(number)
  \/ StartError \/ EndError \/ StartInfo \/ EndInfo
  \/ \E field \in Fields : WriteField(field)
  \/ WriteUnknown \/ Malformed \/ Finish

Spec == Init /\ [][Next]_vars

----------------------------------------------------------------------------
(* Reply::try_from: the second reader's reply, if the ids agree.           *)
Result == IF reply.status = "failed" \/ partial.status = "failed" THEN "failed"
          ELSE IF reply.id # partial.id THEN "mismatch"
          ELSE reply.this

(* Type invariant. *)
TypeOK ==
  /\ kind \in Kinds /\ at \in Elements /\ list \in {"rpc-reply", "results"}
  /\ partial \in PartialReader /\ reply \in ReplyReader
  /\ fields \subseteq Fields /\ written \in Seq(Items)
  /\ flaw \in BOOLEAN /\ disputed \in BOOLEAN /\ replies \in 0 .. MaxReplies

(* The two phases of parsing agree: a message that the second can read has *)
(* been routed by the first, and to the request whose id the second finds, *)
(* with several replies in a message too (rpc/mod.rs:98-132 and 168-178,   *)
(* which calls the contrary a bug to be reported).                         *)
RoutedAsRead ==
  at = "end" /\ reply.status = "reading" =>
    partial.status # "failed" /\ reply.id = partial.id

(* No failure is taken for a success: a reply that holds an <rpc-error>,   *)
(* before or after its <ok/> or <data>, is not read as a success, but for  *)
(* the errors that come before the <ok/> of a load (rpc/mod.rs:191-293,    *)
(* junos/mod.rs:95-124; load_configuration.rs:417-421).                    *)
SuccessIsSaid ==
  at = "end" /\ Result \in {"ok", "data"} =>
    \/ ErrorItems = {}
    \/ kind = "load" /\ Last(written) = Ok("results")

(* The readers accept exactly the grammar: a message is read as what its   *)
(* children mean, and as a failure if it has a flaw (rpc/mod.rs:191-293,   *)
(* rpc/error.rs:66-174, load_configuration.rs:398-466).  Of a load with    *)
(* more errors than its count says nothing is demanded here: the comment   *)
(* on Errs shows one (load_configuration.rs:369-396), the code refuses it  *)
(* (461), and which of them is right depends on the device.                *)
ReadAsWritten ==
  at = "end" /\ ~disputed /\ ~Undercounted =>
    Result = IF flaw \/ Meaning = "missing" THEN "failed" ELSE Meaning

=============================================================================
