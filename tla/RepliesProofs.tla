--------------------------- MODULE RepliesProofs ----------------------------
(* Theorems about Replies, for any message-ids and any bounds.             *)
EXTENDS Replies, SequenceTheorems, FiniteSetTheorems,
        WellFoundedInduction, TLAPS

LEMMA ConstantsTyped ==
  /\ NoCount \in Counts /\ 0 \in 0 .. MaxItems
  /\ 0 .. MaxItems \subseteq Counts
  /\ Unread \in ReplyReader /\ Failed \in ReplyReader
<1>1. NoCount \in Counts /\ 0 \in 0 .. MaxItems /\ 0 .. MaxItems \subseteq Counts
  BY RepliesAssumption DEF NoCount, Counts
<1>2. Unread \in ReplyReader
  BY <1>1 DEF Unread, ReplyReader
<1>3. Failed \in ReplyReader
  BY <1>2 DEF Failed, Unread, ReplyReader
<1> QED
  BY <1>1, <1>2, <1>3

(* What the helpers make of the variables they set.                        *)
LEMMA PartialTyped ==
  ASSUME NEW leaves \in BOOLEAN, partial \in PartialReader, PartialSees(leaves)
  PROVE  partial' \in PartialReader
<1> QED
  BY DEF PartialSees, PartialReader

LEMMA ReplyTyped ==
  ASSUME NEW takes, NEW next, takes => next \in ReplyReader, ReplySees(takes, next)
  PROVE  reply' \in ReplyReader
<1> QED
  BY ConstantsTyped DEF ReplySees

LEMMA WriteTyped ==
  ASSUME NEW item \in Items, written \in Seq(Items), Write(item)
  PROVE  written' \in Seq(Items)
<1> QED
  BY AppendProperties DEF Write

LEMMA SpoiledTyped ==
  Spoil => written' \in Seq(Items) /\ flaw' = TRUE
<1> QED
  BY EmptySeq DEF Spoil

LEMMA ItemTyped ==
  ASSUME NEW where \in {"rpc-reply", "results"}, NEW number \in 0 .. MaxItems,
         NEW what \in {"ok", "data", "error", "results", "count"}
  PROVE  Item(where, what, number) \in Items
<1> QED
  BY DEF Item, Items

LEMMA TypeStep == TypeOK /\ [Next]_vars => TypeOK'
<1> SUFFICES ASSUME TypeOK, [Next]_vars PROVE TypeOK'
  OBVIOUS
<1>a. /\ kind \in Kinds /\ at \in Elements /\ list \in {"rpc-reply", "results"}
      /\ partial \in PartialReader /\ reply \in ReplyReader
      /\ fields \subseteq Fields /\ written \in Seq(Items)
      /\ flaw \in BOOLEAN /\ replies \in 0 .. MaxReplies
  BY DEF TypeOK
<1> USE <1>a, ConstantsTyped
<1>1. ASSUME NEW id \in Ids \cup {NoId}, StartReply(id) PROVE TypeOK'
  <2>1. reply' \in ReplyReader
    <3>1. [Unread EXCEPT !.id = id] \in ReplyReader
      BY DEF Unread, ReplyReader
    <3> QED
      BY <1>1, <3>1, ReplyTyped, Zenon DEF StartReply
  <2>2. partial' \in PartialReader
    BY <1>1 DEF StartReply, PartialReader
  <2>3. written' \in Seq(Items) /\ flaw' \in BOOLEAN
    <3>1. written' = <<>> \/ Spoil
      BY <1>1 DEF StartReply
    <3>2. flaw' = flaw \/ Spoil
      BY <1>1 DEF StartReply
    <3> QED
      BY <3>1, <3>2, SpoiledTyped, EmptySeq, Zenon
  <2>4. /\ kind' = kind /\ fields' = fields /\ at' \in Elements
        /\ list' \in {"rpc-reply", "results"} /\ replies' \in 0 .. MaxReplies
    BY <1>1, RepliesAssumption DEF StartReply, Elements
  <2>5. disputed' \in BOOLEAN
    BY <1>1, Zenon DEF StartReply, TypeOK
  <2> QED
    BY <2>1, <2>2, <2>3, <2>4, <2>5 DEF TypeOK
<1>2. CASE EndReply
  <2>1. Outcome # "missing" => [reply EXCEPT !.this = Outcome] \in ReplyReader
    BY DEF ReplyReader, Outcome, NoAnswerYet
  <2>2. reply' \in ReplyReader
    BY <1>2, <2>1, ReplyTyped, Zenon DEF EndReply
  <2>3. partial' \in PartialReader
    BY <1>2, PartialTyped DEF EndReply
  <2> QED
    BY <1>2, <2>2, <2>3 DEF EndReply, TypeOK, Elements
<1>3. CASE WriteOk
  <2>1. [reply EXCEPT !.this = "ok"] \in ReplyReader
    BY DEF ReplyReader
  <2>2. reply' \in ReplyReader
    BY <1>3, <2>1, ReplyTyped, Zenon DEF WriteOk
  <2>3. partial' \in PartialReader
    BY <1>3, PartialTyped DEF WriteOk
  <2>4. written' \in Seq(Items)
    <3>1. Ok(at) \in Items
      BY <1>3, ItemTyped DEF WriteOk, Open, Ok
    <3> QED
      BY <1>3, <3>1, WriteTyped DEF WriteOk
  <2> QED
    BY <1>3, <2>2, <2>3, <2>4 DEF WriteOk, TypeOK, input
<1>4. CASE WriteData
  <2>1. [reply EXCEPT !.this = "data"] \in ReplyReader
    BY DEF ReplyReader
  <2>2. reply' \in ReplyReader
    BY <1>4, <2>1, ReplyTyped, Zenon DEF WriteData
  <2>3. partial' \in PartialReader
    BY <1>4, PartialTyped DEF WriteData
  <2>4. written' \in Seq(Items) /\ flaw' \in BOOLEAN
    <3>1. Data \in Items
      BY ItemTyped DEF Data
    <3> QED
      BY <1>4, <3>1, WriteTyped, SpoiledTyped, Zenon DEF WriteData
  <2> QED
    BY <1>4, <2>2, <2>3, <2>4 DEF WriteData, TypeOK, input
<1>5. CASE StartResults \/ EndResults
  <2>1. reply' \in ReplyReader
    BY <1>5, ReplyTyped, Zenon DEF StartResults, EndResults
  <2>2. partial' \in PartialReader
    BY <1>5, PartialTyped DEF StartResults, EndResults
  <2>3. written' \in Seq(Items)
    <3>1. Item("rpc-reply", "results", 0) \in Items
      BY ItemTyped
    <3> QED
      BY <1>5, <3>1, WriteTyped DEF StartResults, EndResults
  <2> QED
    BY <1>5, <2>1, <2>2, <2>3 DEF StartResults, EndResults, TypeOK, Elements
<1>6. ASSUME NEW number \in 0 .. MaxItems, WriteCount(number) PROVE TypeOK'
  <2>1. [reply EXCEPT !.count = number] \in ReplyReader
    BY <1>6 DEF ReplyReader
  <2>2. reply' \in ReplyReader
    BY <1>6, <2>1, ReplyTyped, Zenon DEF WriteCount
  <2>3. partial' \in PartialReader
    BY <1>6, PartialTyped DEF WriteCount
  <2>4. written' \in Seq(Items)
    <3>1. Item(at, "count", number) \in Items
      BY <1>6, ItemTyped DEF WriteCount, Open
    <3> QED
      BY <1>6, <3>1, WriteTyped DEF WriteCount
  <2> QED
    BY <1>6, <2>2, <2>3, <2>4 DEF WriteCount, TypeOK, input
<1>7. CASE StartError
  <2>1. reply' \in ReplyReader
    BY <1>7, ReplyTyped, Zenon DEF StartError
  <2>2. partial' \in PartialReader
    BY <1>7, PartialTyped DEF StartError
  <2> QED
    BY <1>7, <2>1, <2>2 DEF StartError, TypeOK, Elements
<1>8. CASE EndError
  <2>1. [reply EXCEPT !.errors = @ + 1] \in ReplyReader
    BY DEF ReplyReader
  <2>2. reply' \in ReplyReader
    BY <1>8, <2>1, ReplyTyped, Zenon DEF EndError
  <2>3. partial' \in PartialReader
    BY <1>8, PartialTyped DEF EndError
  <2>4. written' \in Seq(Items) /\ flaw' \in BOOLEAN
    <3>1. Item(list, "error", 0) \in Items
      BY ItemTyped
    <3> QED
      BY <1>8, <3>1, WriteTyped, SpoiledTyped, Zenon DEF EndError
  <2> QED
    BY <1>8, <2>2, <2>3, <2>4 DEF EndError, TypeOK, Elements
<1>9. CASE StartInfo \/ EndInfo
  <2>1. reply' \in ReplyReader
    BY <1>9, ReplyTyped, Zenon DEF StartInfo, EndInfo
  <2>2. partial' \in PartialReader
    BY <1>9, PartialTyped DEF StartInfo, EndInfo
  <2>3. written' \in Seq(Items) /\ flaw' \in BOOLEAN
    BY <1>9, SpoiledTyped, Zenon DEF StartInfo, EndInfo, SpoilIf
  <2> QED
    BY <1>9, <2>1, <2>2, <2>3 DEF StartInfo, EndInfo, TypeOK, Elements, Fields
<1>10. ASSUME NEW field \in Fields, WriteField(field) PROVE TypeOK'
  <2>1. reply' \in ReplyReader
    BY <1>10, ReplyTyped, Zenon DEF WriteField
  <2>2. partial' \in PartialReader
    BY <1>10, PartialTyped DEF WriteField
  <2>3. written' \in Seq(Items) /\ flaw' \in BOOLEAN
    BY <1>10, SpoiledTyped, Zenon DEF WriteField, SpoilIf
  <2> QED
    BY <1>10, <2>1, <2>2, <2>3 DEF WriteField, TypeOK
<1>11. CASE WriteUnknown \/ Malformed
  <2>1. reply' \in ReplyReader
    BY <1>11, ReplyTyped, Zenon DEF WriteUnknown, Malformed
  <2>2. partial' \in PartialReader
    BY <1>11, PartialTyped DEF WriteUnknown, Malformed
  <2>3. written' \in Seq(Items) /\ flaw' = TRUE
    BY <1>11, SpoiledTyped, Zenon DEF WriteUnknown, Malformed
  <2> QED
    BY <1>11, <2>1, <2>2, <2>3 DEF WriteUnknown, Malformed, TypeOK, input
<1>12. CASE Finish
  <2>1. reply' \in ReplyReader
    BY <1>12, ReplyTyped, Zenon DEF Finish
  <2>2. partial' \in PartialReader
    BY <1>12 DEF Finish, PartialReader
  <2>3. written' \in Seq(Items) /\ flaw' \in BOOLEAN
    BY <1>12, SpoiledTyped, Zenon DEF Finish, SpoilIf
  <2> QED
    BY <1>12, <2>1, <2>2, <2>3 DEF Finish, TypeOK, Elements
<1>13. CASE UNCHANGED vars
  BY <1>13 DEF vars, input, TypeOK
<1> QED
  BY <1>1, <1>2, <1>3, <1>4, <1>5, <1>6, <1>7, <1>8, <1>9, <1>10, <1>11, <1>12, <1>13
  DEF Next

LEMMA InitTyped == Init => TypeOK
<1>1. written = <<>> => written \in Seq(Items)
  BY EmptySeq
<1>2. MaxReplies \in Nat => 0 \in 0 .. MaxReplies
  OBVIOUS
<1>3. [status |-> "outside", id |-> NoId] \in PartialReader
  BY DEF PartialReader
<1> QED
  BY <1>1, <1>2, <1>3, ConstantsTyped, RepliesAssumption DEF Init, TypeOK, Elements

(* Both readers and the history keep their shape.                          *)
THEOREM RepliesTyped == Spec => []TypeOK
<1> QED
  BY InitTyped, TypeStep, PTL DEF Spec

----------------------------------------------------------------------------
(***************************************************************************)
(* The two readers run abreast: as long as Reply's has met no error,       *)
(* PartialReply's is inside a reply exactly when Reply's is, has met no    *)
(* error either, and has the same id.                                      *)
(***************************************************************************)
Outside == at \in {"message", "end"}

Abreast ==
  reply.status = "reading" =>
    /\ reply.id = partial.id
    /\ at # "message" \/ ~NoAnswerYet => reply.id \in Ids
    /\ partial.status = IF Outside THEN "outside" ELSE "inside"

(* A reader that goes on was reading, and goes on with next.               *)
LEMMA GoesOn ==
  ASSUME NEW takes, NEW next, ReplySees(takes, next), reply'.status = "reading"
  PROVE  reply.status = "reading" /\ takes /\ reply' = next
<1>1. Failed.status # "reading"
  BY DEF Failed, Unread
<1> QED
  BY <1>1, Zenon DEF ReplySees

(* An event within a reply, whatever Reply's reader makes of it.           *)
LEMMA StaysInside ==
  ASSUME TypeOK, Abreast, ~Outside, ~Outside', PartialSees(FALSE),
         NEW next, reply' = next, reply.status = "reading", next.id = reply.id
  PROVE  Abreast'
<1>1. partial' = partial
  BY DEF PartialSees, Abreast, TypeOK, PartialReader
<1> QED
  BY <1>1 DEF Abreast, Outside

LEMMA AbreastStep == TypeOK /\ Abreast /\ [Next]_vars => Abreast'
<1> SUFFICES ASSUME TypeOK, Abreast, [Next]_vars, reply'.status = "reading" PROVE Abreast'
  BY DEF Abreast
<1>a. partial \in PartialReader /\ reply \in ReplyReader
  BY DEF TypeOK
<1>1. ASSUME NEW id \in Ids \cup {NoId}, StartReply(id) PROVE Abreast'
  <2>1. reply.status = "reading" /\ id # NoId /\ reply' = [Unread EXCEPT !.id = id]
    BY <1>1, GoesOn, Zenon DEF StartReply
  <2>2. reply'.id = id
    BY <2>1 DEF Unread
  <2>3. partial' = [status |-> "inside", id |-> id]
    BY <1>1, <2>1 DEF StartReply, Abreast, Outside
  <2> QED
    BY <1>1, <2>1, <2>2, <2>3 DEF StartReply, Abreast, Outside
<1>2. CASE EndReply
  <2>1. reply.status = "reading" /\ reply' = [reply EXCEPT !.this = Outcome]
    BY <1>2, GoesOn, Zenon DEF EndReply
  <2>2. reply'.id = reply.id
    BY <1>a, <2>1 DEF ReplyReader
  <2>3. partial' = [partial EXCEPT !.status = "outside"]
    BY <1>2, <2>1 DEF EndReply, PartialSees, Abreast, Outside
  <2> QED
    BY <1>a, <1>2, <2>1, <2>2, <2>3 DEF EndReply, Abreast, Outside, PartialReader
<1>3. CASE WriteOk
  <2>1. reply.status = "reading" /\ reply' = [reply EXCEPT !.this = "ok"]
    BY <1>3, GoesOn, Zenon DEF WriteOk
  <2>2. reply'.id = reply.id
    BY <1>a, <2>1 DEF ReplyReader
  <2> QED
    BY <1>3, <2>1, <2>2, StaysInside DEF WriteOk, Outside, Open, input
<1>4. CASE WriteData
  <2>1. reply.status = "reading" /\ reply' = [reply EXCEPT !.this = "data"]
    BY <1>4, GoesOn, Zenon DEF WriteData
  <2>2. reply'.id = reply.id
    BY <1>a, <2>1 DEF ReplyReader
  <2> QED
    BY <1>4, <2>1, <2>2, StaysInside DEF WriteData, Outside, input
<1>5. CASE StartResults \/ EndResults \/ StartError \/ StartInfo \/ EndInfo
  <2>1. reply.status = "reading" /\ reply' = reply
    BY <1>5, GoesOn, Zenon DEF StartResults, EndResults, StartError, StartInfo, EndInfo
  <2> QED
    BY <1>5, <2>1, StaysInside
    DEF StartResults, EndResults, StartError, StartInfo, EndInfo, Outside, Open
<1>6. ASSUME NEW number \in 0 .. MaxItems, WriteCount(number) PROVE Abreast'
  <2>1. reply.status = "reading" /\ reply' = [reply EXCEPT !.count = number]
    BY <1>6, GoesOn, Zenon DEF WriteCount
  <2>2. reply'.id = reply.id
    BY <1>a, <2>1 DEF ReplyReader
  <2> QED
    BY <1>6, <2>1, <2>2, StaysInside DEF WriteCount, Outside, Open, input
<1>7. CASE EndError
  <2>1. reply.status = "reading" /\ reply' = [reply EXCEPT !.errors = @ + 1]
    BY <1>7, GoesOn, Zenon DEF EndError
  <2>2. reply'.id = reply.id
    BY <1>a, <2>1 DEF ReplyReader
  <2>3. list \in {"rpc-reply", "results"}
    BY DEF TypeOK
  <2> QED
    BY <1>7, <2>1, <2>2, <2>3, StaysInside DEF EndError, Outside
<1>8. ASSUME NEW field \in Fields, WriteField(field) PROVE Abreast'
  <2>1. reply.status = "reading" /\ reply' = reply
    BY <1>8, GoesOn, Zenon DEF WriteField
  <2> QED
    BY <1>8, <2>1, StaysInside DEF WriteField, Outside
<1>9. CASE WriteUnknown \/ Malformed
  BY <1>9, GoesOn, Zenon DEF WriteUnknown, Malformed
<1>10. CASE Finish
  <2>1. reply.status = "reading" /\ at = "message" /\ ~NoAnswerYet /\ reply' = reply
    BY <1>10, GoesOn, Zenon DEF Finish
  <2>2. partial.id \in Ids /\ partial.status = "outside"
    BY <2>1 DEF Abreast, Outside
  <2>3. partial' = partial
    BY <1>10, <2>2, RepliesAssumption DEF Finish
  <2> QED
    BY <1>10, <2>1, <2>2, <2>3 DEF Finish, Abreast, Outside
<1>11. CASE UNCHANGED vars
  BY <1>11 DEF vars, input, Abreast, Outside, NoAnswerYet
<1> QED
  BY <1>1, <1>2, <1>3, <1>4, <1>5, <1>6, <1>7, <1>8, <1>9, <1>10, <1>11 DEF Next

(* A message that the second phase can read has been routed by the first,  *)
(* to the id the second finds; message_id_mismatch cannot come about.      *)
THEOREM PhasesAgree == Spec => []RoutedAsRead
<1>1. Init => TypeOK /\ Abreast
  <2>1. Init => Abreast
    BY DEF Init, Abreast, Outside, Unread, NoAnswerYet
  <2> QED
    BY <2>1, InitTyped
<1>2. TypeOK /\ Abreast /\ [Next]_vars => (TypeOK /\ Abreast)'
  BY TypeStep, AbreastStep
<1>3. TypeOK /\ Abreast => RoutedAsRead
  BY DEF Abreast, Outside, RoutedAsRead
<1> QED
  BY <1>1, <1>2, <1>3, PTL DEF Spec

----------------------------------------------------------------------------
(***************************************************************************)
(* A reader that holds a success, or may still come to one, has seen no    *)
(* <rpc-error>; load's has just seen <ok/>.  While an <rpc-error> is read  *)
(* there is no answer yet.                                                 *)
(***************************************************************************)
MaySucceed == reply.this \in {"ok", "data"} \/ (NoAnswerYet /\ reply.errors = 0)

Clean ==
  reply.status = "reading" =>
    /\ at \in {"rpc-error", "error-info"} => NoAnswerYet
    /\ kind # "load" /\ MaySucceed => ErrorItems = {}
    /\ kind = "load" => reply.this # "data"
    /\ kind = "load" /\ reply.this = "ok" => flaw \/ Last(written) = Ok("results")

Spoiled == flaw => written = <<>>

SuccessInv == TypeOK /\ Clean /\ Spoiled

LEMMA SpoiledStep == Spoiled /\ [Next]_vars => Spoiled'
<1> SUFFICES ASSUME Spoiled, [Next]_vars PROVE Spoiled'
  OBVIOUS
<1>1. ASSUME UNCHANGED flaw, \/ UNCHANGED written
                            \/ written' = <<>>
                            \/ \E item : Write(item)
      PROVE  Spoiled'
  BY <1>1 DEF Spoiled, Write
<1>2. Spoil => Spoiled'
  BY DEF Spoil, Spoiled
<1>3. ASSUME NEW id \in Ids \cup {NoId}, StartReply(id) PROVE Spoiled'
  BY <1>1, <1>2, <1>3, Zenon DEF StartReply
<1>4. CASE EndReply \/ EndResults \/ StartError \/ EndInfo
  BY <1>1, <1>4, Zenon DEF EndReply, EndResults, StartError, EndInfo
<1>5. CASE WriteOk \/ StartResults
  BY <1>1, <1>5, Zenon DEF WriteOk, StartResults
<1>6. CASE WriteData \/ EndError
  BY <1>1, <1>2, <1>6, Zenon DEF WriteData, EndError
<1>7. ASSUME NEW number \in 0 .. MaxItems, WriteCount(number) PROVE Spoiled'
  BY <1>1, <1>7, Zenon DEF WriteCount
<1>8. ASSUME NEW field \in Fields, WriteField(field) PROVE Spoiled'
  BY <1>1, <1>2, <1>8, Zenon DEF WriteField, SpoilIf
<1>9. CASE StartInfo \/ Finish
  BY <1>1, <1>2, <1>9, Zenon DEF StartInfo, Finish, SpoilIf
<1>10. CASE WriteUnknown \/ Malformed
  BY <1>2, <1>10, Zenon DEF WriteUnknown, Malformed
<1>11. CASE UNCHANGED vars
  BY <1>1, <1>11, Zenon DEF vars
<1> QED
  BY <1>3, <1>4, <1>5, <1>6, <1>7, <1>8, <1>9, <1>10, <1>11, Zenon DEF Next

(* What writing does to the errors among the children, and to their last.  *)
LEMMA WritesNoError ==
  ASSUME TypeOK, NEW item \in Items, item.what # "error", Write(item), ErrorItems = {}
  PROVE  ErrorItems' = {}
<1>1. CASE flaw
  BY <1>1 DEF Write, ErrorItems
<1>2. CASE ~flaw
  <2>1. written' = Append(written, item) /\ written \in Seq(Items)
    BY <1>2 DEF Write, TypeOK
  <2>2. /\ DOMAIN written' = 1 .. Len(written) + 1
        /\ \A i \in 1 .. Len(written) : written'[i] = written[i]
        /\ written'[Len(written) + 1] = item
    BY <2>1, AppendProperties, LenProperties
  <2>3. DOMAIN written = 1 .. Len(written) /\ Len(written) \in Nat
    BY <2>1, LenProperties
  <2>4. ASSUME NEW i \in DOMAIN written' PROVE written'[i].what # "error"
    <3>1. CASE i = Len(written) + 1
      BY <2>2, <3>1
    <3>2. CASE i # Len(written) + 1
      <4>1. i \in DOMAIN written
        BY <2>2, <2>3, <3>2
      <4> QED
        BY <2>2, <2>3, <4>1 DEF ErrorItems
    <3> QED
      BY <3>1, <3>2
  <2> QED
    BY <2>4 DEF ErrorItems
<1> QED
  BY <1>1, <1>2

LEMMA WritesLast ==
  ASSUME TypeOK, NEW item \in Items, Write(item)
  PROVE  flaw \/ Last(written') = item
<1> SUFFICES ASSUME ~flaw PROVE Last(written') = item
  OBVIOUS
<1>1. written' = Append(written, item) /\ written \in Seq(Items)
  BY DEF Write, TypeOK
<1>2. written' \in Seq(Items) /\ Len(written') = Len(written) + 1
      /\ written'[Len(written) + 1] = item
  BY <1>1, AppendProperties, LenProperties
<1> QED
  BY <1>2 DEF Last

LEMMA SpoilsErrors == Spoil => ErrorItems' = {}
<1> QED
  BY EmptySeq DEF Spoil, ErrorItems

(* Steps that leave the reader as it is and write no error.                *)
LEMMA ReadsOn ==
  ASSUME Clean, UNCHANGED <<reply, kind>>,
         at' \in {"rpc-error", "error-info"} =>
           at \in {"rpc-error", "error-info"} \/ NoAnswerYet,
         \/ UNCHANGED <<written, flaw>> \/ Spoil
         \/ NoAnswerYet /\ (ErrorItems = {} => ErrorItems' = {})
  PROVE  Clean'
<1>1. CASE Spoil
  <2>1. ErrorItems' = {} /\ flaw' = TRUE
    BY <1>1, SpoilsErrors DEF Spoil
  <2> QED
    BY <2>1 DEF Clean, NoAnswerYet, MaySucceed
<1>2. CASE UNCHANGED <<written, flaw>>
  <2>1. ErrorItems' = ErrorItems
    BY <1>2 DEF ErrorItems
  <2> QED
    BY <1>2, <2>1 DEF Clean, NoAnswerYet, MaySucceed
<1>3. CASE NoAnswerYet /\ (ErrorItems = {} => ErrorItems' = {})
  BY <1>3 DEF Clean, NoAnswerYet, MaySucceed
<1> QED
  BY <1>1, <1>2, <1>3

LEMMA CleanStep == SuccessInv /\ [Next]_vars => Clean'
<1> SUFFICES ASSUME TypeOK, Clean, Spoiled, [Next]_vars, reply'.status = "reading"
             PROVE  Clean'
  BY DEF SuccessInv, Clean
<1>a. reply \in ReplyReader
  BY DEF TypeOK
<1>1. ASSUME NEW id \in Ids \cup {NoId}, StartReply(id) PROVE Clean'
  <2>1. reply' = [Unread EXCEPT !.id = id]
    BY <1>1, GoesOn, Zenon DEF StartReply
  <2>2. reply'.this = "none" /\ at' = "rpc-reply"
    BY <1>1, <2>1 DEF Unread, StartReply
  <2>3. ErrorItems' = {}
    BY <1>1, SpoilsErrors, EmptySeq DEF StartReply, ErrorItems
  <2> QED
    BY <2>2, <2>3 DEF Clean, NoAnswerYet
<1>2. CASE EndReply
  <2>1. /\ reply.status = "reading" /\ Outcome # "missing"
        /\ reply' = [reply EXCEPT !.this = Outcome]
    BY <1>2, GoesOn, Zenon DEF EndReply
  <2>2. reply'.this = Outcome /\ reply'.errors = reply.errors
    BY <1>a, <2>1 DEF ReplyReader
  <2>3. UNCHANGED <<kind, written, flaw, ErrorItems>> /\ at' = "message"
    BY <1>2 DEF EndReply, ErrorItems
  <2>4. reply.errors \in Nat
    BY <1>a DEF ReplyReader
  <2>5. Outcome \in {"ok", "data"} => reply.this = Outcome \/ (kind # "load" /\ MaySucceed)
    BY <2>4 DEF Outcome, ErrorsWhole, NoAnswerYet, MaySucceed
  <2>6. Outcome # "none"
    BY DEF Outcome, NoAnswerYet
  <2> QED
    BY <2>1, <2>2, <2>3, <2>5, <2>6 DEF Clean, MaySucceed, NoAnswerYet
<1>3. CASE WriteOk
  <2>1. /\ reply.status = "reading" /\ TakesOk
        /\ reply' = [reply EXCEPT !.this = "ok"]
    BY <1>3, GoesOn, Zenon DEF WriteOk
  <2>2. reply'.this = "ok"
    BY <1>a, <2>1 DEF ReplyReader
  <2>3. Ok(at) \in Items /\ Ok(at).what = "ok" /\ at' = at /\ kind' = kind /\ flaw' = flaw
    <3>1. Ok(at) \in Items
      BY <1>3, ItemTyped, ConstantsTyped DEF WriteOk, Open, Ok
    <3> QED
      BY <1>3, <3>1 DEF WriteOk, Ok, Item, input
  <2>4. CASE kind = "empty"
    <3>1. ErrorItems' = {}
      BY <1>3, <2>1, <2>3, <2>4, WritesNoError DEF WriteOk, TakesOk, Clean, MaySucceed
    <3> QED
      BY <1>3, <2>1, <2>3, <2>4, <3>1 DEF Clean, TakesOk
  <2>5. CASE kind = "load"
    <3>1. flaw \/ Last(written') = Ok("results")
      BY <1>3, <2>1, <2>3, <2>5, WritesLast DEF WriteOk, TakesOk
    <3> QED
      BY <1>3, <2>1, <2>2, <2>3, <2>5, <3>1 DEF Clean, TakesOk, Ok
  <2> QED
    BY <2>1, <2>4, <2>5 DEF TakesOk
<1>4. CASE WriteData
  <2>1. /\ reply.status = "reading" /\ TakesData
        /\ reply' = [reply EXCEPT !.this = "data"] /\ Write(Data)
    <3>1. ~ReplySees(FALSE, reply)
      BY GoesOn, Zenon
    <3>2. ReplySees(TakesData, [reply EXCEPT !.this = "data"]) /\ Write(Data)
      BY <1>4, <3>1, Zenon DEF WriteData
    <3>3. reply.status = "reading" /\ TakesData /\ reply' = [reply EXCEPT !.this = "data"]
      BY <3>2, GoesOn, Zenon
    <3> QED
      BY <3>2, <3>3
  <2>2. Data \in Items /\ Data.what # "error"
    BY ItemTyped, ConstantsTyped DEF Data, Item
  <2>3. ErrorItems' = {}
    BY <2>1, <2>2, WritesNoError DEF TakesData, Clean, MaySucceed
  <2> QED
    BY <1>4, <2>1, <2>3 DEF WriteData, Clean, TakesData, input
<1>5. CASE StartResults
  <2>1. reply.status = "reading" /\ TakesResults /\ reply' = reply
    BY <1>5, GoesOn, Zenon DEF StartResults
  <2>2. Item("rpc-reply", "results", 0) \in Items /\ Item("rpc-reply", "results", 0).what # "error"
    BY ItemTyped, ConstantsTyped DEF Item
  <2>3. ErrorItems = {} => ErrorItems' = {}
    BY <1>5, <2>2, WritesNoError DEF StartResults
  <2> QED
    BY <1>5, <2>1, <2>3, ReadsOn DEF StartResults, TakesResults
<1>6. ASSUME NEW number \in 0 .. MaxItems, WriteCount(number) PROVE Clean'
  <2>1. reply.status = "reading" /\ TakesCount /\ reply' = [reply EXCEPT !.count = number]
    BY <1>6, GoesOn, Zenon DEF WriteCount
  <2>2. reply'.this = reply.this
    BY <1>a, <2>1 DEF ReplyReader
  <2> QED
    BY <1>6, <2>1, <2>2 DEF WriteCount, Clean, TakesCount, NoAnswerYet, input
<1>7. CASE StartError
  <2>1. reply.status = "reading" /\ TakesError /\ reply' = reply
    BY <1>7, GoesOn, Zenon DEF StartError
  <2> QED
    BY <1>7, <2>1, ReadsOn DEF StartError, TakesError
<1>8. CASE EndError
  <2>1. reply.status = "reading" /\ reply' = [reply EXCEPT !.errors = @ + 1]
    BY <1>8, GoesOn, Zenon DEF EndError
  <2>2. reply'.this = reply.this /\ reply'.errors = reply.errors + 1 /\ reply.errors \in Nat
    BY <1>a, <2>1 DEF ReplyReader
  <2>3. NoAnswerYet /\ kind' = kind /\ at' \notin {"rpc-error", "error-info"}
    BY <1>8, <2>1 DEF EndError, Clean, TypeOK
  <2> QED
    BY <2>2, <2>3 DEF Clean, NoAnswerYet, MaySucceed
<1>9. CASE EndResults \/ StartInfo \/ EndInfo
  <2>1. reply.status = "reading" /\ reply' = reply
    BY <1>9, GoesOn, Zenon DEF EndResults, StartInfo, EndInfo
  <2> QED
    BY <1>9, <2>1, ReadsOn DEF EndResults, StartInfo, EndInfo, SpoilIf
<1>10. ASSUME NEW field \in Fields, WriteField(field) PROVE Clean'
  <2>1. reply.status = "reading" /\ reply' = reply
    BY <1>10, GoesOn, Zenon DEF WriteField
  <2> QED
    BY <1>10, <2>1, ReadsOn DEF WriteField, SpoilIf
<1>11. CASE WriteUnknown \/ Malformed
  BY <1>11, GoesOn, Zenon DEF WriteUnknown, Malformed
<1>12. CASE Finish
  <2>1. reply.status = "reading" /\ reply' = reply
    BY <1>12, GoesOn, Zenon DEF Finish
  <2> QED
    BY <1>12, <2>1, ReadsOn DEF Finish, SpoilIf
<1>13. CASE UNCHANGED vars
  BY <1>13, ReadsOn DEF vars, input
<1> QED
  BY <1>1, <1>2, <1>3, <1>4, <1>5, <1>6, <1>7, <1>8, <1>9, <1>10, <1>11, <1>12, <1>13
  DEF Next

(* A reply with an <rpc-error> anywhere in it is not taken for a success,  *)
(* but for a load's whose errors come before its <ok/>.                    *)
THEOREM FailureIsNoSuccess == Spec => []SuccessIsSaid
<1>1. Init => SuccessInv
  <2>1. Init => Clean /\ Spoiled
    BY EmptySeq DEF Init, Clean, Spoiled, Unread, NoAnswerYet, MaySucceed, ErrorItems
  <2> QED
    BY <2>1, InitTyped DEF SuccessInv
<1>2. SuccessInv /\ [Next]_vars => SuccessInv'
  BY TypeStep, CleanStep, SpoiledStep DEF SuccessInv
<1>3. SuccessInv => SuccessIsSaid
  <2> SUFFICES ASSUME SuccessInv, Result \in {"ok", "data"}
               PROVE  ErrorItems = {} \/ (kind = "load" /\ Last(written) = Ok("results"))
    BY DEF SuccessIsSaid
  <2>1. reply.status = "reading" /\ reply.this \in {"ok", "data"}
    BY DEF Result, SuccessInv, TypeOK, ReplyReader
  <2>2. CASE kind # "load"
    BY <2>1, <2>2 DEF SuccessInv, Clean, MaySucceed
  <2>3. CASE kind = "load" /\ flaw
    <3>1. written = <<>>
      BY <2>3, Zenon DEF SuccessInv, Spoiled
    <3>2. DOMAIN written = {}
      BY <3>1
    <3> QED
      BY <3>2 DEF ErrorItems
  <2>4. CASE kind = "load" /\ ~flaw
    BY <2>1, <2>4 DEF SuccessInv, Clean
  <2> QED
    BY <2>2, <2>3, <2>4
<1> QED
  BY <1>1, <1>2, <1>3, PTL DEF Spec

----------------------------------------------------------------------------
(***************************************************************************)
(* What the reader of a reply has made of children w so far.  A child is   *)
(* one of those before an answer, or the answer itself.                    *)
(***************************************************************************)
ErrorLike(k, item) ==
  IF k = "load" THEN \/ item.where = "results" /\ item.what \in {"error", "count"}
                     \/ item.where = "rpc-reply" /\ item.what = "results"
                ELSE item.where = "rpc-reply" /\ item.what = "error"

Answers(k, item) ==
  \/ k = "empty" /\ item = Ok("rpc-reply")
  \/ k = "data" /\ item = Data
  \/ k = "load" /\ item = Ok("results")

Errs(k, w) == \A i \in DOMAIN w : ErrorLike(k, w[i])

(* An answer comes alone, but that of a load comes after any errors.       *)
Answered(k, w) ==
  /\ w # <<>> /\ Answers(k, Last(w)) /\ Errs(k, Front(w))
  /\ k # "load" => Front(w) = <<>>

Readable(k, w) == Errs(k, w) \/ Answered(k, w)

ErrorsIn(w) == {i \in DOMAIN w : w[i].what = "error"}
CountsIn(w) == {i \in DOMAIN w : w[i].what = "count"}
CountIn(w)  == IF CountsIn(w) = {} THEN NoCount
               ELSE w[CHOOSE i \in CountsIn(w) : \A j \in CountsIn(w) : j <= i].number

HasRead(r, k, w) ==
  /\ r.this = IF Errs(k, w) THEN "none" ELSE IF k = "data" THEN "data" ELSE "ok"
  /\ Errs(k, w) => r.errors = Cardinality(ErrorsIn(w)) /\ r.count = CountIn(w)

(* The reader is going on as long as what has been written is readable,    *)
(* and within an <rpc-error> as long as that may stand where it does.      *)
Reading == reply.status = "reading"

InList ==
  at \in {"rpc-reply", "results"} =>
    /\ list = at /\ replies > 0
    /\ Reading <=> Readable(kind, written)
    /\ Reading => HasRead(reply, kind, written)

InError ==
  at \in {"rpc-error", "error-info"} =>
    /\ replies > 0
    /\ Reading <=> /\ Errs(kind, written)
                   /\ list = IF kind = "load" THEN "results" ELSE "rpc-reply"
    /\ Reading => HasRead(reply, kind, written)

Outer ==
  at \in {"message", "end"} =>
    /\ IF replies = 0 THEN reply = Unread /\ at = "message"
       ELSE (Reading <=> Meaning # "missing") /\ (Reading => reply.this = Meaning)

Faithful == IF flaw THEN ~Reading ELSE InList /\ InError /\ Outer

(* Of a set of naturals, one is the least; of a bounded one, the largest.  *)
LEMMA LeastMember ==
  ASSUME NEW Q \in SUBSET Nat, Q # {}
  PROVE  \E m \in Q : \A n \in Q : m <= n
<1> DEFINE Less == {p \in Nat \X Nat : p[1] < p[2]}
<1>1. IsWellFoundedOn(Less, Nat)
  BY NatLessThanWellFounded DEF OpToRel
<1>2. \E m \in Q : \A n \in Q : <<n, m>> \notin Less
  <2> HIDE DEF Less
  <2> QED
    BY <1>1, WFMin
<1>3. \A m, n \in Nat : <<n, m>> \notin Less => m <= n
  OBVIOUS
<1> QED
  BY <1>2, <1>3

LEMMA LastMember ==
  ASSUME NEW n \in Nat, NEW S \in SUBSET (1 .. n), S # {}
  PROVE  \E i \in S : \A j \in S : j <= i
<1> DEFINE Q == {n - i : i \in S}
<1>1. Q \in SUBSET Nat /\ Q # {}
  <2>1. Q \in SUBSET Nat
    OBVIOUS
  <2>2. PICK i \in S : TRUE
    OBVIOUS
  <2>3. n - i \in Q
    OBVIOUS
  <2> QED
    BY <2>1, <2>3
<1>2. PICK m \in Q : \A q \in Q : m <= q
  BY <1>1, LeastMember
<1>3. PICK i \in S : m = n - i
  OBVIOUS
<1>4. ASSUME NEW j \in S PROVE j <= i
  <2>1. n - j \in Q
    OBVIOUS
  <2>2. n - i <= n - j
    BY <1>2, <1>3, <2>1
  <2> QED
    BY <2>2
<1> QED
  BY <1>4

(* A child that is added is the last one, and the others come before it.   *)
LEMMA Appended ==
  ASSUME NEW w \in Seq(Items), NEW item \in Items
  PROVE  /\ Append(w, item) \in Seq(Items) /\ Append(w, item) # <<>>
         /\ DOMAIN w = 1 .. Len(w) /\ Len(w) \in Nat
         /\ DOMAIN Append(w, item) = 1 .. Len(w) + 1
         /\ \A i \in DOMAIN w : Append(w, item)[i] = w[i]
         /\ Append(w, item)[Len(w) + 1] = item
         /\ Last(Append(w, item)) = item /\ Front(Append(w, item)) = w
<1> DEFINE v == Append(w, item)
<1>1. /\ v \in Seq(Items) /\ v # <<>> /\ Len(v) = Len(w) + 1 /\ Len(w) \in Nat
      /\ DOMAIN w = 1 .. Len(w) /\ DOMAIN v = 1 .. Len(v)
      /\ \A i \in 1 .. Len(w) : v[i] = w[i]
      /\ v[Len(w) + 1] = item
  BY AppendProperties, LenProperties
<1>2. Last(v) = item
  BY <1>1 DEF Last
<1>3. Front(v) = w
  <2> HIDE DEF v
  <2>1. Front(v) = SubSeq(v, 1, Len(w))
    BY <1>1 DEF Front
  <2>2. /\ SubSeq(v, 1, Len(w)) \in Seq(Items)
        /\ Len(SubSeq(v, 1, Len(w))) = Len(w)
        /\ \A i \in 1 .. Len(w) : SubSeq(v, 1, Len(w))[i] = w[i]
    <3>1. \A i \in 1 .. Len(w) : v[i] \in Items
      BY <1>1, ElementOfSeq
    <3> QED
      BY <1>1, <3>1, SubSeqProperties
  <2> QED
    BY <2>1, <2>2, SeqEqual
<1> QED
  BY <1>1, <1>2, <1>3

LEMMA ErrsAppended ==
  ASSUME NEW k, NEW w \in Seq(Items), NEW item \in Items
  PROVE  Errs(k, Append(w, item)) <=> Errs(k, w) /\ ErrorLike(k, item)
<1> DEFINE v == Append(w, item)
<1>1. DOMAIN v = DOMAIN w \cup {Len(w) + 1}
  BY Appended
<1>2. v[Len(w) + 1] = item /\ \A i \in DOMAIN w : v[i] = w[i]
  BY Appended
<1> HIDE DEF v
<1>3. Errs(k, v) <=> Errs(k, w) /\ ErrorLike(k, item)
  BY <1>1, <1>2 DEF Errs
<1> QED
  BY <1>3 DEF v

LEMMA AnsweredAppended ==
  ASSUME NEW k, NEW w \in Seq(Items), NEW item \in Items
  PROVE  Answered(k, Append(w, item)) <=>
           Answers(k, item) /\ Errs(k, w) /\ (k # "load" => w = <<>>)
BY Appended, Zenon DEF Answered

(* What can be read stays what it is, or becomes unreadable.               *)
LEMMA ReadableAppended ==
  ASSUME NEW k, NEW w \in Seq(Items), NEW item \in Items
  PROVE  Readable(k, Append(w, item)) <=>
           /\ Errs(k, w)
           /\ \/ ErrorLike(k, item)
              \/ Answers(k, item) /\ (k # "load" => w = <<>>)
BY ErrsAppended, AnsweredAppended, Zenon DEF Readable

LEMMA CountAppended ==
  ASSUME NEW w \in Seq(Items), NEW item \in Items
  PROVE  CountIn(Append(w, item)) = IF item.what = "count" THEN item.number ELSE CountIn(w)
<1> DEFINE v == Append(w, item)
           l == Len(w) + 1
<1>1. /\ DOMAIN v = 1 .. l /\ DOMAIN w = 1 .. Len(w) /\ Len(w) \in Nat /\ v[l] = item
      /\ \A i \in DOMAIN w : v[i] = w[i]
  BY Appended
<1> HIDE DEF v
<1>2. CASE item.what = "count"
  <2>1. l \in CountsIn(v) /\ \A j \in CountsIn(v) : j <= l
    BY <1>1, <1>2 DEF CountsIn
  <2>2. \A i \in CountsIn(v) : (\A j \in CountsIn(v) : j <= i) => i = l
    BY <1>1, <2>1 DEF CountsIn
  <2>3. (CHOOSE i \in CountsIn(v) : \A j \in CountsIn(v) : j <= i) = l
    BY <2>1, <2>2
  <2>4. CountIn(v) = v[l].number
    BY <2>1, <2>3 DEF CountIn
  <2> QED
    BY <1>1, <1>2, <2>4 DEF v
<1>3. CASE item.what # "count"
  <2>1. CountsIn(v) = CountsIn(w)
    BY <1>1, <1>3 DEF CountsIn
  <2>2. CASE CountsIn(w) = {}
    BY <1>3, <2>1, <2>2 DEF CountIn, v
  <2>3. CASE CountsIn(w) # {}
    <3> DEFINE last == CHOOSE i \in CountsIn(w) : \A j \in CountsIn(w) : j <= i
    <3>1. \E i \in CountsIn(w) : \A j \in CountsIn(w) : j <= i
      <4>1. CountsIn(w) \in SUBSET (1 .. Len(w))
        BY <1>1 DEF CountsIn
      <4> QED
        BY <1>1, <2>3, <4>1, LastMember
    <3>2. last \in CountsIn(w)
      BY <3>1
    <3>3. v[last] = w[last]
      BY <1>1, <3>2 DEF CountsIn
    <3> QED
      BY <1>3, <2>1, <2>3, <3>3 DEF CountIn, v
  <2> QED
    BY <2>2, <2>3
<1> QED
  BY <1>2, <1>3

LEMMA ErrorsAppended ==
  ASSUME NEW w \in Seq(Items), NEW item \in Items
  PROVE  /\ Cardinality(ErrorsIn(w)) \in Nat
         /\ Cardinality(ErrorsIn(Append(w, item)))
              = Cardinality(ErrorsIn(w)) + IF item.what = "error" THEN 1 ELSE 0
<1> DEFINE v == Append(w, item)
           l == Len(w) + 1
<1>1. /\ DOMAIN v = 1 .. l /\ DOMAIN w = 1 .. Len(w) /\ Len(w) \in Nat /\ v[l] = item
      /\ \A i \in DOMAIN w : v[i] = w[i]
  BY Appended
<1> HIDE DEF v
<1>2. IsFiniteSet(ErrorsIn(w)) /\ Cardinality(ErrorsIn(w)) \in Nat
  <2>1. IsFiniteSet(1 .. Len(w))
    BY <1>1, FS_Interval
  <2>2. ErrorsIn(w) \in SUBSET (1 .. Len(w))
    BY <1>1 DEF ErrorsIn
  <2>3. IsFiniteSet(ErrorsIn(w))
    BY <2>1, <2>2, FS_Subset
  <2> QED
    BY <2>3, FS_CardinalityType
<1>3. CASE item.what = "error"
  <2>1. ErrorsIn(v) = ErrorsIn(w) \cup {l} /\ l \notin ErrorsIn(w)
    BY <1>1, <1>3 DEF ErrorsIn
  <2>2. Cardinality(ErrorsIn(v)) = Cardinality(ErrorsIn(w)) + 1
    BY <1>2, <2>1, FS_AddElement
  <2> QED
    BY <1>2, <1>3, <2>2 DEF v
<1>4. CASE item.what # "error"
  <2>1. ErrorsIn(v) = ErrorsIn(w)
    BY <1>1, <1>4 DEF ErrorsIn
  <2> QED
    BY <1>2, <1>4, <2>1 DEF v
<1> QED
  BY <1>3, <1>4

(* A sequence of one child has nothing before its last.                    *)
LEMMA OneChild ==
  ASSUME NEW w \in Seq(Items), NEW item
  PROVE  w = <<item>> <=> w # <<>> /\ Last(w) = item /\ Front(w) = <<>>
<1>1. ASSUME w = <<item>> PROVE w # <<>> /\ Last(w) = item /\ Front(w) = <<>>
  <2>1. Len(w) = 1 /\ w[1] = item
    BY <1>1
  <2> QED
    BY <1>1, <2>1, SubSeqEmpty DEF Last, Front
<1>2. ASSUME w # <<>>, Last(w) = item, Front(w) = <<>> PROVE w = <<item>>
  <2>1. Len(w) \in Nat \ {0} /\ \A i \in 1 .. Len(w) : w[i] \in Items
    BY <1>2, EmptySeq, ElementOfSeq
  <2>2. Len(Front(w)) = Len(w) - 1
    <3>1. Len(SubSeq(w, 1, Len(w) - 1)) = IF 1 <= Len(w) - 1 THEN Len(w) - 1 ELSE 0
      BY <2>1, SubSeqProperties
    <3>2. Len(Front(w)) = IF 1 <= Len(w) - 1 THEN Len(w) - 1 ELSE 0
      BY <3>1, Zenon DEF Front
    <3>3. \A n \in Nat \ {0} : (IF 1 <= n - 1 THEN n - 1 ELSE 0) = n - 1
      OBVIOUS
    <3>4. Len(w) \in Nat \ {0}
      BY <2>1
    <3> QED
      BY <3>2, <3>3, <3>4, Zenon
  <2>3. Len(w) = 1
    BY <1>2, <2>1, <2>2
  <2> QED
    BY <1>2, <2>3 DEF Last
<1> QED
  BY <1>1, <1>2

LEMMA AnswerIsNoError ==
  ASSUME NEW k, NEW w \in Seq(Items), Answered(k, w)
  PROVE  ~Errs(k, w)
<1>1. Len(w) \in DOMAIN w /\ w[Len(w)] = Last(w)
  BY EmptySeq, LenProperties DEF Answered, Last
<1>2. ~ErrorLike(k, Last(w))
  BY DEF Answered, Answers, ErrorLike, Ok, Data, Item
<1> QED
  BY <1>1, <1>2 DEF Errs

(* What becomes of the reader: it goes on, or returns an error for ever.   *)
LEMMA Sees ==
  ASSUME NEW takes, NEW next, ReplySees(takes, next)
  PROVE  /\ Reading /\ takes => reply' = next
         /\ ~(Reading /\ takes) => ~Reading'
<1>1. Failed.status # "reading"
  BY DEF Failed, Unread
<1> QED
  BY <1>1 DEF ReplySees, Reading

LEMMA Spoils ==
  ASSUME Spoil, ~Reading' PROVE Faithful'
BY DEF Spoil, Faithful

(* A child that has been written, with what the reader made of it.         *)
LEMMA Writes ==
  ASSUME TypeOK, Faithful, ~flaw, at \in {"rpc-reply", "results"},
         NEW item \in Items, NEW takes, NEW next,
         written' = Append(written, item), ReplySees(takes, next),
         flaw' = flaw, kind' = kind, replies' = replies,
         at' \in {"rpc-reply", "results"}, list' = at',
         Reading => (takes <=> Readable(kind, Append(written, item))),
         Reading /\ takes => /\ next.status = "reading"
                             /\ HasRead(next, kind, Append(written, item))
  PROVE  Faithful'
<1>1. written \in Seq(Items)
  BY DEF TypeOK
<1>2. InList /\ replies > 0 /\ (Reading <=> Readable(kind, written))
  BY DEF Faithful, InList
<1>3. Readable(kind, Append(written, item)) => Readable(kind, written)
  BY <1>1, ReadableAppended DEF Readable
<1>4. Reading' <=> Reading /\ takes
  BY Sees DEF Reading
<1>5. Reading' <=> Readable(kind, Append(written, item))
  BY <1>2, <1>3, <1>4
<1>6. Reading' => HasRead(reply', kind, Append(written, item))
  BY <1>4, Sees
<1>7. InList'
  BY <1>2, <1>5, <1>6 DEF InList
<1>8. InError' /\ Outer'
  BY DEF InError, Outer
<1> QED
  BY <1>7, <1>8 DEF Faithful

(* What the reader has of the children when it comes to the next of them.  *)
LEMMA ReadSoFar ==
  ASSUME TypeOK, Faithful, ~flaw, Reading, at \in {"rpc-reply", "results"}
  PROVE  /\ HasRead(reply, kind, written)
         /\ NoAnswerYet <=> Errs(kind, written)
         /\ kind # "load" /\ NoAnswerYet => (reply.errors = 0 <=> written = <<>>)
<1>1. HasRead(reply, kind, written) /\ written \in Seq(Items)
  BY DEF Faithful, InList, TypeOK
<1>2. NoAnswerYet <=> Errs(kind, written)
  BY <1>1 DEF HasRead, NoAnswerYet
<1>3. ASSUME kind # "load", NoAnswerYet PROVE reply.errors = 0 <=> written = <<>>
  <2>1. reply.errors = Cardinality(ErrorsIn(written))
    BY <1>1, <1>2, <1>3 DEF HasRead
  <2>2. ErrorsIn(written) = 1 .. Len(written) /\ Len(written) \in Nat
    <3>1. DOMAIN written = 1 .. Len(written) /\ Len(written) \in Nat
      BY <1>1, LenProperties
    <3> QED
      BY <1>2, <1>3, <3>1 DEF Errs, ErrorLike, ErrorsIn
  <2>3. Cardinality(1 .. Len(written)) = Len(written)
    <3>1. \A n \in Nat : Cardinality(1 .. n) = n
      BY FS_Interval
    <3> QED
      BY <2>2, <3>1
  <2>4. Len(written) = 0 <=> written = <<>>
    BY <1>1, EmptySeq
  <2> QED
    BY <2>1, <2>2, <2>3, <2>4
<1> QED
  BY <1>1, <1>2, <1>3

(* A child that is not an answer and that the reader passes over.          *)
LEMMA PassesOver ==
  ASSUME NEW k, NEW w \in Seq(Items), NEW item \in Items, ErrorLike(k, item),
         NEW r, NEW s, HasRead(r, k, w), Errs(k, w), s.this = r.this,
         s.errors = r.errors + IF item.what = "error" THEN 1 ELSE 0,
         s.count = IF item.what = "count" THEN item.number ELSE r.count
  PROVE  HasRead(s, k, Append(w, item))
<1>1. Errs(k, Append(w, item))
  BY ErrsAppended
<1>2. s.this = "none"
  BY DEF HasRead
<1>3. s.errors = Cardinality(ErrorsIn(Append(w, item)))
  BY ErrorsAppended DEF HasRead
<1>4. s.count = CountIn(Append(w, item))
  BY CountAppended DEF HasRead
<1> QED
  BY <1>1, <1>2, <1>3, <1>4, Zenon DEF HasRead

(* At its end tag a reply comes to what its children mean.                 *)
LEMMA MeaningIsRead ==
  ASSUME TypeOK, Faithful, ~flaw, at = "rpc-reply"
  PROVE  /\ Reading => Outcome = Meaning
         /\ ~Reading => Meaning = "missing"
<1>1. written \in Seq(Items) /\ kind \in Kinds
  BY DEF TypeOK
<1>2. Reading <=> Readable(kind, written)
  BY DEF Faithful, InList
<1>3. kind = "load" => (LoadErrors(written) <=> Errs(kind, written))
  BY DEF LoadErrors, Errs, ErrorLike
<1>4. kind # "load" => (All(written, "rpc-reply", {"error"}) <=> Errs(kind, written))
  BY DEF All, Errs, ErrorLike
<1>5. /\ kind = "empty" => (written = <<Ok("rpc-reply")>> <=> Answered(kind, written))
      /\ kind = "data" => (written = <<Data>> <=> Answered(kind, written))
  <2>1. \A k : Errs(k, <<>>)
    BY DEF Errs
  <2>2. \A item : written = <<item>> <=>
          written # <<>> /\ Last(written) = item /\ Front(written) = <<>>
    BY <1>1, OneChild
  <2>3. CASE kind = "empty"
    <3>1. Answers(kind, Last(written)) <=> Last(written) = Ok("rpc-reply")
      BY <2>3 DEF Answers
    <3> QED
      BY <2>1, <2>2, <2>3, <3>1 DEF Answered
  <2>4. CASE kind = "data"
    <3>1. Answers(kind, Last(written)) <=> Last(written) = Data
      BY <2>4 DEF Answers
    <3> QED
      BY <2>1, <2>2, <2>4, <3>1 DEF Answered
  <2> QED
    BY <2>3, <2>4
<1>6. kind = "load" => (Answered(kind, written) <=>
        written # <<>> /\ Last(written) = Ok("results") /\ LoadErrors(Front(written)))
  BY DEF Answered, Answers, LoadErrors, Errs, ErrorLike
<1>7. kind = "bare" => ~Answered(kind, written)
  BY DEF Answered, Answers
<1>8. Answered(kind, written) => ~Errs(kind, written)
  BY <1>1, AnswerIsNoError
<1>9. CASE ~Reading
  <2>1. ~Errs(kind, written) /\ ~Answered(kind, written)
    BY <1>2, <1>9 DEF Readable
  <2>2. written # <<>>
    BY <2>1 DEF Errs
  <2> QED
    BY <1>1, <1>3, <1>4, <1>5, <1>6, <1>9, <2>1, <2>2, Zenon DEF Meaning
<1>10. CASE Reading /\ ~Errs(kind, written)
  <2>1. Answered(kind, written) /\ kind # "bare"
    BY <1>2, <1>7, <1>10 DEF Readable
  <2>2. Outcome = IF kind = "data" THEN "data" ELSE "ok"
    <3>1. ~NoAnswerYet /\ HasRead(reply, kind, written)
      BY <1>10, ReadSoFar
    <3> QED
      BY <1>10, <3>1 DEF HasRead, Outcome, NoAnswerYet
  <2>3. Meaning = IF kind = "data" THEN "data" ELSE "ok"
    <3>1. CASE kind = "empty"
      <4>1. written = <<Ok("rpc-reply")>>
        BY <1>5, <2>1, <3>1, Zenon
      <4>2. ~All(written, "rpc-reply", {"error"})
        BY <1>4, <1>10, <3>1
      <4> QED
        BY <3>1, <4>1, <4>2 DEF Meaning
    <3>2. CASE kind = "data"
      <4>1. written = <<Data>>
        BY <1>5, <2>1, <3>2, Zenon
      <4>2. ~All(written, "rpc-reply", {"error"})
        BY <1>4, <1>10, <3>2
      <4> QED
        BY <3>2, <4>1, <4>2 DEF Meaning
    <3>3. CASE kind = "load"
      <4>1. ~LoadErrors(written)
        BY <1>3, <1>10, <3>3, Zenon
      <4>2. written # <<>> /\ Last(written) = Ok("results") /\ LoadErrors(Front(written))
        BY <1>6, <2>1, <3>3, Zenon
      <4> QED
        BY <3>3, <4>1, <4>2 DEF Meaning
    <3> QED
      BY <1>1, <2>1, <3>1, <3>2, <3>3 DEF Kinds
  <2> QED
    BY <1>10, <2>2, <2>3
<1>11. CASE Reading /\ Errs(kind, written) /\ kind # "load"
  <2>1. ~Answered(kind, written)
    BY <1>8, <1>11
  <2>2. NoAnswerYet /\ (reply.errors = 0 <=> written = <<>>) /\ reply.errors \in Nat
    BY <1>11, ReadSoFar DEF TypeOK, ReplyReader
  <2>3. CASE written = <<>>
    <3>1. Outcome = IF kind = "bare" THEN "ok" ELSE "missing"
      BY <1>11, <2>2, <2>3 DEF Outcome, ErrorsWhole, NoAnswerYet
    <3>2. Meaning = IF kind = "bare" THEN "ok" ELSE "missing"
      BY <1>1, <1>5, <1>11, <2>1, <2>3 DEF Meaning, Kinds
    <3> QED
      BY <1>11, <3>1, <3>2
  <2>4. CASE written # <<>>
    <3>1. Outcome = "errs"
      BY <1>11, <2>2, <2>4 DEF Outcome, ErrorsWhole, NoAnswerYet
    <3>2. Meaning = "errs"
      BY <1>1, <1>4, <1>5, <1>11, <2>1, <2>4 DEF Meaning, Kinds
    <3> QED
      BY <1>11, <3>1, <3>2
  <2> QED
    BY <2>3, <2>4
<1>12. CASE Reading /\ Errs(kind, written) /\ kind = "load"
  <2>1. ~Answered(kind, written)
    BY <1>8, <1>12
  <2>2. /\ NoAnswerYet /\ reply.errors = Cardinality(ErrorsIn(written))
        /\ reply.count = CountIn(written)
    BY <1>12, ReadSoFar DEF HasRead
  <2>3. Cardinality(ErrorsIn(written)) \in Nat /\ Cardinality(ErrorsIn(written)) # NoCount
    BY <1>1, ErrorsAppended, ConstantsTyped, ItemTyped DEF NoCount, Data
  <2>4. Outcome = IF CountItems # {} /\ LastCount = Cardinality(ErrorItems)
                  THEN "errs" ELSE "missing"
    <3>1. ErrorItems = ErrorsIn(written) /\ CountItems = CountsIn(written)
      BY DEF ErrorItems, ErrorsIn, CountItems, CountsIn
    <3>2. CountIn(written) = IF CountItems = {} THEN NoCount ELSE LastCount
      BY <3>1 DEF CountIn, LastCount
    <3>3. Outcome = IF reply.count = reply.errors THEN "errs" ELSE "missing"
      BY <1>12, <2>2 DEF Outcome, ErrorsWhole, NoAnswerYet, Kinds
    <3> QED
      BY <2>2, <2>3, <3>1, <3>2, <3>3
  <2>5. Meaning = IF CountItems # {} /\ LastCount = Cardinality(ErrorItems)
                  THEN "errs" ELSE "missing"
    BY <1>3, <1>6, <1>12, <2>1, Zenon DEF Meaning
  <2> QED
    BY <1>12, <2>4, <2>5
<1> QED
  BY <1>9, <1>10, <1>11, <1>12

(* A message with a flaw stays one that the reader has given up.           *)
LEMMA Flawed ==
  ASSUME Faithful, flaw, [Next]_vars PROVE Faithful'
<1>1. ~Reading
  BY DEF Faithful
<1>2. ASSUME NEW takes, NEW next, ReplySees(takes, next) PROVE ~Reading'
  BY <1>1, <1>2, Sees
<1>3. CASE UNCHANGED vars
  BY <1>1, <1>3 DEF vars, Faithful, Reading
<1>4. CASE Next
  <2>1. ~Reading'
    BY <1>2, <1>4, Zenon DEF Next, StartReply, EndReply, WriteOk, WriteData, StartResults,
      EndResults, WriteCount, StartError, EndError, StartInfo, EndInfo, WriteField,
      WriteUnknown, Malformed, Finish
  <2>2. flaw'
    BY <1>4 DEF Next, StartReply, EndReply, WriteOk, WriteData, StartResults,
      EndResults, WriteCount, StartError, EndError, StartInfo, EndInfo, WriteField,
      WriteUnknown, Malformed, Finish, Spoil, SpoilIf
  <2> QED
    BY <2>1, <2>2 DEF Faithful
<1> QED
  BY <1>3, <1>4

(* The actions, for a message without a flaw so far.                       *)
LEMMA FaithfulStart ==
  ASSUME TypeOK, Faithful, ~flaw, NEW id \in Ids \cup {NoId}, StartReply(id)
  PROVE  Faithful'
<1>1. (Reading /\ id # NoId => reply' = [Unread EXCEPT !.id = id]) /\ (id = NoId => ~Reading')
  BY Sees DEF StartReply
<1>2. CASE id = NoId \/ (replies > 0 /\ Meaning = "missing")
  <2>1. Spoil
    BY <1>2 DEF StartReply
  <2>2. ~Reading'
    <3>1. CASE id = NoId
      BY <1>1, <3>1
    <3>2. CASE replies > 0 /\ Meaning = "missing"
      <4>1. ~Reading
        BY <3>2 DEF StartReply, Faithful, Outer
      <4> QED
        BY <4>1, Sees DEF StartReply
    <3> QED
      BY <1>2, <3>1, <3>2
  <2> QED
    BY <2>1, <2>2, Spoils
<1>3. CASE id # NoId /\ ~(replies > 0 /\ Meaning = "missing")
  <2>1. Reading
    BY <1>3, RepliesAssumption DEF StartReply, Faithful, Outer, Reading, Unread, TypeOK
  <2>2. reply' = [Unread EXCEPT !.id = id]
    BY <1>1, <1>3, <2>1
  <2>3. /\ reply'.status = "reading" /\ reply'.this = "none" /\ reply'.errors = 0
        /\ reply'.count = NoCount
    BY <2>2 DEF Unread
  <2>4. /\ written' = <<>> /\ flaw' = flaw /\ at' = "rpc-reply" /\ list' = "rpc-reply"
        /\ replies' > 0 /\ kind' = kind
    BY <1>3 DEF StartReply, TypeOK
  <2>5. Errs(kind, <<>>) /\ Cardinality(ErrorsIn(<<>>)) = 0 /\ CountIn(<<>>) = NoCount
    <3>1. ErrorsIn(<<>>) = {} /\ CountsIn(<<>>) = {}
      BY DEF ErrorsIn, CountsIn
    <3> QED
      BY <3>1, FS_EmptySet DEF Errs, CountIn
  <2>6. HasRead(reply', kind, <<>>)
    BY <2>3, <2>5 DEF HasRead
  <2>7. InList'
    BY <2>3, <2>4, <2>5, <2>6 DEF InList, Reading, Readable
  <2>8. InError' /\ Outer'
    BY <2>4 DEF InError, Outer
  <2> QED
    BY <2>4, <2>7, <2>8 DEF Faithful
<1> QED
  BY <1>2, <1>3

LEMMA FaithfulEnd ==
  ASSUME TypeOK, Faithful, ~flaw, EndReply
  PROVE  Faithful'
<1>1. /\ at = "rpc-reply" /\ at' = "message" /\ replies' = replies /\ flaw' = flaw
      /\ kind' = kind /\ written' = written
      /\ ReplySees(Outcome # "missing", [reply EXCEPT !.this = Outcome])
  BY DEF EndReply
<1>2. replies > 0
  BY <1>1 DEF Faithful, InList
<1>3. (Reading => Outcome = Meaning) /\ (~Reading => Meaning = "missing")
  BY <1>1, MeaningIsRead
<1>4. Reading /\ Outcome # "missing" => reply' = [reply EXCEPT !.this = Outcome]
  BY <1>1, Sees
<1>5. ~(Reading /\ Outcome # "missing") => ~Reading'
  BY <1>1, Sees
<1>6. Reading /\ Outcome # "missing" => Reading' /\ reply'.this = Outcome
  BY <1>4 DEF Reading, TypeOK, ReplyReader
<1>7. Meaning' = Meaning
  BY <1>1 DEF Meaning, ErrorItems, CountItems, LastCount
<1>8. Outer'
  BY <1>1, <1>2, <1>3, <1>5, <1>6, <1>7 DEF Outer
<1>9. InList' /\ InError'
  BY <1>1 DEF InList, InError
<1> QED
  BY <1>1, <1>8, <1>9 DEF Faithful

LEMMA FaithfulOk ==
  ASSUME TypeOK, Faithful, ~flaw, WriteOk
  PROVE  Faithful'
<1> DEFINE item == Ok(at)
           next == [reply EXCEPT !.this = "ok"]
<1>1. /\ at \in {"rpc-reply", "results"} /\ at' = at /\ list' = list /\ flaw' = flaw
      /\ replies' = replies /\ kind' = kind
      /\ written' = Append(written, item) /\ ReplySees(TakesOk, next)
  BY DEF WriteOk, Open, Write, input
<1>2. item \in Items /\ written \in Seq(Items) /\ list = at
  BY <1>1, ItemTyped, ConstantsTyped DEF TypeOK, Ok, Faithful, InList
<1>3. ~ErrorLike(kind, item)
  BY DEF ErrorLike, Ok, Item
<1>4. Answers(kind, item) <=> \/ kind = "empty" /\ at = "rpc-reply"
                              \/ kind = "load" /\ at = "results"
  BY <1>1 DEF Answers, Ok, Data, Item
<1>5. Reading => (TakesOk <=> Readable(kind, Append(written, item)))
  BY <1>1, <1>2, <1>3, <1>4, ReadSoFar, ReadableAppended DEF TakesOk
<1>6. Reading /\ TakesOk => /\ next.status = "reading"
                            /\ HasRead(next, kind, Append(written, item))
  <2> SUFFICES ASSUME Reading, TakesOk
               PROVE  next.status = "reading" /\ HasRead(next, kind, Append(written, item))
    OBVIOUS
  <2>1. next.status = "reading" /\ next.this = "ok"
    BY DEF Reading, TypeOK, ReplyReader
  <2>2. ~Errs(kind, Append(written, item))
    BY <1>2, <1>3, ErrsAppended
  <2>3. kind # "data"
    BY DEF TakesOk
  <2> QED
    BY <2>1, <2>2, <2>3 DEF HasRead
<1> HIDE DEF item, next
<1> QED
  BY <1>1, <1>2, <1>5, <1>6, Writes

LEMMA FaithfulData ==
  ASSUME TypeOK, Faithful, ~flaw, WriteData
  PROVE  Faithful'
<1> DEFINE next == [reply EXCEPT !.this = "data"]
<1>1. /\ at = "rpc-reply" /\ at' = at /\ list' = list /\ replies' = replies /\ kind' = kind
  BY DEF WriteData, input
<1>2. CASE ReplySees(FALSE, reply) /\ Spoil
  BY <1>2, Sees, Spoils
<1>3. CASE ReplySees(TakesData, next) /\ Write(Data) /\ UNCHANGED flaw
  <2>1. Data \in Items /\ written \in Seq(Items) /\ list = at
    BY <1>1, ItemTyped, ConstantsTyped DEF TypeOK, Data, Faithful, InList
  <2>2. ~ErrorLike(kind, Data)
    BY DEF ErrorLike, Data, Item
  <2>3. Answers(kind, Data) <=> kind = "data"
    BY DEF Answers, Ok, Data, Item
  <2>4. Reading => (TakesData <=> Readable(kind, Append(written, Data)))
    BY <1>1, <2>1, <2>2, <2>3, ReadSoFar, ReadableAppended DEF TakesData
  <2>5. Reading /\ TakesData => /\ next.status = "reading"
                                /\ HasRead(next, kind, Append(written, Data))
    <3> SUFFICES ASSUME Reading, TakesData
                 PROVE  next.status = "reading" /\ HasRead(next, kind, Append(written, Data))
      OBVIOUS
    <3>1. next.status = "reading" /\ next.this = "data"
      BY DEF Reading, TypeOK, ReplyReader
    <3>2. ~Errs(kind, Append(written, Data))
      BY <2>1, <2>2, ErrsAppended
    <3>3. kind = "data"
      BY DEF TakesData
    <3> QED
      BY <3>1, <3>2, <3>3 DEF HasRead
  <2>6. written' = Append(written, Data)
    BY <1>3 DEF Write
  <2> HIDE DEF next
  <2> QED
    BY <1>1, <1>3, <2>1, <2>4, <2>5, <2>6, Writes
<1> QED
  BY <1>2, <1>3 DEF WriteData

LEMMA FaithfulResults ==
  ASSUME TypeOK, Faithful, ~flaw, StartResults
  PROVE  Faithful'
<1> DEFINE item == Item("rpc-reply", "results", 0)
<1>1. /\ at = "rpc-reply" /\ at' = "results" /\ list' = "results" /\ flaw' = flaw
      /\ replies' = replies /\ kind' = kind
      /\ written' = Append(written, item) /\ ReplySees(TakesResults, reply)
  BY DEF StartResults, Write
<1>2. item \in Items /\ written \in Seq(Items) /\ item.what = "results"
  BY ItemTyped, ConstantsTyped DEF TypeOK, Item
<1>3. ErrorLike(kind, item) <=> kind = "load"
  BY DEF ErrorLike, Item
<1>4. ~Answers(kind, item)
  BY DEF Answers, Ok, Data, Item
<1>5. Reading => (TakesResults <=> Readable(kind, Append(written, item)))
  BY <1>1, <1>2, <1>3, <1>4, ReadSoFar, ReadableAppended DEF TakesResults
<1>6. Reading /\ TakesResults => HasRead(reply, kind, Append(written, item))
  <2> SUFFICES ASSUME Reading, TakesResults
               PROVE  HasRead(reply, kind, Append(written, item))
    OBVIOUS
  <2>1. HasRead(reply, kind, written) /\ Errs(kind, written) /\ kind = "load"
    BY <1>1, ReadSoFar DEF TakesResults
  <2>2. reply.errors = reply.errors + 0
    BY DEF TypeOK, ReplyReader
  <2> HIDE DEF item
  <2> QED
    BY <1>2, <1>3, <2>1, <2>2, PassesOver
<1> HIDE DEF item
<1> QED
  BY <1>1, <1>2, <1>5, <1>6, Writes DEF Reading

LEMMA FaithfulCount ==
  ASSUME TypeOK, Faithful, ~flaw, NEW number \in 0 .. MaxItems, WriteCount(number)
  PROVE  Faithful'
<1> DEFINE item == Item(at, "count", number)
           next == [reply EXCEPT !.count = number]
<1>1. /\ at \in {"rpc-reply", "results"} /\ at' = at /\ list' = list /\ flaw' = flaw
      /\ replies' = replies /\ kind' = kind
      /\ written' = Append(written, item) /\ ReplySees(TakesCount, next)
  BY DEF WriteCount, Open, Write, input
<1>2. /\ item \in Items /\ item.what = "count" /\ item.number = number
      /\ written \in Seq(Items) /\ list = at
  BY <1>1, ItemTyped DEF TypeOK, Item, Faithful, InList
<1>3. ErrorLike(kind, item) <=> kind = "load" /\ at = "results"
  BY <1>1 DEF ErrorLike, Item
<1>4. ~Answers(kind, item)
  BY DEF Answers, Ok, Data, Item
<1>5. Reading => (TakesCount <=> Readable(kind, Append(written, item)))
  BY <1>1, <1>2, <1>3, <1>4, ReadSoFar, ReadableAppended DEF TakesCount
<1>6. Reading /\ TakesCount => /\ next.status = "reading"
                               /\ HasRead(next, kind, Append(written, item))
  <2> SUFFICES ASSUME Reading, TakesCount
               PROVE  next.status = "reading" /\ HasRead(next, kind, Append(written, item))
    OBVIOUS
  <2>1. HasRead(reply, kind, written) /\ Errs(kind, written) /\ ErrorLike(kind, item)
    BY <1>1, <1>3, ReadSoFar DEF TakesCount
  <2>2. /\ next.status = "reading" /\ next.this = reply.this /\ next.count = number
        /\ next.errors = reply.errors + 0
    BY DEF Reading, TypeOK, ReplyReader
  <2> HIDE DEF item, next
  <2> QED
    BY <1>2, <2>1, <2>2, PassesOver
<1> HIDE DEF item, next
<1> QED
  BY <1>1, <1>2, <1>5, <1>6, Writes

LEMMA FaithfulEndResults ==
  ASSUME TypeOK, Faithful, ~flaw, EndResults
  PROVE  Faithful'
<1>1. /\ at = "results" /\ at' = "rpc-reply" /\ list' = "rpc-reply" /\ flaw' = flaw
      /\ replies' = replies /\ kind' = kind /\ written' = written /\ ReplySees(TRUE, reply)
  BY DEF EndResults
<1>2. (Reading => reply' = reply) /\ (~Reading => ~Reading')
  BY <1>1, Sees
<1>3. InList'
  BY <1>1, <1>2 DEF Faithful, InList, Reading
<1>4. InError' /\ Outer'
  BY <1>1 DEF InError, Outer
<1> QED
  BY <1>1, <1>3, <1>4 DEF Faithful

LEMMA FaithfulStartError ==
  ASSUME TypeOK, Faithful, ~flaw, StartError
  PROVE  Faithful'
<1>1. /\ at \in {"rpc-reply", "results"} /\ at' = "rpc-error" /\ list' = list /\ flaw' = flaw
      /\ replies' = replies /\ kind' = kind /\ written' = written
      /\ ReplySees(TakesError, reply)
  BY DEF StartError, Open
<1>2. /\ list = at /\ replies > 0 /\ (Reading <=> Readable(kind, written))
      /\ Reading => HasRead(reply, kind, written)
  BY <1>1 DEF Faithful, InList
<1>3. Reading => (TakesError <=> /\ Errs(kind, written)
                                 /\ list = IF kind = "load" THEN "results" ELSE "rpc-reply")
  BY <1>1, <1>2, ReadSoFar DEF TakesError
<1>4. (Reading /\ TakesError => reply' = reply) /\ (~(Reading /\ TakesError) => ~Reading')
  BY <1>1, Sees
<1>5. InError'
  BY <1>1, <1>2, <1>3, <1>4 DEF InError, Reading, Readable
<1>6. InList' /\ Outer'
  BY <1>1 DEF InList, Outer
<1> QED
  BY <1>1, <1>5, <1>6 DEF Faithful

LEMMA FaithfulEndError ==
  ASSUME TypeOK, Faithful, ~flaw, EndError
  PROVE  Faithful'
<1> DEFINE item == Item(list, "error", 0)
           next == [reply EXCEPT !.errors = @ + 1]
<1>1. /\ at = "rpc-error" /\ at' = list /\ list' = list /\ replies' = replies /\ kind' = kind
      /\ ReplySees(Mandatory \subseteq fields, next)
  BY DEF EndError
<1>2. CASE ~(Mandatory \subseteq fields)
  <2>1. ~Reading' /\ Spoil
    BY <1>1, <1>2, Sees DEF EndError
  <2> QED
    BY <2>1, Spoils
<1>3. CASE Mandatory \subseteq fields
  <2>1. written' = Append(written, item) /\ flaw' = flaw
    BY <1>3 DEF EndError, Write
  <2>2. /\ item \in Items /\ item.what = "error" /\ written \in Seq(Items)
        /\ list \in {"rpc-reply", "results"}
    BY ItemTyped, ConstantsTyped DEF TypeOK, Item
  <2>3. ErrorLike(kind, item) <=> list = IF kind = "load" THEN "results" ELSE "rpc-reply"
    BY <2>2 DEF ErrorLike, Item
  <2>4. ~Answers(kind, item)
    BY DEF Answers, Ok, Data, Item
  <2>5. replies > 0 /\ (Reading <=> Errs(kind, written) /\ ErrorLike(kind, item))
    BY <1>1, <2>3 DEF Faithful, InError
  <2>6. Reading <=> Readable(kind, Append(written, item))
    BY <2>2, <2>4, <2>5, ReadableAppended
  <2>7. (Reading => reply' = next) /\ (~Reading => ~Reading')
    BY <1>1, <1>3, Sees
  <2>8. ASSUME Reading PROVE Reading' /\ HasRead(reply', kind, Append(written, item))
    <3>1. HasRead(reply, kind, written) /\ Errs(kind, written) /\ ErrorLike(kind, item)
      BY <1>1, <2>5, <2>8 DEF Faithful, InError
    <3>2. /\ reply'.this = reply.this /\ reply'.errors = reply.errors + 1
          /\ reply'.count = reply.count /\ reply'.status = reply.status
      BY <2>7, <2>8 DEF TypeOK, ReplyReader
    <3> HIDE DEF item
    <3>3. HasRead(reply', kind, Append(written, item))
      BY <2>2, <3>1, <3>2, PassesOver
    <3> QED
      BY <2>8, <3>2, <3>3 DEF Reading
  <2> HIDE DEF item, next
  <2>9. InList'
    BY <1>1, <2>1, <2>5, <2>6, <2>7, <2>8 DEF InList
  <2>10. InError' /\ Outer'
    BY <1>1, <2>2 DEF InError, Outer
  <2> QED
    BY <2>1, <2>9, <2>10 DEF Faithful
<1> QED
  BY <1>2, <1>3

(* Within an <rpc-error> the reader goes on, or the message has a flaw.    *)
LEMMA FaithfulWithin ==
  ASSUME TypeOK, Faithful, ~flaw,
         at \in {"rpc-error", "error-info"}, at' \in {"rpc-error", "error-info"},
         UNCHANGED <<kind, list, replies>>, NEW takes, ReplySees(takes, reply),
         IF takes THEN UNCHANGED <<flaw, written>> ELSE Spoil
  PROVE  Faithful'
<1>1. CASE ~takes
  BY <1>1, Sees, Spoils
<1>2. CASE takes
  <2>1. (Reading => reply' = reply) /\ (~Reading => ~Reading')
    BY <1>2, Sees
  <2>2. InError'
    BY <1>2, <2>1 DEF Faithful, InError, Reading
  <2>3. InList' /\ Outer'
    BY DEF InList, Outer
  <2> QED
    BY <1>2, <2>2, <2>3 DEF Faithful
<1> QED
  BY <1>1, <1>2

LEMMA FaithfulFinish ==
  ASSUME TypeOK, Faithful, ~flaw, Finish
  PROVE  Faithful'
<1>1. at # "end" /\ at' = "end" /\ ReplySees(at = "message" /\ ~NoAnswerYet, reply)
  BY DEF Finish
<1>2. CASE at # "message" \/ replies = 0
  <2>1. Spoil
    BY <1>2 DEF Finish, SpoilIf
  <2>2. ~(at = "message" /\ ~NoAnswerYet)
    BY <1>1, <1>2 DEF Faithful, Outer, NoAnswerYet, Unread
  <2> QED
    BY <1>1, <2>1, <2>2, Sees, Spoils
<1>3. CASE at = "message" /\ replies # 0
  <2>1. flaw' = flaw /\ written' = written /\ kind' = kind /\ replies' = replies
    BY <1>3 DEF Finish, SpoilIf
  <2>2. (Reading <=> Meaning # "missing") /\ (Reading => reply.this = Meaning)
    BY <1>3 DEF Faithful, Outer
  <2>3. Meaning # "none"
    BY DEF Meaning
  <2>4. Reading => ~NoAnswerYet
    BY <2>2, <2>3 DEF NoAnswerYet
  <2>5. (Reading => reply' = reply) /\ (~Reading => ~Reading')
    BY <1>1, <1>3, <2>4, Sees
  <2>6. Meaning' = Meaning
    BY <2>1 DEF Meaning, ErrorItems, CountItems, LastCount
  <2>7. Outer'
    BY <1>3, <2>1, <2>2, <2>5, <2>6 DEF Outer, Reading
  <2>8. InList' /\ InError'
    BY <1>1 DEF InList, InError
  <2> QED
    BY <2>1, <2>7, <2>8 DEF Faithful
<1> QED
  BY <1>2, <1>3

LEMMA FaithfulStep ==
  ASSUME TypeOK, Faithful, [Next]_vars PROVE Faithful'
<1> SUFFICES ASSUME ~flaw PROVE Faithful'
  BY Flawed
<1>1. CASE EndReply \/ WriteOk \/ WriteData \/ StartResults \/ EndResults
             \/ StartError \/ EndError \/ Finish
  BY <1>1, FaithfulEnd, FaithfulOk, FaithfulData, FaithfulResults, FaithfulEndResults,
     FaithfulStartError, FaithfulEndError, FaithfulFinish
<1>2. ASSUME NEW id \in Ids \cup {NoId}, StartReply(id) PROVE Faithful'
  BY <1>2, FaithfulStart
<1>3. ASSUME NEW number \in 0 .. MaxItems, WriteCount(number) PROVE Faithful'
  BY <1>3, FaithfulCount
<1>4. ASSUME NEW field \in Fields, WriteField(field) PROVE Faithful'
  <2>1. IF field \notin fields THEN UNCHANGED <<flaw, written>> ELSE Spoil
    BY <1>4 DEF WriteField, SpoilIf
  <2>2. /\ at = "rpc-error" /\ at' = at /\ UNCHANGED <<kind, list, replies>>
        /\ ReplySees(field \notin fields, reply)
    BY <1>4 DEF WriteField
  <2> QED
    BY <2>1, <2>2, FaithfulWithin
<1>5. CASE StartInfo
  <2>1. IF "error-info" \notin fields THEN UNCHANGED <<flaw, written>> ELSE Spoil
    BY <1>5 DEF StartInfo, SpoilIf
  <2>2. /\ at = "rpc-error" /\ at' = "error-info" /\ UNCHANGED <<kind, list, replies>>
        /\ ReplySees("error-info" \notin fields, reply)
    BY <1>5 DEF StartInfo
  <2> QED
    BY <2>1, <2>2, FaithfulWithin
<1>6. CASE EndInfo
  <2>1. /\ at = "error-info" /\ at' = "rpc-error" /\ UNCHANGED <<kind, list, replies>>
        /\ ReplySees(TRUE, reply) /\ UNCHANGED <<flaw, written>>
    BY <1>6 DEF EndInfo
  <2> QED
    BY <2>1, FaithfulWithin
<1>7. CASE WriteUnknown \/ Malformed
  <2>1. Spoil /\ ReplySees(FALSE, reply)
    BY <1>7 DEF WriteUnknown, Malformed
  <2> QED
    BY <2>1, Sees, Spoils
<1>8. CASE UNCHANGED vars
  <2>1. Meaning' = Meaning
    BY <1>8 DEF vars, Meaning, ErrorItems, CountItems, LastCount
  <2> QED
    BY <1>8, <2>1 DEF vars, input, Faithful, InList, InError, Outer, Reading
<1> QED
  BY <1>1, <1>2, <1>3, <1>4, <1>5, <1>6, <1>7, <1>8 DEF Next

(* Each message is read as what its children mean, whatever they are and   *)
(* however many: the readers accept the grammar and nothing else, loads    *)
(* with more errors than their count says left out (rpc/mod.rs:191-293,    *)
(* rpc/error.rs:66-174, load_configuration.rs:398-466).                    *)
THEOREM ReadFaithfully == Spec => []ReadAsWritten
<1>1. Init => TypeOK /\ Abreast /\ Faithful
  <2>1. Init => TypeOK /\ Abreast
    BY InitTyped DEF Init, Abreast, Outside, Unread, NoAnswerYet
  <2>2. Init => Faithful
    BY DEF Init, Faithful, InList, InError, Outer
  <2> QED
    BY <2>1, <2>2
<1>2. TypeOK /\ Abreast /\ Faithful /\ [Next]_vars => (TypeOK /\ Abreast /\ Faithful)'
  BY TypeStep, AbreastStep, FaithfulStep
<1>3. TypeOK /\ Abreast /\ Faithful => ReadAsWritten
  <2> SUFFICES ASSUME TypeOK, Abreast, Faithful, at = "end", ~disputed, ~Undercounted
               PROVE  Result = IF flaw \/ Meaning = "missing" THEN "failed" ELSE Meaning
    BY DEF ReadAsWritten
  <2>1. reply.status \in {"reading", "failed"}
    BY DEF TypeOK, ReplyReader
  <2>2. CASE flaw \/ Meaning = "missing"
    <3>1. ~Reading
      BY <2>2 DEF Faithful, Outer
    <3> QED
      BY <2>1, <2>2, <3>1 DEF Result, Reading
  <2>3. CASE ~flaw /\ Meaning # "missing"
    <3>1. Reading /\ reply.this = Meaning
      BY <2>3 DEF Faithful, Outer
    <3>2. partial.status # "failed" /\ reply.id = partial.id
      BY <3>1 DEF Abreast, Outside, Reading
    <3> QED
      BY <2>3, <3>1, <3>2 DEF Result, Reading
  <2> QED
    BY <2>2, <2>3
<1> QED
  BY <1>1, <1>2, <1>3, PTL DEF Spec

=============================================================================
