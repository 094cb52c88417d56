--------------------------- MODULE FramingProofs ----------------------------
(***************************************************************************)
(* Proofs about Framing, for any number and length of messages, any length *)
(* of the marker and any division of the stream into reads.                *)
(***************************************************************************)
EXTENDS Framing, SequenceTheorems, TLAPS

(* The ends of messages are a message apart. *)
LEMMA EndsApart ==
  ASSUME NEW i \in Nat, NEW j \in Nat, i < j
  PROVE  /\ EndOf(i) \in Nat /\ EndOf(j) \in Nat
         /\ EndOf(i) + MessageLen <= EndOf(j)
<1> DEFINE d == j - i - 1
<1>1. MessageLen \in Nat /\ d \in Nat /\ j = i + 1 + d
  BY StreamAssumption DEF MessageLen
<1>2. \A L \in Nat : i * L \in Nat /\ j * L \in Nat /\ d * L \in Nat
  BY <1>1
<1>3. \A L \in Nat : (i + 1 + d) * L = i * L + L + d * L
  BY <1>1
<1>4. EndOf(i) \in Nat /\ EndOf(j) \in Nat
  BY <1>1, <1>2 DEF EndOf
<1>5. EndOf(j) = EndOf(i) + MessageLen + d * MessageLen
  BY <1>1, <1>3 DEF EndOf
<1> QED
  BY <1>1, <1>2, <1>4, <1>5

(* Every message ends in the stream, a marker or more after its start.     *)
LEMMA EndsInStream ==
  /\ MessageLen \in Nat /\ MarkerLen <= MessageLen /\ Length \in Nat
  /\ \A k \in 0 .. Messages : EndOf(k) \in 0 .. Length
  /\ EndOf(0) = 0
<1>1. MessageLen \in Nat /\ MarkerLen <= MessageLen /\ Messages \in Nat
  BY StreamAssumption DEF MessageLen
<1>2. EndOf(0) = 0
  BY <1>1 DEF EndOf
<1>3. Length \in Nat
  BY <1>1, <1>2, EndsApart, StreamAssumption DEF Length
<1>4. ASSUME NEW k \in 0 .. Messages PROVE EndOf(k) \in 0 .. Length
  BY <1>1, <1>3, EndsApart DEF Length
<1> QED
  BY <1>1, <1>2, <1>3, <1>4

----------------------------------------------------------------------------
(* The buffer starts where a message does.  What recv() searches from here *)
(* on misses no marker but those that one of its reads has cut.            *)
StartsAtMessage == \E k \in 0 .. Messages : start = EndOf(k)

CutByRead(k) == \E offset \in missed : InMarker(k, offset)

OnlyCutSearched ==
  pc # "idle" => \A k \in 1 .. Messages :
    start < EndOf(k) /\ EndOf(k) - MarkerLen < searched => CutByRead(k)

FramingInv ==
  TypeOK /\ StartsAtMessage /\ OnlyCutSearched /\ OnlyCutMarkersAreMissed

LEMMA FramingInit == Init => FramingInv
<1> SUFFICES ASSUME Init PROVE FramingInv
  OBVIOUS
<1>1. <<>> \in Seq([from : 0 .. Length, to : 0 .. Length, missed : SUBSET (0 .. Length)])
  OBVIOUS
<1>2. TypeOK
  BY <1>1, EndsInStream, StreamAssumption DEF Init, TypeOK
<1>3. StartsAtMessage
  BY EndsInStream, StreamAssumption DEF Init, StartsAtMessage
<1> QED
  BY <1>2, <1>3 DEF Init, FramingInv, OnlyCutSearched, OnlyCutMarkersAreMissed

(* A piece that ends at the first marker found. *)
LEMMA SplitStep == ASSUME FramingInv, Split PROVE FramingInv'
<1>1. PICK k \in 1 .. Messages :
        /\ IsFirst(k, MarkersFrom(searched)) /\ start' = EndOf(k)
        /\ delivered' = Append(delivered, [from |-> start, to |-> EndOf(k), missed |-> missed])
  BY DEF Split
<1> DEFINE piece  == [from |-> start, to |-> EndOf(k), missed |-> missed]
           Pieces == [from : 0 .. Length, to : 0 .. Length, missed : SUBSET (0 .. Length)]
<1>2. /\ TypeOK /\ OnlyCutSearched /\ pc = "searching" /\ pc' = "idle"
      /\ UNCHANGED <<stream, sent, end, searched, missed, cancels>>
  BY DEF Split, FramingInv
<1>3. /\ start \in Nat /\ end \in Nat /\ sent \in 0 .. Length /\ searched \in Nat
      /\ start <= searched /\ end <= sent /\ MarkerLen \in Nat \ {0} /\ Messages \in Nat
  BY <1>2, EndsInStream, StreamAssumption DEF TypeOK
<1>4. EndOf(k) - MarkerLen >= searched /\ EndOf(k) <= end /\ EndOf(k) \in 0 .. Length
  BY <1>1, EndsInStream DEF IsFirst, MarkersFrom
<1>5. start < EndOf(k)
  BY <1>3, <1>4
<1>6. piece \in Pieces /\ delivered \in Seq(Pieces)
  <2>1. start \in 0 .. Length /\ missed \in SUBSET (0 .. Length)
    BY <1>2, <1>3, <1>4, EndsInStream DEF TypeOK
  <2>2. piece \in Pieces
    BY <1>4, <2>1
  <2> QED
    BY <1>2, <2>2 DEF TypeOK
<1>7. /\ delivered' \in Seq(Pieces)
      /\ \A i \in DOMAIN delivered' :
           delivered'[i] = piece \/ (i \in DOMAIN delivered /\ delivered'[i] = delivered[i])
  BY <1>1, <1>6, AppendProperties, LenProperties
<1>8. TypeOK'
  BY <1>1, <1>2, <1>3, <1>4, <1>7 DEF TypeOK
<1>9. PICK j \in 0 .. Messages : start = EndOf(j)
  BY DEF FramingInv, StartsAtMessage
<1>10. j + 1 \in 1 .. Messages /\ start = EndOf((j + 1) - 1)
  <2>1. j < Messages
    <3>1. j # Messages
      BY <1>3, <1>4, <1>5, <1>9 DEF Length
    <3> QED
      BY <1>3, <1>9, <3>1
  <2> QED
    BY <1>3, <1>9, <2>1
<1>11. ASSUME NEW m \in 1 .. Messages, start < EndOf(m), EndOf(m) < EndOf(k)
       PROVE  CutByRead(m)
  <2>1. m < k
    <3>1. CASE k < m
      <4>1. EndOf(k) + MessageLen <= EndOf(m) /\ EndOf(k) \in Nat /\ EndOf(m) \in Nat
        BY <1>3, <3>1, EndsApart
      <4> QED
        BY <1>11, <4>1, EndsInStream
    <3>2. k # m
      BY <1>4, <1>11
    <3> QED
      BY <1>3, <3>1, <3>2
  <2>2. m \notin MarkersFrom(searched)
    BY <1>1, <1>3, <2>1 DEF IsFirst
  <2>3. EndOf(m) \in Nat /\ EndOf(m) <= end
    BY <1>3, <1>4, <1>11, EndsInStream
  <2>4. EndOf(m) - MarkerLen < searched
    BY <1>3, <2>2, <2>3 DEF MarkersFrom
  <2> QED
    BY <1>2, <1>11, <2>4 DEF OnlyCutSearched
<1>12. OnlyCutMarkersAreMissed'
  <2> SUFFICES ASSUME NEW i \in DOMAIN delivered', delivered'[i] = piece
               PROVE  /\ \E m \in 1 .. Messages : piece.from = EndOf(m - 1)
                      /\ \E m \in 1 .. Messages : piece.to = EndOf(m)
                      /\ \A m \in 1 .. Messages :
                           piece.from < EndOf(m) /\ EndOf(m) < piece.to =>
                             \E offset \in piece.missed : InMarker(m, offset)
    BY <1>7 DEF FramingInv, OnlyCutMarkersAreMissed, InMarker
  <2> QED
    BY <1>10, <1>11 DEF CutByRead
<1>13. StartsAtMessage' /\ OnlyCutSearched'
  BY <1>1, <1>2 DEF StartsAtMessage, OnlyCutSearched
<1> QED
  BY <1>8, <1>12, <1>13 DEF FramingInv

LEMMA FramingStep == ASSUME FramingInv, [Next]_vars PROVE FramingInv'
<1> USE DEF buffer
<1>t. /\ TypeOK /\ StartsAtMessage /\ OnlyCutSearched /\ OnlyCutMarkersAreMissed
      /\ Length \in Nat /\ MessageLen \in Nat /\ MarkerLen \in Nat \ {0} /\ Messages \in Nat
      /\ MaxCancels \in Nat
  BY EndsInStream, StreamAssumption DEF FramingInv
<1>d. ASSUME UNCHANGED <<start, delivered>>
      PROVE  StartsAtMessage' /\ OnlyCutMarkersAreMissed'
  BY <1>t, <1>d DEF StartsAtMessage, OnlyCutMarkersAreMissed, InMarker
<1>1. CASE Write \/ End
  <2>1. TypeOK'
    <3>1. stream' \in {"open", "closed", "broken"} /\ sent' \in 0 .. Length /\ sent <= sent'
      BY <1>1, <1>t DEF Write, End, TypeOK
    <3>2. UNCHANGED <<start, end, searched, pc, delivered, missed, cancels>>
      BY <1>1 DEF Write, End
    <3>3. end \in 0 .. sent'
      BY <1>t, <3>1 DEF TypeOK
    <3> QED
      BY <1>t, <3>1, <3>2, <3>3 DEF TypeOK
  <2>2. OnlyCutSearched'
    BY <1>1, <1>t DEF Write, End, OnlyCutSearched, CutByRead, InMarker
  <2> QED
    BY <1>1, <1>d, <2>1, <2>2 DEF Write, End, FramingInv
<1>2. CASE Recv
  <2>1. TypeOK'
    BY <1>2, <1>t DEF Recv, TypeOK
  <2>2. OnlyCutSearched'
    <3> SUFFICES ASSUME NEW k \in 1 .. Messages, start < EndOf(k), EndOf(k) - MarkerLen < start
                 PROVE  FALSE
      BY <1>2 DEF Recv, OnlyCutSearched
    <3>1. PICK j \in 0 .. Messages : start = EndOf(j)
      BY <1>t DEF StartsAtMessage
    <3>2. EndOf(k) \in Nat /\ start \in Nat
      BY <3>1, EndsInStream
    <3>3. CASE j < k
      <4>1. EndOf(j) + MessageLen <= EndOf(k) /\ MarkerLen <= MessageLen
        BY <1>t, <3>3, EndsApart, EndsInStream
      <4> QED
        BY <1>t, <3>1, <3>2, <4>1
    <3>4. CASE k < j
      <4>1. EndOf(k) + MessageLen <= EndOf(j)
        BY <1>t, <3>4, EndsApart
      <4> QED
        BY <1>t, <3>1, <3>2, <4>1
    <3>5. CASE k = j
      BY <3>1, <3>2, <3>5
    <3> QED
      BY <1>t, <3>3, <3>4, <3>5
  <2> QED
    BY <1>2, <1>d, <2>1, <2>2 DEF Recv, FramingInv
<1>3. CASE Split
  BY <1>3, SplitStep
<1>4. CASE NotFound
  <2>1. TypeOK'
    BY <1>4, <1>t DEF NotFound, TypeOK
  <2>2. OnlyCutSearched'
    <3> SUFFICES ASSUME NEW k \in 1 .. Messages, start < EndOf(k), EndOf(k) - MarkerLen < end
                 PROVE  CutByRead(k)'
      BY <1>4 DEF NotFound, OnlyCutSearched
    <3>1. /\ pc = "searching" /\ missed' = missed \cup {end} /\ k \notin MarkersFrom(searched)
          /\ end \in Nat /\ searched \in Nat /\ EndOf(k) \in Nat
      BY <1>4, <1>t, EndsInStream DEF NotFound, TypeOK
    <3>2. CASE EndOf(k) - MarkerLen < searched
      BY <1>t, <3>1, <3>2 DEF OnlyCutSearched, CutByRead, InMarker
    <3>3. CASE searched <= EndOf(k) - MarkerLen
      <4>1. end < EndOf(k)
        BY <1>t, <3>1, <3>3 DEF MarkersFrom
      <4> QED
        BY <3>1, <4>1 DEF CutByRead, InMarker
    <3> QED
      BY <1>t, <3>1, <3>2, <3>3
  <2> QED
    BY <1>4, <1>d, <2>1, <2>2 DEF NotFound, FramingInv
<1>5. CASE Read \/ ReadNothing \/ ReadFails \/ Cancel
  <2>1. TypeOK'
    <3>1. /\ UNCHANGED <<stream, sent, start, searched, delivered, missed>>
          /\ pc = "reading" /\ pc' \in {"idle", "searching"}
      BY <1>5 DEF Read, ReadNothing, ReadFails, Cancel
    <3>2. end' \in 0 .. sent /\ end <= end' /\ cancels' \in 0 .. MaxCancels
      BY <1>5, <1>t DEF Read, ReadNothing, ReadFails, Cancel, TypeOK
    <3>3. start \in 0 .. end' /\ searched \in 0 .. end' /\ searched >= start
      BY <1>t, <3>1, <3>2 DEF TypeOK
    <3> QED
      BY <1>t, <3>1, <3>2, <3>3 DEF TypeOK
  <2>2. OnlyCutSearched'
    BY <1>5, <1>t
       DEF Read, ReadNothing, ReadFails, Cancel, OnlyCutSearched, CutByRead, InMarker
  <2> QED
    BY <1>5, <1>d, <2>1, <2>2 DEF Read, ReadNothing, ReadFails, Cancel, FramingInv
<1>6. CASE UNCHANGED vars
  <2>1. TypeOK'
    BY <1>6, <1>t DEF vars, TypeOK
  <2>2. OnlyCutSearched'
    BY <1>6, <1>t DEF vars, OnlyCutSearched, CutByRead, InMarker
  <2> QED
    BY <1>6, <1>d, <2>1, <2>2 DEF vars, FramingInv
<1> QED
  BY <1>1, <1>2, <1>3, <1>4, <1>5, <1>6 DEF Next, Receiver

LEMMA FramingAlways == Spec => []FramingInv
BY FramingInit, FramingStep, PTL DEF Spec

(* What recv() searches lies in its buffer, and pieces are pieces of the   *)
(* stream (junos_local.rs:119-133).                                        *)
THEOREM FramingTyped == Spec => []TypeOK
<1>1. FramingInv => TypeOK
  BY DEF FramingInv
<1> QED
  BY <1>1, FramingAlways, PTL

(* recv() returns whole messages, one by one but for markers that one of   *)
(* its own reads has cut, for any lengths and any division of the stream   *)
(* into reads, with calls dropped between two reads                        *)
(* (junos_local.rs:117-133, tls.rs:111-127).                               *)
THEOREM MissesOnlyCutMarkers == Spec => []OnlyCutMarkersAreMissed
<1>1. FramingInv => OnlyCutMarkersAreMissed
  BY DEF FramingInv
<1> QED
  BY <1>1, FramingAlways, PTL

=============================================================================
