---------------------------- MODULE DaemonProofs ----------------------------
(***************************************************************************)
(* What holds of the daemon's timer for every period, shorter than the     *)
(* minimum backoff or longer, and for every minimum backoff.               *)
(***************************************************************************)
EXTENDS Daemon, FiniteSetTheorems, TLAPS

(* The wait that the next failure asks for is longer than the period only  *)
(* while no job has failed in a row: MIN_BACKOFF is then not yet cut off.  *)
WaitsInRange ==
  /\ backoff > period => backoff = MinBackoff /\ failures = 0
  /\ LongerOnlyAfterFirstFailure

LEMMA TypingInit == Init => TypeOK /\ WaitsInRange
BY TimesAssumption DEF Init, TypeOK, WaitsInRange, LongestWait, Signals,
  LongerOnlyAfterFirstFailure

(* One step of the daemon keeps its timer and its backoff in range. *)
LEMMA TypingStep == TypeOK /\ WaitsInRange /\ [Next]_vars => TypeOK' /\ WaitsInRange'
<1> SUFFICES ASSUME TypeOK, WaitsInRange, [Next]_vars PROVE TypeOK' /\ WaitsInRange'
    OBVIOUS
<1> USE TimesAssumption
    DEF TypeOK, WaitsInRange, LongerOnlyAfterFirstFailure, LongestWait, Signals
<1>1. ASSUME NEW s \in Signals, Signal(s) PROVE TypeOK' /\ WaitsInRange'
  BY <1>1 DEF Signal
<1>2. ASSUME NEW s \in Signals, Exit(s) PROVE TypeOK' /\ WaitsInRange'
  BY <1>2 DEF Exit
<1>3. CASE TimePasses
  BY <1>3 DEF TimePasses
<1>4. CASE HangUp
  BY <1>4 DEF HangUp
<1>5. CASE StartJob
  BY <1>5 DEF StartJob
<1>6. CASE JobSucceeds
  BY <1>6 DEF JobSucceeds
<1>7. CASE JobFails
  BY <1>7 DEF JobFails, Least
<1>8. CASE UNCHANGED vars
  BY <1>8 DEF vars
<1> QED
  BY <1>1, <1>2, <1>3, <1>4, <1>5, <1>6, <1>7, <1>8 DEF Next, JobEnds

LEMMA Ranges == Spec => [](TypeOK /\ WaitsInRange)
BY TypingInit, TypingStep, PTL DEF Spec

(* The daemon's variables keep their types; the wait never exceeds the     *)
(* longer of the period and MIN_BACKOFF.                                   *)
THEOREM DaemonTyped == Spec => []TypeOK
BY Ranges, PTL

(* No wait for the next job is longer than the period, whatever it is, but *)
(* for MIN_BACKOFF after the first failure in a row (task.rs:134, 141,     *)
(* 166-176).                                                               *)
THEOREM WaitsBounded == Spec => []LongerOnlyAfterFirstFailure
BY Ranges, PTL DEF WaitsInRange

----------------------------------------------------------------------------
(* The provers know powers of two only as numbers of subsets: there are    *)
(* twice as many subsets of 1 .. n + 1 as of 1 .. n.                       *)
LEMMA PowerOfTwo ==
  ASSUME NEW n \in Nat
  PROVE  2 ^ n \in Nat /\ 2 ^ (n + 1) = 2 * 2 ^ n
<1> DEFINE A == SUBSET (1 .. n)
           B == {T \cup {n + 1} : T \in A}
<1>1. ASSUME NEW k \in Nat
      PROVE  /\ IsFiniteSet(SUBSET (1 .. k)) /\ Cardinality(SUBSET (1 .. k)) = 2 ^ k
             /\ 2 ^ k \in Nat
  <2>1. IsFiniteSet(1 .. k) /\ Cardinality(1 .. k) = k
    BY FS_Interval
  <2>2. IsFiniteSet(SUBSET (1 .. k)) /\ Cardinality(SUBSET (1 .. k)) = 2 ^ k
    BY <2>1, FS_SUBSET
  <2> QED
    BY <2>2, FS_CardinalityType
<1>2. IsFiniteSet(B) /\ Cardinality(B) = Cardinality(A)
  <2> DEFINE g == [T \in A |-> T \cup {n + 1}]
  <2>1. \A T \in A : n + 1 \notin T
    OBVIOUS
  <2>2. \A T, U \in A : g[T] = g[U] => T = U
    BY <2>1
  <2>3. g \in [A -> B] /\ \A b \in B : \E T \in A : g[T] = b
    OBVIOUS
  <2> HIDE DEF g, A, B
  <2>4. g \in Injection(A, B)
    BY <2>2, <2>3 DEF Injection, IsInjective
  <2>5. g \in Bijection(A, B)
    BY <2>3, <2>4 DEF Bijection, Surjection
  <2>6. ExistsBijection(A, B)
    BY <2>5 DEF ExistsBijection
  <2>7. IsFiniteSet(A)
    BY <1>1 DEF A
  <2> QED
    BY <2>6, <2>7, FS_Bijection
<1>3. SUBSET (1 .. n + 1) = A \cup B
  <2>1. ASSUME NEW T \in SUBSET (1 .. n + 1) PROVE T \in A \cup B
    <3>1. T \ {n + 1} \in A
      OBVIOUS
    <3>2. CASE n + 1 \in T
      <4>1. T = (T \ {n + 1}) \cup {n + 1}
        BY <3>2
      <4> QED
        BY <3>1, <4>1
    <3>3. CASE n + 1 \notin T
      BY <3>1, <3>3
    <3> QED
      BY <3>2, <3>3
  <2>2. A \cup B \subseteq SUBSET (1 .. n + 1)
    <3>1. 1 .. n \subseteq 1 .. n + 1 /\ n + 1 \in 1 .. n + 1
      OBVIOUS
    <3> QED
      BY <3>1
  <2>3. SUBSET (1 .. n + 1) \subseteq A \cup B
    BY <2>1
  <2> HIDE DEF A, B
  <2> QED
    BY <2>2, <2>3
<1>4. A \cap B = {}
  OBVIOUS
<1>5. Cardinality(A \cup B) = Cardinality(A) + Cardinality(B)
  <2>1. Cardinality(A \cup B) = Cardinality(A) + Cardinality(B) - Cardinality(A \cap B)
    BY <1>1, <1>2, FS_Union
  <2>2. Cardinality(A \cap B) = 0
    BY <1>4, FS_EmptySet
  <2>3. Cardinality(A) \in Nat /\ Cardinality(B) \in Nat
    BY <1>1, <1>2
  <2> QED
    BY <2>1, <2>2, <2>3
<1>6. Cardinality(A) = 2 ^ n /\ 2 ^ n \in Nat
  BY <1>1
<1>7. Cardinality(A \cup B) = 2 ^ (n + 1)
  <2>1. n + 1 \in Nat
    OBVIOUS
  <2>2. Cardinality(SUBSET (1 .. n + 1)) = 2 ^ (n + 1)
    BY <1>1, <2>1
  <2> QED
    BY <1>3, <2>2, Zenon
<1> QED
  BY <1>2, <1>5, <1>6, <1>7

LEMMA BackoffStep ==
  ASSUME TypeOK, BackoffIsExponential, [Next]_vars
  PROVE  BackoffIsExponential'
<1> USE TimesAssumption DEF BackoffIsExponential
<1>1. CASE JobSucceeds
  BY <1>1 DEF JobSucceeds
<1>2. CASE JobFails
  <2> SUFFICES ASSUME failures' < MaxRun
               PROVE  backoff' = IF failures' = 0 THEN MinBackoff
                                 ELSE Least(period, MinBackoff * 2 ^ failures')
    BY <1>2 DEF JobFails
  <2>1. /\ failures \in Nat /\ failures < MaxRun /\ failures' = failures + 1
        /\ backoff' = Least(period, 2 * backoff)
    BY <1>2 DEF JobFails, Least, TypeOK
  <2>2. CASE failures = 0
    <3>1. 2 ^ failures' = 2
      BY <2>1, <2>2
    <3> QED
      BY <2>1, <2>2, <3>1
  <2>3. CASE failures # 0
    <3>1. PICK p \in Nat : p = MinBackoff * 2 ^ failures
      BY <2>1, PowerOfTwo
    <3>2. 2 ^ failures' = 2 * 2 ^ failures /\ 2 ^ failures \in Nat
      BY <2>1, PowerOfTwo
    <3>3. \A x \in Nat : MinBackoff * (2 * x) = 2 * (MinBackoff * x)
      OBVIOUS
    <3>4. MinBackoff * 2 ^ failures' = 2 * p
      BY <3>1, <3>2, <3>3
    <3>5. Least(period, 2 * Least(period, p)) = Least(period, 2 * p)
      BY DEF Least, TypeOK
    <3> QED
      BY <2>1, <2>3, <3>1, <3>4, <3>5
  <2> QED
    BY <2>2, <2>3
<1>3. ASSUME NEW s \in Signals, Signal(s) \/ Exit(s) PROVE BackoffIsExponential'
  BY <1>3 DEF Signal, Exit
<1>4. CASE TimePasses \/ HangUp \/ StartJob
  BY <1>4 DEF TimePasses, HangUp, StartJob
<1>5. CASE UNCHANGED vars
  BY <1>5 DEF vars
<1> QED
  BY <1>1, <1>2, <1>3, <1>4, <1>5 DEF Next, JobEnds

(* The wait after the n-th failure in a row is MIN_BACKOFF doubled n - 1   *)
(* times, but no longer than the period; the bound MaxRun is any number    *)
(* (task.rs:141, 168, 172-174).                                            *)
THEOREM BackoffExponential == Spec => []BackoffIsExponential
<1>1. Init => BackoffIsExponential
  BY DEF Init, BackoffIsExponential
<1> QED
  BY <1>1, BackoffStep, DaemonTyped, PTL DEF Spec

=============================================================================
