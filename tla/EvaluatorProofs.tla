-------------------------- MODULE EvaluatorProofs ---------------------------
(***************************************************************************)
(* Proofs about Evaluator, for any registry whose filter-sets have a       *)
(* meaning, any candidates, expressions and number of errors.              *)
(***************************************************************************)
EXTENDS Evaluator, SequenceTheorems, WellFoundedInduction, TLAPS

----------------------------------------------------------------------------
(* Sets of numbers, sequences and stacks. *)

(* A set of numbers that is not empty has a least member.  The proofs by   *)
(* induction below are proofs that a set of counterexamples has none.      *)
LEMMA LeastMember ==
  ASSUME NEW Q \in SUBSET Nat, Q # {}
  PROVE  \E m \in Q : \A n \in Q : m <= n
<1> DEFINE Less == {p \in Nat \X Nat : p[1] < p[2]}
<1>1. IsWellFoundedOn(Less, Nat)
  BY NatLessThanWellFounded DEF OpToRel
<1>2. \E m \in Q : \A n \in Q : <<n, m>> \notin Less
  <2> HIDE DEF Less
  <2> QED
    BY <1>1, WFMin
<1>3. \A m, n \in Nat : <<n, m>> \notin Less => m <= n
  OBVIOUS
<1> QED
  BY <1>2, <1>3

(* A set of numbers that has 0 and with each the next one has all.         *)
LEMMA UpTo ==
  ASSUME NEW n \in Nat, NEW Q \in SUBSET (0 .. n), 0 \in Q,
         \A i \in 1 .. n : i - 1 \in Q => i \in Q
  PROVE  Q = 0 .. n
<1> SUFFICES ASSUME Q # 0 .. n PROVE FALSE
  OBVIOUS
<1>1. PICK m \in (0 .. n) \ Q : \A i \in (0 .. n) \ Q : m <= i
  BY LeastMember, (0 .. n) \ Q \in SUBSET Nat
<1>2. m # 0 /\ m \in 1 .. n
  OBVIOUS
<1>3. m - 1 \in Q
  BY <1>1, <1>2
<1> QED
  BY <1>2, <1>3

(* The values a stack holds.                                               *)
Stack == Seq(SUBSET AnyPrefix)

(* A name stands for prefixes.                                             *)
LEMMA MeaningTyped ==
  ASSUME NEW t \in Terms, t.op \notin Operators, t.op # "filter-set"
  PROVE  Meaning(t) \in SUBSET AnyPrefix
<1>1. CASE t.op = "as-set"
  <2>1. t.name \in DOMAIN Members
    BY <1>1 DEF Terms, Operators
  <2>2. \A as \in Members[t.name] : RoutesOf(as) \subseteq AnyPrefix
    BY <2>1, RegistryAssumption DEF RoutesOf, Queries, Term
  <2>3. Meaning(t) = UNION {RoutesOf(as) : as \in Members[t.name]}
    BY <1>1 DEF Meaning
  <2> QED
    BY <2>2, <2>3
<1>2. CASE t.op = "aut-num"
  <2>1. t.name \in AutNums /\ Meaning(t) = RoutesOf(t.name)
    BY <1>2 DEF Terms, Operators, Meaning
  <2> QED
    BY <2>1, RegistryAssumption DEF RoutesOf, Queries, Term
<1>3. CASE t.op = "route-set"
  <2>1. t \in Queries /\ Meaning(t) = Routes[t]
    BY <1>3 DEF Terms, Operators, Meaning, Queries
  <2> QED
    BY <2>1, RegistryAssumption
<1>4. CASE t.op = "peer-as"
  BY <1>4 DEF Meaning
<1> QED
  BY <1>1, <1>2, <1>3, <1>4 DEF Terms, Operators

LEMMA Depth ==
  ASSUME NEW s \in Stack
  PROVE  Len(s) \in Nat /\ (s = <<>> <=> Len(s) = 0)
BY EmptySeq DEF Stack

(* A sequence with one more element in front, and a stack.                 *)
LEMMA Cons ==
  ASSUME NEW S, NEW x \in S, NEW s \in Seq(S)
  PROVE  /\ <<x>> \o s \in Seq(S) /\ Len(<<x>> \o s) = Len(s) + 1
         /\ Head(<<x>> \o s) = x /\ Tail(<<x>> \o s) = s
         /\ <<x>> \o s # <<>> /\ (<<x>> \o s)[1] = x
         /\ \A i \in 1 .. Len(s) : (<<x>> \o s)[i + 1] = s[i]
<1>1. <<x>> \in Seq(S) /\ Len(<<x>>) = 1 /\ <<x>>[1] = x /\ Len(s) \in Nat
  OBVIOUS
<1> DEFINE u == <<x>> \o s
<1>2. /\ u \in Seq(S) /\ Len(u) = Len(s) + 1 /\ u[1] = x
      /\ \A i \in 1 .. Len(s) : u[i + 1] = s[i]
  BY <1>1, ConcatProperties
<1> HIDE DEF u
<1>3. u # <<>> /\ Head(u) = x
  BY <1>1, <1>2
<1>4. /\ Tail(u) \in Seq(S) /\ Len(Tail(u)) = Len(s)
      /\ \A i \in 1 .. Len(s) : Tail(u)[i] = s[i]
  BY <1>1, <1>2, <1>3, HeadTailProperties
<1>5. Tail(u) = s
  BY <1>4, SeqEqual
<1> QED
  BY <1>2, <1>3, <1>5 DEF u

LEMMA Pushed ==
  ASSUME NEW x \in SUBSET AnyPrefix, NEW s \in Stack
  PROVE  /\ <<x>> \o s \in Stack /\ Len(<<x>> \o s) = Len(s) + 1
         /\ Head(<<x>> \o s) = x /\ Tail(<<x>> \o s) = s
         /\ <<x>> \o s # <<>> /\ (<<x>> \o s)[1] = x
         /\ \A i \in 1 .. Len(s) : (<<x>> \o s)[i + 1] = s[i]
<1> DEFINE S == SUBSET AnyPrefix
<1>1. x \in S /\ s \in Seq(S) /\ Stack = Seq(S)
  BY DEF Stack
<1> HIDE DEF S
<1> QED
  BY <1>1, Cons

(* What is below the top of a stack.                                       *)
LEMMA Popped ==
  ASSUME NEW s \in Stack, s # <<>>
  PROVE  /\ Tail(s) \in Stack /\ Len(Tail(s)) = Len(s) - 1 /\ Len(s) \in Nat \ {0}
         /\ Head(s) \in SUBSET AnyPrefix /\ Head(s) = s[1] /\ s[1] \in SUBSET AnyPrefix
         /\ \A i \in 1 .. Len(s) - 1 : Tail(s)[i] = s[i + 1]
         /\ s = <<Head(s)>> \o Tail(s)
<1>1. /\ Tail(s) \in Stack /\ Len(Tail(s)) = Len(s) - 1 /\ Len(s) \in Nat \ {0}
      /\ Head(s) \in SUBSET AnyPrefix /\ Head(s) = s[1]
      /\ \A i \in 1 .. Len(s) - 1 : Tail(s)[i] = s[i + 1]
  BY HeadTailProperties, EmptySeq DEF Stack
<1>2. s = <<Head(s)>> \o Tail(s)
  <2> DEFINE u == <<Head(s)>> \o Tail(s)
  <2>1. u \in Stack /\ Len(u) = Len(s) /\ u[1] = s[1]
        /\ \A i \in 1 .. Len(s) - 1 : u[i + 1] = s[i + 1]
    BY <1>1, Pushed
  <2>2. \A i \in 1 .. Len(s) : u[i] = s[i]
    <3> SUFFICES ASSUME NEW i \in 1 .. Len(s), i # 1 PROVE u[i] = s[i]
      BY <2>1
    <3>1. i - 1 \in 1 .. Len(s) - 1 /\ (i - 1) + 1 = i
      BY <1>1
    <3> QED
      BY <2>1, <3>1
  <2> QED
    BY <2>1, <2>2, SeqEqual DEF Stack
<1> QED
  BY <1>1, <1>2

(* What follows a stack follows its tail.                                  *)
LEMMA TailOfConcat ==
  ASSUME NEW s \in Stack, NEW u \in Stack, s # <<>>
  PROVE  Tail(s \o u) = Tail(s) \o u
<1>1. s = <<Head(s)>> \o Tail(s) /\ Head(s) \in SUBSET AnyPrefix /\ Tail(s) \in Stack
  BY Popped
<1>2. <<Head(s)>> \in Stack
  BY <1>1 DEF Stack
<1>3. s \o u = <<Head(s)>> \o (Tail(s) \o u)
  BY <1>1, <1>2, ConcatAssociative DEF Stack
<1>4. Tail(s) \o u \in Stack
  BY <1>1, ConcatProperties DEF Stack
<1> QED
  BY <1>1, <1>3, <1>4, Pushed

(* A term that has its operands takes them from the stack and leaves one   *)
(* value.                                                                  *)
LEMMA AfterTyped ==
  ASSUME NEW t \in Terms, NEW F \in FilterSetValues, NEW s \in Stack, Arity(t.op) <= Len(s)
  PROVE  /\ StackAfter(s, t, F) \in Stack
         /\ Len(StackAfter(s, t, F)) = Len(s) - Arity(t.op) + 1
<1>0. Len(s) \in Nat
  BY DEF Stack
<1>1. CASE t.op \in {"and", "or"}
  <2>1. Len(s) >= 2 /\ s # <<>>
    BY <1>0, <1>1 DEF Arity
  <2>2. Tail(s) \in Stack /\ Len(Tail(s)) = Len(s) - 1 /\ Tail(s) # <<>>
    <3>1. Tail(s) \in Stack /\ Len(Tail(s)) = Len(s) - 1
      BY <2>1, Popped
    <3>2. Len(Tail(s)) # 0
      BY <3>1, <2>1, <1>0
    <3>3. Tail(s) # <<>>
      BY <3>1, <3>2, Depth
    <3> QED
      BY <3>1, <3>3
  <2>3. Tail(Tail(s)) \in Stack /\ Len(Tail(Tail(s))) = Len(s) - 2
    <3>1. Tail(Tail(s)) \in Stack /\ Len(Tail(Tail(s))) = Len(Tail(s)) - 1
      BY <2>2, Popped
    <3> QED
      BY <3>1, <2>2, <1>0
  <2>4. s[1] \in SUBSET AnyPrefix /\ s[2] \in SUBSET AnyPrefix
    BY <2>1, <1>0 DEF Stack
  <2>5. \E x \in SUBSET AnyPrefix : StackAfter(s, t, F) = <<x>> \o Tail(Tail(s))
    <3>1. CASE t.op = "and"
      BY <3>1, <2>4 DEF StackAfter, Applied, Operators
    <3>2. CASE t.op = "or"
      BY <3>2, <2>4 DEF StackAfter, Applied, Operators
    <3> QED
      BY <1>1, <3>1, <3>2
  <2>6. StackAfter(s, t, F) \in Stack /\ Len(StackAfter(s, t, F)) = Len(Tail(Tail(s))) + 1
    <3>1. PICK x \in SUBSET AnyPrefix : StackAfter(s, t, F) = <<x>> \o Tail(Tail(s))
      BY <2>5
    <3> QED
      BY <3>1, <2>3, Pushed
  <2> QED
    BY <1>0, <1>1, <2>1, <2>3, <2>6 DEF Arity
<1>2. CASE t.op = "not"
  <2>1. s # <<>> /\ StackAfter(s, t, F) = <<AnyPrefix \ s[1]>> \o Tail(s) /\ Arity(t.op) = 1
    BY <1>0, <1>2 DEF Arity, StackAfter, Applied, Operators
  <2>2. Tail(s) \in Stack /\ Len(Tail(s)) = Len(s) - 1
    BY <2>1, Popped
  <2>3. AnyPrefix \ s[1] \in SUBSET AnyPrefix
    OBVIOUS
  <2>4. StackAfter(s, t, F) \in Stack /\ Len(StackAfter(s, t, F)) = Len(Tail(s)) + 1
    BY <2>1, <2>2, <2>3, Pushed
  <2> QED
    BY <1>0, <2>1, <2>2, <2>4
<1>3. CASE t.op \notin {"and", "or", "not"}
  <2>1. Arity(t.op) = 0
    BY <1>3 DEF Arity
  <2>2. \E x \in SUBSET AnyPrefix : StackAfter(s, t, F) = <<x>> \o s
    <3>1. CASE t.op = "any"
      BY <3>1 DEF StackAfter, Applied, Operators
    <3>2. CASE t.op = "filter-set"
      <4>1. t.name \in DOMAIN Filters
        BY <3>2 DEF Terms, Operators
      <4>2. F[t.name] \in SUBSET AnyPrefix
        BY <4>1 DEF FilterSetValues
      <4> QED
        BY <3>2, <4>2 DEF StackAfter, Operators
    <3>3. CASE t.op \notin Operators /\ t.op # "filter-set"
      BY <3>3, MeaningTyped DEF StackAfter
    <3> QED
      BY <1>3, <3>1, <3>2, <3>3 DEF Operators
  <2>3. StackAfter(s, t, F) \in Stack /\ Len(StackAfter(s, t, F)) = Len(s) + 1
    BY <2>2, Pushed
  <2> QED
    BY <1>0, <2>1, <2>3
<1> QED
  BY <1>1, <1>2, <1>3

(* What is below its operands makes no difference to a term, and stays.    *)
LEMMA AfterBelow ==
  ASSUME NEW t \in Terms, NEW F \in FilterSetValues, NEW s \in Stack, NEW u \in Stack,
         Arity(t.op) <= Len(s)
  PROVE  StackAfter(s \o u, t, F) = StackAfter(s, t, F) \o u
<1>n. Len(s) \in Nat
  BY Depth
<1>0. s \o u \in Stack
  BY ConcatProperties DEF Stack
<1>a. ASSUME NEW x \in SUBSET AnyPrefix, NEW r \in Stack PROVE <<x>> \o (r \o u) = (<<x>> \o r) \o u
  <2>1. <<x>> \in Stack
    BY DEF Stack
  <2> QED
    BY <2>1, ConcatAssociative DEF Stack
<1>1. CASE t.op \in {"and", "or"}
  <2>1. Len(s) >= 2 /\ s # <<>>
    BY <1>n, <1>1 DEF Arity
  <2>2. Tail(s) \in Stack /\ Tail(s) # <<>>
    <3>1. Tail(s) \in Stack /\ Len(Tail(s)) = Len(s) - 1
      BY <2>1, Popped
    <3>2. Len(Tail(s)) # 0
      BY <3>1, <2>1, <1>n
    <3>3. Tail(s) # <<>>
      BY <3>1, <3>2, Depth
    <3> QED
      BY <3>1, <3>3
  <2>3. Tail(Tail(s)) \in Stack
    BY <2>2, Popped
  <2>4. s[1] \in SUBSET AnyPrefix /\ s[2] \in SUBSET AnyPrefix
    BY <2>1, <1>n DEF Stack
  <2>5. (s \o u)[1] = s[1] /\ (s \o u)[2] = s[2]
    BY <2>1, <1>n, ConcatProperties DEF Stack
  <2>6. Tail(Tail(s \o u)) = Tail(Tail(s)) \o u
    BY <2>1, <2>2, TailOfConcat
  <2>7. CASE t.op = "and"
    <3>1. /\ StackAfter(s \o u, t, F) = <<s[1] \cap s[2]>> \o (Tail(Tail(s)) \o u)
          /\ StackAfter(s, t, F) = <<s[1] \cap s[2]>> \o Tail(Tail(s))
      BY <2>5, <2>6, <2>7 DEF StackAfter, Applied, Operators
    <3>2. s[1] \cap s[2] \in SUBSET AnyPrefix
      BY <2>4
    <3> QED
      BY <3>1, <3>2, <1>a, <2>3
  <2>8. CASE t.op = "or"
    <3>1. /\ StackAfter(s \o u, t, F) = <<s[1] \cup s[2]>> \o (Tail(Tail(s)) \o u)
          /\ StackAfter(s, t, F) = <<s[1] \cup s[2]>> \o Tail(Tail(s))
      BY <2>5, <2>6, <2>8 DEF StackAfter, Applied, Operators
    <3>2. s[1] \cup s[2] \in SUBSET AnyPrefix
      BY <2>4
    <3> QED
      BY <3>1, <3>2, <1>a, <2>3
  <2> QED
    BY <1>1, <2>7, <2>8
<1>2. CASE t.op = "not"
  <2>1. s # <<>> /\ (s \o u)[1] = s[1] /\ Tail(s \o u) = Tail(s) \o u
    <3>1. s # <<>> /\ 1 \in 1 .. Len(s)
      BY <1>n, <1>2 DEF Arity
    <3>2. (s \o u)[1] = s[1]
      BY <3>1, <1>n, ConcatProperties DEF Stack
    <3> QED
      BY <3>1, <3>2, TailOfConcat
  <2>2. /\ StackAfter(s \o u, t, F) = <<AnyPrefix \ s[1]>> \o (Tail(s) \o u)
        /\ StackAfter(s, t, F) = <<AnyPrefix \ s[1]>> \o Tail(s)
    BY <2>1, <1>2 DEF StackAfter, Applied, Operators
  <2>3. Tail(s) \in Stack
    BY <2>1, Popped
  <2> QED
    BY <2>2, <2>3, <1>a
<1>3. CASE t.op = "any"
  <2>1. /\ StackAfter(s \o u, t, F) = <<AnyPrefix>> \o (s \o u)
        /\ StackAfter(s, t, F) = <<AnyPrefix>> \o s
    BY <1>3 DEF StackAfter, Applied, Operators
  <2> QED
    BY <2>1, <1>a
<1>4. CASE t.op = "filter-set"
  <2>1. t.name \in DOMAIN Filters
    BY <1>4 DEF Terms, Operators
  <2>2. F[t.name] \in SUBSET AnyPrefix
    BY <2>1 DEF FilterSetValues
  <2>3. \A r \in Stack : StackAfter(r, t, F) = <<F[t.name]>> \o r
    BY <1>4 DEF StackAfter, Operators
  <2> QED
    BY <2>2, <2>3, <1>a, <1>0
<1>5. CASE t.op \notin Operators /\ t.op # "filter-set"
  <2>1. \A r \in Stack : StackAfter(r, t, F) = <<Meaning(t)>> \o r
    BY <1>5 DEF StackAfter
  <2> QED
    BY <2>1, <1>5, MeaningTyped, <1>a, <1>0
<1> QED
  BY <1>1, <1>2, <1>3, <1>4, <1>5 DEF Operators

(* The recursive function that Stacks is satisfies its equation: for each  *)
(* number of terms there is a function that does, so the one chosen for    *)
(* all of them does too.                                                   *)
LEMMA StacksDefined ==
  ASSUME NEW terms \in Seq(Terms), NEW F
  PROVE  Stacks(terms, F) = [i \in 0 .. Len(terms) |->
           IF i = 0 THEN <<>> ELSE StackAfter(Stacks(terms, F)[i - 1], terms[i], F)]
<1> DEFINE n == Len(terms)
           Step(s, i) == StackAfter(s, terms[i], F)
           Upto(g, k) == g = [i \in 0 .. k |-> IF i = 0 THEN <<>> ELSE Step(g[i - 1], i)]
           Q == {k \in 0 .. n : \E g : Upto(g, k)}
<1>0. n \in Nat
  OBVIOUS
<1>1. Stacks(terms, F) = CHOOSE g : Upto(g, n)
  BY DEF Stacks
<1> HIDE DEF n, Step
<1>2. 0 \in Q
  <2> DEFINE g0 == [i \in 0 .. 0 |-> <<>>]
  <2>1. Upto(g0, 0)
    OBVIOUS
  <2>2. \E g : Upto(g, 0)
    <3> HIDE DEF g0, Upto
    <3> QED
      BY <2>1
  <2> HIDE DEF Upto
  <2> QED
    BY <1>0, <2>2
<1>3. ASSUME NEW k \in 1 .. n, k - 1 \in Q PROVE k \in Q
  <2>1. PICK g : Upto(g, k - 1)
    BY <1>3
  <2> DEFINE h == [i \in 0 .. k |-> IF i = k THEN Step(g[k - 1], k) ELSE g[i]]
  <2>2. ASSUME NEW i \in 0 .. k PROVE h[i] = IF i = 0 THEN <<>> ELSE Step(h[i - 1], i)
    <3>1. CASE i = k
      BY <3>1, <1>0
    <3>2. CASE i # k
      <4>1. i \in 0 .. k - 1 /\ h[i] = g[i]
        BY <3>2, <1>0
      <4>2. i # 0 => h[i - 1] = g[i - 1]
        BY <3>2, <1>0
      <4>3. g[i] = IF i = 0 THEN <<>> ELSE Step(g[i - 1], i)
        BY <2>1, <4>1
      <4> QED
        BY <4>1, <4>2, <4>3
    <3> QED
      BY <3>1, <3>2
  <2>3. Upto(h, k)
    BY <2>2
  <2>4. \E u : Upto(u, k)
    <3> HIDE DEF h, Upto
    <3> QED
      BY <2>3
  <2> HIDE DEF Upto
  <2> QED
    BY <1>0, <2>4
<1>4. n \in Q
  <2> HIDE DEF Q
  <2>1. Q \in SUBSET (0 .. n)
    BY DEF Q
  <2> QED
    BY <1>0, <1>2, <1>3, <2>1, UpTo
<1>5. \E g : Upto(g, n)
  BY <1>4
<1>6. Upto(Stacks(terms, F), n)
  <2> HIDE DEF Upto
  <2> QED
    BY <1>1, <1>5
<1> QED
  BY <1>6 DEF n, Step

----------------------------------------------------------------------------
(* The ideal evaluation. *)

(* The filter-sets have values, by the assumption.                         *)
LEMMA FilterSetsTyped == FilterSetIdeal \in FilterSetValues /\ IsMeaning(FilterSetIdeal)
BY MeaningAssumption, Zenon DEF FilterSetIdeal

(* The ideal evaluation: each term, whatever it is, with the value it      *)
(* stands for.  A stack leads to v by terms that have their operands, and  *)
(* leave v and nothing else.                                               *)
After(s, t) == StackAfter(s, t, FilterSetIdeal)

Trace(tr, s, terms, v) ==
  /\ tr \in [0 .. Len(terms) -> Stack]
  /\ tr[0] = s /\ tr[Len(terms)] = <<v>>
  /\ \A i \in 1 .. Len(terms) :
       /\ Arity(terms[i].op) <= Len(tr[i - 1])
       /\ tr[i] = After(tr[i - 1], terms[i])

Leads(s, terms, v) == \E tr : Trace(tr, s, terms, v)

(* The equation of Stacks, for the stack before and the stack after a      *)
(* term.                                                                   *)
LEMMA StacksStep ==
  ASSUME NEW terms \in Seq(Terms), NEW F
  PROVE  /\ Stacks(terms, F) = [i \in 0 .. Len(terms) |-> Stacks(terms, F)[i]]
         /\ Stacks(terms, F)[0] = <<>>
         /\ \A i \in 1 .. Len(terms) :
               Stacks(terms, F)[i] = StackAfter(Stacks(terms, F)[i - 1], terms[i], F)
<1> DEFINE tr == Stacks(terms, F)
           n == Len(terms)
           Entry(i) == IF i = 0 THEN <<>> ELSE StackAfter(tr[i - 1], terms[i], F)
<1>1. tr = [i \in 0 .. n |-> Entry(i)]
  BY StacksDefined
<1>2. Entry(0) = <<>> /\ \A i \in 1 .. n : Entry(i) = StackAfter(tr[i - 1], terms[i], F)
  OBVIOUS
<1>3. 0 \in 0 .. n /\ \A i \in 1 .. n : i \in 0 .. n
  OBVIOUS
<1> HIDE DEF tr, n, Entry
<1>4. \A i \in 0 .. n : tr[i] = Entry(i)
  BY <1>1
<1>5. tr = [i \in 0 .. n |-> tr[i]]
  BY <1>1
<1>6. tr[0] = <<>> /\ \A i \in 1 .. n : tr[i] = StackAfter(tr[i - 1], terms[i], F)
  BY <1>2, <1>3, <1>4
<1> QED
  BY <1>5, <1>6 DEF tr, n

(* A parsed expression never lacks an operand, and it leaves one value.    *)
LEMMA StacksTyped ==
  ASSUME NEW terms, Parsed(terms), NEW F \in FilterSetValues
  PROVE  /\ Stacks(terms, F) \in [0 .. Len(terms) -> Stack]
         /\ \A i \in 1 .. Len(terms) : Arity(terms[i].op) <= Len(Stacks(terms, F)[i - 1])
         /\ Ideal(terms, F) \in SUBSET AnyPrefix
         /\ Stacks(terms, F)[Len(terms)] = <<Ideal(terms, F)>>
<1> DEFINE n == Len(terms)
           tr == Stacks(terms, F)
<1>1. /\ terms \in Seq(Terms) /\ n \in Nat /\ n = Len(terms)
      /\ \A i \in 1 .. n : terms[i] \in Terms
  BY DEF Parsed
<1>2. PICK depth \in [0 .. n -> 0 .. n] :
        /\ depth[0] = 0 /\ depth[n] = 1
        /\ \A i \in 1 .. n : /\ Arity(terms[i].op) <= depth[i - 1]
                             /\ depth[i] = depth[i - 1] - Arity(terms[i].op) + 1
  BY DEF Parsed, Completes
<1>3. /\ tr = [i \in 0 .. n |-> tr[i]]
      /\ tr[0] = <<>>
      /\ \A i \in 1 .. n : tr[i] = StackAfter(tr[i - 1], terms[i], F)
  BY <1>1, StacksStep
<1> HIDE DEF tr, n
<1> DEFINE Q == {i \in 0 .. n : tr[i] \in Stack /\ Len(tr[i]) = depth[i]}
<1>4. 0 \in Q
  <2>1. <<>> \in Stack /\ Len(<<>>) = 0
    BY EmptySeq DEF Stack
  <2> QED
    BY <1>1, <1>2, <1>3, <2>1
<1>5. ASSUME NEW i \in 1 .. n, i - 1 \in Q PROVE i \in Q
  <2>1. tr[i - 1] \in Stack /\ Len(tr[i - 1]) = depth[i - 1] /\ terms[i] \in Terms
    BY <1>1, <1>5
  <2>2. Arity(terms[i].op) <= Len(tr[i - 1])
    BY <1>2, <2>1
  <2>3. /\ StackAfter(tr[i - 1], terms[i], F) \in Stack
        /\ Len(StackAfter(tr[i - 1], terms[i], F)) = Len(tr[i - 1]) - Arity(terms[i].op) + 1
    BY <2>1, <2>2, AfterTyped
  <2>4. tr[i] \in Stack /\ Len(tr[i]) = depth[i]
    BY <1>2, <1>3, <2>1, <2>3
  <2> QED
    BY <2>4
<1>6. Q = 0 .. n
  <2>1. Q \in SUBSET (0 .. n)
    OBVIOUS
  <2> HIDE DEF Q
  <2> QED
    BY <1>1, <1>4, <1>5, <2>1, UpTo
<1>7. \A i \in 0 .. n : tr[i] \in Stack /\ Len(tr[i]) = depth[i]
  BY <1>6
<1>8. tr \in [0 .. n -> Stack]
  BY <1>3, <1>7
<1>9. tr[n] \in Stack /\ Len(tr[n]) = 1
  <2>1. n \in 0 .. n
    BY <1>1
  <2> QED
    BY <1>2, <1>7, <2>1
<1>10. Head(tr[n]) \in SUBSET AnyPrefix /\ tr[n] = <<Head(tr[n])>>
  <2>1. tr[n] # <<>>
    BY <1>9, Depth
  <2>2. Head(tr[n]) = tr[n][1] /\ Head(tr[n]) \in SUBSET AnyPrefix
    BY <1>9, <2>1, Popped
  <2>3. <<Head(tr[n])>> \in Stack
    BY <2>2 DEF Stack
  <2> QED
    BY <1>9, <2>2, <2>3, SeqEqual DEF Stack
<1>11. \A i \in 1 .. n : Arity(terms[i].op) <= Len(tr[i - 1])
  <2>1. ASSUME NEW i \in 1 .. n PROVE Len(tr[i - 1]) = depth[i - 1]
    <3>1. i - 1 \in 0 .. n
      BY <1>1
    <3> QED
      BY <1>7, <3>1
  <2> QED
    BY <1>2, <2>1
<1>12. Ideal(terms, F) = Head(tr[n])
  BY DEF Ideal, tr, n
<1> QED
  BY <1>8, <1>10, <1>11, <1>12 DEF tr, n

(* From the empty stack it leads to what it stands for.                    *)
LEMMA IdealReached ==
  ASSUME NEW terms, Parsed(terms)
  PROVE  Leads(<<>>, terms, Ideal(terms, FilterSetIdeal))
<1> DEFINE tr == Stacks(terms, FilterSetIdeal)
<1>1. /\ tr \in [0 .. Len(terms) -> Stack]
      /\ \A i \in 1 .. Len(terms) : Arity(terms[i].op) <= Len(tr[i - 1])
      /\ tr[Len(terms)] = <<Ideal(terms, FilterSetIdeal)>>
  BY StacksTyped, FilterSetsTyped
<1>2. tr[0] = <<>> /\ \A i \in 1 .. Len(terms) : tr[i] = After(tr[i - 1], terms[i])
  BY StacksStep DEF Parsed, After
<1> HIDE DEF tr
<1>3. Trace(tr, <<>>, terms, Ideal(terms, FilterSetIdeal))
  BY <1>1, <1>2 DEF Trace
<1> QED
  BY <1>3 DEF Leads

LEMMA LeadsDone ==
  ASSUME NEW s, NEW v, Leads(s, <<>>, v)
  PROVE  s = <<v>>
BY EmptySeq DEF Leads, Trace

(* One term of the ideal evaluation.                                       *)
LEMMA LeadsOn ==
  ASSUME NEW s, NEW v, NEW terms \in Seq(Terms), terms # <<>>, Leads(s, terms, v)
  PROVE  /\ Arity(Head(terms).op) <= Len(s)
         /\ s \in Stack
         /\ Leads(After(s, Head(terms)), Tail(terms), v)
<1>1. PICK tr : Trace(tr, s, terms, v)
  BY DEF Leads
<1> DEFINE n == Len(terms)
           rest == Tail(terms)
           tl == [i \in 0 .. n - 1 |-> tr[i + 1]]
<1>2. n \in Nat \ {0} /\ Head(terms) = terms[1] /\ Len(rest) = n - 1
      /\ \A i \in 1 .. n - 1 : rest[i] = terms[i + 1]
  BY HeadTailProperties, EmptySeq
<1>3. /\ tr \in [0 .. n -> Stack] /\ tr[0] = s /\ tr[n] = <<v>>
      /\ \A i \in 1 .. n : Arity(terms[i].op) <= Len(tr[i - 1]) /\ tr[i] = After(tr[i - 1], terms[i])
  BY <1>1 DEF Trace
<1> HIDE DEF n, rest
<1>4. Arity(Head(terms).op) <= Len(s) /\ s \in Stack /\ tr[1] = After(s, Head(terms))
  <2>1. 1 \in 1 .. n /\ 1 - 1 = 0 /\ 0 \in 0 .. n
    BY <1>2
  <2> QED
    BY <1>2, <1>3, <2>1
<1>5. tl \in [0 .. n - 1 -> Stack]
  BY <1>2, <1>3
<1>6. tl[0] = tr[1] /\ tl[n - 1] = <<v>>
  BY <1>2, <1>3
<1>7. ASSUME NEW i \in 1 .. n - 1
      PROVE  Arity(rest[i].op) <= Len(tl[i - 1]) /\ tl[i] = After(tl[i - 1], rest[i])
  <2>1. i + 1 \in 1 .. n /\ (i + 1) - 1 = i /\ i \in 0 .. n - 1 /\ i - 1 \in 0 .. n - 1 /\ (i - 1) + 1 = i
    BY <1>2
  <2>2. tl[i] = tr[i + 1] /\ tl[i - 1] = tr[i] /\ rest[i] = terms[i + 1]
    BY <1>2, <2>1
  <2> QED
    BY <1>3, <2>1, <2>2
<1>8. Trace(tl, After(s, Head(terms)), rest, v)
  <2> HIDE DEF tl
  <2> QED
    BY <1>2, <1>4, <1>5, <1>6, <1>7 DEF Trace
<1> QED
  BY <1>4, <1>8 DEF Leads, rest

(* An expression that takes the place of a value it leads to.              *)
LEMMA LeadsThrough ==
  ASSUME NEW e \in Seq(Terms), NEW rest \in Seq(Terms), NEW s \in Stack,
         NEW w \in SUBSET AnyPrefix, NEW v,
         Leads(<<>>, e, w), Leads(<<w>> \o s, rest, v)
  PROVE  Leads(s, e \o rest, v)
<1>1. PICK t1 : Trace(t1, <<>>, e, w)
  BY DEF Leads
<1>2. PICK t2 : Trace(t2, <<w>> \o s, rest, v)
  BY DEF Leads
<1> DEFINE n == Len(e)
           m == Len(rest)
           all == e \o rest
           tr == [i \in 0 .. n + m |-> IF i <= n THEN t1[i] \o s ELSE t2[i - n]]
<1>3. /\ n \in Nat /\ m \in Nat /\ Len(all) = n + m
      /\ \A i \in 1 .. n + m : all[i] = IF i <= n THEN e[i] ELSE rest[i - n]
      /\ \A i \in 1 .. n : e[i] \in Terms
  BY ConcatProperties
<1>4. /\ t1 \in [0 .. n -> Stack] /\ t1[0] = <<>> /\ t1[n] = <<w>>
      /\ \A i \in 1 .. n : Arity(e[i].op) <= Len(t1[i - 1]) /\ t1[i] = After(t1[i - 1], e[i])
  BY <1>1 DEF Trace
<1>5. /\ t2 \in [0 .. m -> Stack] /\ t2[0] = <<w>> \o s /\ t2[m] = <<v>>
      /\ \A i \in 1 .. m : Arity(rest[i].op) <= Len(t2[i - 1]) /\ t2[i] = After(t2[i - 1], rest[i])
  BY <1>2 DEF Trace
<1> HIDE DEF n, m, all
<1>6. ASSUME NEW i \in 0 .. n
      PROVE  t1[i] \o s \in Stack /\ Len(t1[i] \o s) = Len(t1[i]) + Len(s)
  <2>1. t1[i] \in Stack
    BY <1>4
  <2> QED
    BY <2>1, ConcatProperties DEF Stack
<1>7. tr \in [0 .. n + m -> Stack]
  <2> SUFFICES ASSUME NEW i \in 0 .. n + m PROVE tr[i] \in Stack
    OBVIOUS
  <2>1. CASE i <= n
    BY <1>3, <1>6, <2>1
  <2>2. CASE ~(i <= n)
    BY <1>3, <1>5, <2>2
  <2> QED
    BY <2>1, <2>2
<1>8. tr[0] = s
  <2>1. tr[0] = <<>> \o s
    <3>1. 0 \in 0 .. n + m /\ 0 <= n
      BY <1>3
    <3>2. tr[0] = t1[0] \o s
      BY <3>1
    <3> HIDE DEF tr
    <3> QED
      BY <1>4, <3>2
  <2> QED
    BY <2>1, ConcatEmptySeq DEF Stack
<1>9. \A j \in 0 .. m : tr[n + j] = t2[j]
  <2> SUFFICES ASSUME NEW j \in 0 .. m PROVE tr[n + j] = t2[j]
    OBVIOUS
  <2>1. CASE j = 0
    <3>1. n + j = n /\ n \in 0 .. n + m
      BY <1>3, <2>1
    <3>2. tr[n + j] = t1[n] \o s
      <4>1. tr[n] = t1[n] \o s
        BY <1>3, <3>1
      <4> HIDE DEF tr
      <4> QED
        BY <3>1, <4>1
    <3> QED
      BY <1>4, <1>5, <2>1, <3>2
  <2>2. CASE j # 0
    <3>1. n + j \in 0 .. n + m /\ ~(n + j <= n) /\ (n + j) - n = j
      BY <1>3, <2>2
    <3> QED
      BY <3>1
  <2> QED
    BY <2>1, <2>2
<1>10. tr[n + m] = <<v>>
  <2>1. m \in 0 .. m
    BY <1>3
  <2> HIDE DEF tr
  <2> QED
    BY <1>5, <1>9, <2>1
<1>11. ASSUME NEW i \in 1 .. n + m
       PROVE  Arity(all[i].op) <= Len(tr[i - 1]) /\ tr[i] = After(tr[i - 1], all[i])
  <2>1. CASE i <= n
    <3>1. /\ i \in 1 .. n /\ i \in 0 .. n /\ i - 1 \in 0 .. n /\ i - 1 <= n
          /\ i \in 0 .. n + m /\ i - 1 \in 0 .. n + m
      BY <1>3, <2>1
    <3>2. tr[i] = t1[i] \o s /\ tr[i - 1] = t1[i - 1] \o s /\ all[i] = e[i]
      BY <1>3, <2>1, <3>1
    <3>3. Arity(e[i].op) <= Len(t1[i - 1]) /\ t1[i] = After(t1[i - 1], e[i]) /\ t1[i - 1] \in Stack
      BY <1>4, <3>1
    <3>4. tr[i] = After(tr[i - 1], all[i])
      BY <1>3, <3>1, <3>2, <3>3, AfterBelow, FilterSetsTyped DEF After
    <3>5. Len(tr[i - 1]) = Len(t1[i - 1]) + Len(s) /\ Len(s) \in Nat /\ Len(t1[i - 1]) \in Nat
      BY <1>6, <3>1, <3>2, <3>3, Depth
    <3>6. Arity(e[i].op) \in Nat
      BY DEF Arity
    <3> HIDE DEF tr
    <3>7. Arity(all[i].op) <= Len(tr[i - 1])
      BY <3>2, <3>3, <3>5, <3>6
    <3> QED
      BY <3>4, <3>7
  <2>2. CASE ~(i <= n)
    <3>1. PICK j \in 1 .. m : i = n + j
      <4>1. i - n \in 1 .. m /\ i = n + (i - n)
        BY <1>3, <2>2
      <4> QED
        BY <4>1
    <3>2. j \in 0 .. m /\ j - 1 \in 0 .. m /\ i - 1 = n + (j - 1) /\ i - n = j
      BY <1>3, <3>1
    <3>3. tr[i] = t2[j] /\ tr[i - 1] = t2[j - 1] /\ all[i] = rest[j]
      <4> HIDE DEF tr
      <4> QED
        BY <1>3, <1>9, <2>2, <3>1, <3>2
    <3> HIDE DEF tr
    <3> QED
      BY <1>5, <3>1, <3>3
  <2> QED
    BY <2>1, <2>2
<1>12. Trace(tr, s, all, v)
  <2> HIDE DEF tr
  <2> QED
    BY <1>3, <1>7, <1>8, <1>10, <1>11 DEF Trace
<1> QED
  BY <1>12 DEF Leads, all

----------------------------------------------------------------------------
(* Filter-sets have a meaning. *)

(* An expression depends on the values of the filter-sets in it, no        *)
(* others.                                                                 *)
LEMMA IdealAgrees ==
  ASSUME NEW terms \in Seq(Terms), NEW F, NEW G,
         \A i \in 1 .. Len(terms) :
           terms[i].op = "filter-set" => F[terms[i].name] = G[terms[i].name]
  PROVE  Ideal(terms, F) = Ideal(terms, G)
<1> DEFINE n == Len(terms)
           f == Stacks(terms, F)
           g == Stacks(terms, G)
           Q == {i \in 0 .. n : f[i] = g[i]}
<1>1. /\ n \in Nat /\ f[0] = <<>> /\ g[0] = <<>>
      /\ \A i \in 1 .. n : /\ f[i] = StackAfter(f[i - 1], terms[i], F)
                           /\ g[i] = StackAfter(g[i - 1], terms[i], G)
  BY StacksStep
<1>2. \A i \in 1 .. n : \A s : StackAfter(s, terms[i], F) = StackAfter(s, terms[i], G)
  <2> SUFFICES ASSUME NEW i \in 1 .. n, NEW s
               PROVE  StackAfter(s, terms[i], F) = StackAfter(s, terms[i], G)
    OBVIOUS
  <2>1. CASE terms[i].op \in Operators
    BY <2>1 DEF StackAfter, Operators
  <2>2. CASE terms[i].op = "filter-set"
    BY <2>2 DEF StackAfter, Operators
  <2>3. CASE terms[i].op \notin Operators /\ terms[i].op # "filter-set"
    BY <2>3 DEF StackAfter
  <2> QED
    BY <2>1, <2>2, <2>3
<1> HIDE DEF n, f, g
<1>3. 0 \in Q
  BY <1>1
<1>4. ASSUME NEW i \in 1 .. n, i - 1 \in Q PROVE i \in Q
  <2>1. f[i] = g[i]
    BY <1>1, <1>2, <1>4
  <2> QED
    BY <2>1
<1>5. Q \in SUBSET (0 .. n)
  OBVIOUS
<1>6. f[n] = g[n]
  <2> HIDE DEF Q
  <2>1. n \in Q
    BY <1>1, <1>3, <1>4, <1>5, UpTo
  <2> QED
    BY <2>1 DEF Q
<1> QED
  BY <1>6 DEF Ideal, n, f, g

(* No filter-set refers to itself, nor through others: each has a rank     *)
(* above those of the filter-sets its filter refers to.                    *)
Acyclic(filters, rank, n) ==
  /\ rank \in [DOMAIN Filters -> 0 .. n]
  /\ \A name \in DOMAIN Filters : \A i \in 1 .. Len(filters[name]) :
       filters[name][i].op = "filter-set" => rank[filters[name][i].name] < rank[name]

(* Whatever the filters of such a registry are, they have a meaning, as    *)
(* MeaningAssumption wants.  In another the resolution of a filter-set     *)
(* (query.rs:119-159) may not end.                                         *)
THEOREM AcyclicHasMeaning ==
  ASSUME NEW filters, \A name \in DOMAIN Filters : Parsed(filters[name]),
         NEW n \in Nat, NEW rank, Acyclic(filters, rank, n)
  PROVE  \E filterSet \in FilterSetValues :
           \A name \in DOMAIN Filters : filterSet[name] = Ideal(filters[name], filterSet)
<1> DEFINE Upto(F, k) == \A name \in DOMAIN Filters :
                           rank[name] < k => F[name] = Ideal(filters[name], F)
           Q == {k \in 0 .. n + 1 : \E F \in FilterSetValues : Upto(F, k)}
<1>0. /\ rank \in [DOMAIN Filters -> 0 .. n]
      /\ \A name \in DOMAIN Filters : Parsed(filters[name]) /\ filters[name] \in Seq(Terms)
  BY DEF Acyclic, Parsed
<1>1. 0 \in Q
  <2> DEFINE F0 == [name \in DOMAIN Filters |-> {}]
  <2>1. F0 \in FilterSetValues
    BY DEF FilterSetValues
  <2>2. Upto(F0, 0)
    BY <1>0
  <2> HIDE DEF F0, Upto
  <2> QED
    BY <2>1, <2>2
<1>2. ASSUME NEW k \in 1 .. n + 1, k - 1 \in Q PROVE k \in Q
  <2>1. PICK F \in FilterSetValues : Upto(F, k - 1)
    BY <1>2
  <2> DEFINE G == [name \in DOMAIN Filters |->
                     IF rank[name] < k - 1 THEN F[name] ELSE Ideal(filters[name], F)]
  <2>2. G \in FilterSetValues
    <3>1. ASSUME NEW name \in DOMAIN Filters
          PROVE  F[name] \in SUBSET AnyPrefix /\ Ideal(filters[name], F) \in SUBSET AnyPrefix
      BY <1>0, StacksTyped DEF FilterSetValues
    <3> QED
      BY <3>1 DEF FilterSetValues
  <2>3. ASSUME NEW name \in DOMAIN Filters, rank[name] < k PROVE G[name] = Ideal(filters[name], G)
    <3>1. ASSUME NEW i \in 1 .. Len(filters[name]), filters[name][i].op = "filter-set"
          PROVE  F[filters[name][i].name] = G[filters[name][i].name]
      <4>1. filters[name][i] \in Terms
        BY <1>0
      <4>2. filters[name][i].name \in DOMAIN Filters
        BY <3>1, <4>1 DEF Terms, Operators
      <4>3. rank[filters[name][i].name] < k - 1
        <5>1. rank[filters[name][i].name] < rank[name]
          BY <3>1 DEF Acyclic
        <5>2. rank[filters[name][i].name] \in 0 .. n /\ rank[name] \in 0 .. n
          BY <1>0, <4>2
        <5> QED
          BY <2>3, <5>1, <5>2
      <4> QED
        BY <4>2, <4>3
    <3>2. Ideal(filters[name], F) = Ideal(filters[name], G)
      <4> HIDE DEF G
      <4> QED
        BY <1>0, <3>1, IdealAgrees
    <3>3. G[name] = Ideal(filters[name], F)
      BY <2>1
    <3> QED
      BY <3>2, <3>3
  <2>4. Upto(G, k)
    <3> HIDE DEF G
    <3> QED
      BY <2>3
  <2> HIDE DEF G, Upto
  <2> QED
    BY <2>2, <2>4
<1>3. n + 1 \in Q
  <2>1. Q \in SUBSET (0 .. n + 1)
    OBVIOUS
  <2> HIDE DEF Q
  <2>2. Q = 0 .. n + 1
    BY <1>1, <1>2, <2>1, UpTo
  <2> QED
    BY <2>2
<1>4. PICK F \in FilterSetValues : Upto(F, n + 1)
  BY <1>3
<1>5. \A name \in DOMAIN Filters : rank[name] < n + 1
  BY <1>0
<1> QED
  BY <1>4, <1>5

----------------------------------------------------------------------------
(* The inductive invariant. *)

(* First the types, with a stack of prefix sets and the terms of an        *)
(* expression.                                                             *)
Shape ==
  /\ filter \in [Candidates -> Expressions] /\ current \in Candidates
  /\ pc \in {"idle", "term", "query", "panicked"}
  /\ conn = (pc # "query") /\ (pc # "query" => pipeline = {})
  /\ found \in SUBSET AnyPrefix /\ stack \in Stack /\ todo \in Seq(Terms)
  /\ outcome \in [Candidates -> [status : {"none", "failed", "ok"}, ranges : SUBSET AnyPrefix]]
  /\ sunk \subseteq Candidates /\ errors \in 0 .. MaxErrors

(* What the resolver in progress has found, with all that its queries may  *)
(* still bring, is what its term stands for: never more, and no less while *)
(* no response was dropped.                                                *)
Value(query) == IF query.op = "as-set" THEN Meaning(query) ELSE Routes[query]
ToFind == found \cup UNION {Value(query) : query \in pipeline}

Collecting ==
  pc = "query" =>
    /\ todo # <<>> /\ Head(todo).op \in Sets
    /\ \/ Head(todo).op = "filter-set" /\ pipeline = {Head(todo)}
       \/ /\ Head(todo).op # "filter-set"
          /\ pipeline \subseteq Queries \cup [op : {"as-set"}, name : DOMAIN Members]
          /\ ToFind \subseteq Meaning(Head(todo))
          /\ current \notin sunk => Meaning(Head(todo)) \subseteq ToFind

(* The evaluation is on its course: the ideal evaluation leads, by the     *)
(* terms that are left, from some stack to what the expression stands for. *)
(* The stack there is equals that one, or lies below it, for an expression *)
(* without NOT, once a response was dropped.  Where a filter-set became    *)
(* NOT ANY, the ideal evaluation is past it while these two terms are      *)
(* still to be done: they come to the empty set.                           *)
Below(t, s) ==
  /\ Len(t) = Len(s)
  /\ Positive(filter[current]) => \A i \in 1 .. Len(s) : t[i] \subseteq s[i]

NotTerm == Term("not", "")

Meets(rest, s) ==
  \/ /\ todo = rest /\ Below(stack, s)
     /\ current \notin sunk => stack = s
  \/ /\ current \in sunk
     /\ todo = NotAny \o rest /\ Below(<<{}>> \o stack, s)
  \/ /\ current \in sunk
     /\ todo = <<NotTerm>> \o rest /\ stack # <<>> /\ Head(stack) = AnyPrefix
     /\ Below(<<{}>> \o Tail(stack), s)

Heads(rest, s) ==
  /\ Leads(s, rest, IdealOf(current))
  /\ Positive(filter[current]) => Positive(rest)
  /\ Meets(rest, s)

OnCourse == pc \in {"term", "query"} => \E rest \in Seq(Terms), s \in Stack : Heads(rest, s)

IInv == Shape /\ Collecting /\ OnCourse /\ ExactUnlessSunk /\ NeverWider

(* A smaller stack leads to smaller values, but for NOT.                   *)
LEMMA Monotone ==
  ASSUME NEW t \in Terms, t.op # "not", NEW u \in Stack, NEW s \in Stack,
         Len(u) = Len(s), \A i \in 1 .. Len(s) : u[i] \subseteq s[i], Arity(t.op) <= Len(s)
  PROVE  \A i \in 1 .. Len(After(s, t)) : After(u, t)[i] \subseteq After(s, t)[i]
<1>0. Len(s) \in Nat /\ Len(u) \in Nat
  BY Depth
<1>a. ASSUME NEW x \in SUBSET AnyPrefix, NEW y \in SUBSET AnyPrefix, x \subseteq y,
             NEW p \in Stack, NEW q \in Stack,
             Len(p) = Len(q), \A i \in 1 .. Len(q) : p[i] \subseteq q[i]
      PROVE  \A i \in 1 .. Len(<<y>> \o q) : (<<x>> \o p)[i] \subseteq (<<y>> \o q)[i]
  <2>1. /\ Len(q) \in Nat /\ Len(<<y>> \o q) = Len(q) + 1
        /\ (<<x>> \o p)[1] = x /\ (<<y>> \o q)[1] = y
        /\ \A i \in 1 .. Len(q) : (<<x>> \o p)[i + 1] = p[i] /\ (<<y>> \o q)[i + 1] = q[i]
    BY <1>a, Pushed, Depth
  <2> SUFFICES ASSUME NEW i \in 1 .. Len(q) + 1, i # 1
               PROVE  (<<x>> \o p)[i] \subseteq (<<y>> \o q)[i]
    BY <1>a, <2>1
  <2>2. i - 1 \in 1 .. Len(q) /\ (i - 1) + 1 = i
    BY <2>1
  <2> QED
    BY <1>a, <2>1, <2>2
<1>1. CASE t.op \in {"and", "or"}
  <2>0. Len(s) >= 2 /\ Len(u) >= 2
    BY <1>0, <1>1 DEF Arity
  <2>1. Len(s) >= 2 /\ s # <<>> /\ u # <<>>
    BY <1>0, <2>0, Depth
  <2>2. /\ Tail(s) \in Stack /\ Len(Tail(s)) = Len(s) - 1
        /\ Tail(u) \in Stack /\ Len(Tail(u)) = Len(u) - 1
        /\ \A i \in 1 .. Len(s) - 1 : Tail(s)[i] = s[i + 1]
        /\ \A i \in 1 .. Len(u) - 1 : Tail(u)[i] = u[i + 1]
    BY <2>1, Popped
  <2>3. Len(Tail(s)) # 0 /\ Len(Tail(u)) # 0
    <3>1. \A n \in Nat : n >= 2 => n - 1 # 0
      OBVIOUS
    <3> QED
      BY <1>0, <2>0, <2>2, <3>1, Zenon
  <2>4. Tail(s) # <<>> /\ Tail(u) # <<>>
    BY <2>2, <2>3, Depth
  <2>5. /\ Tail(Tail(s)) \in Stack /\ Len(Tail(Tail(s))) = Len(Tail(s)) - 1
        /\ Tail(Tail(u)) \in Stack /\ Len(Tail(Tail(u))) = Len(Tail(u)) - 1
        /\ \A i \in 1 .. Len(Tail(s)) - 1 : Tail(Tail(s))[i] = Tail(s)[i + 1]
        /\ \A i \in 1 .. Len(Tail(u)) - 1 : Tail(Tail(u))[i] = Tail(u)[i + 1]
    BY <2>2, <2>4, Popped
  <2>6. Len(Tail(Tail(u))) = Len(Tail(Tail(s)))
    BY <2>2, <2>5
  <2>7. \A i \in 1 .. Len(Tail(Tail(s))) : Tail(Tail(u))[i] \subseteq Tail(Tail(s))[i]
    <3> SUFFICES ASSUME NEW i \in 1 .. Len(Tail(Tail(s)))
                 PROVE  Tail(Tail(u))[i] \subseteq Tail(Tail(s))[i]
      OBVIOUS
    <3>1. /\ i \in 1 .. Len(Tail(s)) - 1 /\ i + 1 \in 1 .. Len(s) - 1
          /\ (i + 1) + 1 \in 1 .. Len(s)
          /\ i \in 1 .. Len(Tail(u)) - 1 /\ i + 1 \in 1 .. Len(u) - 1
      BY <1>0, <2>2, <2>5
    <3>2. /\ Tail(Tail(s))[i] = s[(i + 1) + 1]
          /\ Tail(Tail(u))[i] = u[(i + 1) + 1]
      BY <2>2, <2>5, <3>1
    <3> QED
      BY <3>1, <3>2
  <2>8. /\ s[1] \in SUBSET AnyPrefix /\ s[2] \in SUBSET AnyPrefix
        /\ u[1] \in SUBSET AnyPrefix /\ u[2] \in SUBSET AnyPrefix
        /\ u[1] \subseteq s[1] /\ u[2] \subseteq s[2]
    <3>1. 1 \in 1 .. Len(s) /\ 2 \in 1 .. Len(s) /\ 1 \in 1 .. Len(u) /\ 2 \in 1 .. Len(u)
      BY <1>0, <2>1
    <3> QED
      BY <3>1 DEF Stack
  <2>9. CASE t.op = "and"
    <3>1. /\ After(s, t) = <<s[1] \cap s[2]>> \o Tail(Tail(s))
          /\ After(u, t) = <<u[1] \cap u[2]>> \o Tail(Tail(u))
      BY <2>9 DEF After, StackAfter, Applied, Operators
    <3>2. u[1] \cap u[2] \subseteq s[1] \cap s[2]
          /\ u[1] \cap u[2] \in SUBSET AnyPrefix /\ s[1] \cap s[2] \in SUBSET AnyPrefix
      BY <2>8
    <3> QED
      BY <3>1, <3>2, <1>a, <2>5, <2>6, <2>7
  <2>10. CASE t.op = "or"
    <3>1. /\ After(s, t) = <<s[1] \cup s[2]>> \o Tail(Tail(s))
          /\ After(u, t) = <<u[1] \cup u[2]>> \o Tail(Tail(u))
      BY <2>10 DEF After, StackAfter, Applied, Operators
    <3>2. u[1] \cup u[2] \subseteq s[1] \cup s[2]
          /\ u[1] \cup u[2] \in SUBSET AnyPrefix /\ s[1] \cup s[2] \in SUBSET AnyPrefix
      BY <2>8
    <3> QED
      BY <3>1, <3>2, <1>a, <2>5, <2>6, <2>7
  <2> QED
    BY <1>1, <2>9, <2>10
<1>2. CASE t.op \notin {"and", "or", "not"}
  <2>1. PICK x \in SUBSET AnyPrefix : \A r \in Stack : After(r, t) = <<x>> \o r
    <3>1. CASE t.op = "any"
      <4>1. \A r \in Stack : After(r, t) = <<AnyPrefix>> \o r
        BY <3>1 DEF After, StackAfter, Applied, Operators
      <4> QED
        BY <4>1
    <3>2. CASE t.op = "filter-set"
      <4>1. t.name \in DOMAIN Filters
        BY <3>2 DEF Terms, Operators
      <4>2. FilterSetIdeal[t.name] \in SUBSET AnyPrefix
        BY <4>1, FilterSetsTyped DEF FilterSetValues
      <4>3. \A r \in Stack : After(r, t) = <<FilterSetIdeal[t.name]>> \o r
        BY <3>2 DEF After, StackAfter, Operators
      <4> QED
        BY <4>2, <4>3
    <3>3. CASE t.op \notin Operators /\ t.op # "filter-set"
      <4>1. \A r \in Stack : After(r, t) = <<Meaning(t)>> \o r
        BY <3>3 DEF After, StackAfter
      <4> QED
        BY <3>3, <4>1, MeaningTyped
    <3> QED
      BY <1>2, <3>1, <3>2, <3>3 DEF Operators
  <2> QED
    BY <2>1, <1>a
<1> QED
  BY <1>1, <1>2

(* The rest of an expression without NOT, and its first term.              *)
LEMMA PositiveTail ==
  ASSUME NEW terms \in Seq(Terms), terms # <<>>, Positive(terms)
  PROVE  Positive(Tail(terms)) /\ Head(terms).op # "not"
<1>1. PICK filterSets \in SUBSET DOMAIN Filters :
        /\ WithoutNot(terms, filterSets)
        /\ \A name \in filterSets : WithoutNot(Filters[name], filterSets)
  BY DEF Positive
<1>2. /\ Len(terms) \in Nat \ {0} /\ DOMAIN terms = 1 .. Len(terms) /\ Head(terms) = terms[1]
      /\ Tail(terms) \in Seq(Terms) /\ Len(Tail(terms)) = Len(terms) - 1
      /\ \A i \in 1 .. Len(terms) - 1 : Tail(terms)[i] = terms[i + 1]
  BY HeadTailProperties, EmptySeq
<1>3. DOMAIN Tail(terms) = 1 .. Len(terms) - 1
  BY <1>2, LenProperties
<1>4. WithoutNot(Tail(terms), filterSets)
  <2> SUFFICES ASSUME NEW i \in 1 .. Len(terms) - 1
               PROVE  /\ terms[i + 1].op # "not"
                      /\ terms[i + 1].op = "filter-set" => terms[i + 1].name \in filterSets
    BY <1>2, <1>3 DEF WithoutNot
  <2>1. i + 1 \in DOMAIN terms
    BY <1>2
  <2> QED
    BY <1>1, <2>1 DEF WithoutNot
<1>5. 1 \in DOMAIN terms
  BY <1>2
<1> QED
  BY <1>1, <1>2, <1>4, <1>5 DEF Positive, WithoutNot

(* An expression without NOT stays so where a filter-set comes in.         *)
LEMMA PositiveThrough ==
  ASSUME NEW terms \in Seq(Terms), terms # <<>>, Positive(terms),
         Head(terms).op = "filter-set", Head(terms).name \in DOMAIN Filters
  PROVE  Positive(Filters[Head(terms).name] \o Tail(terms))
<1>1. PICK filterSets \in SUBSET DOMAIN Filters :
        /\ WithoutNot(terms, filterSets)
        /\ \A name \in filterSets : WithoutNot(Filters[name], filterSets)
  BY DEF Positive
<1>2. /\ Len(terms) \in Nat \ {0} /\ DOMAIN terms = 1 .. Len(terms) /\ Head(terms) = terms[1]
      /\ Tail(terms) \in Seq(Terms) /\ Len(Tail(terms)) = Len(terms) - 1
      /\ \A i \in 1 .. Len(terms) - 1 : Tail(terms)[i] = terms[i + 1]
  BY HeadTailProperties, EmptySeq
<1> DEFINE e == Filters[Head(terms).name]
           all == e \o Tail(terms)
<1>3. e \in Seq(Terms)
  BY ExpressionAssumption DEF Parsed
<1>4. 1 \in DOMAIN terms
  BY <1>2
<1>5. WithoutNot(e, filterSets)
  BY <1>1, <1>2, <1>4 DEF WithoutNot
<1> HIDE DEF e
<1>6. /\ Len(e) \in Nat /\ DOMAIN e = 1 .. Len(e)
      /\ DOMAIN all = 1 .. Len(e) + (Len(terms) - 1)
      /\ \A i \in 1 .. Len(e) + (Len(terms) - 1) :
            all[i] = IF i <= Len(e) THEN e[i] ELSE Tail(terms)[i - Len(e)]
  BY <1>2, <1>3, ConcatProperties, LenProperties
<1> HIDE DEF all
<1>7. ASSUME NEW i \in DOMAIN all
      PROVE  /\ all[i].op # "not"
             /\ all[i].op = "filter-set" => all[i].name \in filterSets
  <2>1. CASE i <= Len(e)
    <3>1. i \in DOMAIN e /\ all[i] = e[i]
      BY <1>6, <2>1
    <3> QED
      BY <3>1, <1>5 DEF WithoutNot
  <2>2. CASE ~(i <= Len(e))
    <3>1. i - Len(e) \in 1 .. Len(terms) - 1 /\ (i - Len(e)) + 1 \in DOMAIN terms
      BY <1>2, <1>6, <2>2
    <3>2. all[i] = terms[(i - Len(e)) + 1]
      BY <1>2, <1>6, <2>2, <3>1
    <3> QED
      BY <3>1, <3>2, <1>1 DEF WithoutNot
  <2> QED
    BY <2>1, <2>2
<1>8. WithoutNot(all, filterSets)
  BY <1>7 DEF WithoutNot
<1> QED
  BY <1>1, <1>8 DEF Positive, all, e

(* NOT ANY in front of other terms.                                        *)
LEMMA NotAnyThen ==
  ASSUME NEW rest \in Seq(Terms)
  PROVE  /\ NotAny \o rest \in Seq(Terms) /\ NotAny \o rest # <<>>
         /\ Head(NotAny \o rest) = Term("any", "")
         /\ Tail(NotAny \o rest) = <<NotTerm>> \o rest
         /\ <<NotTerm>> \o rest \in Seq(Terms) /\ <<NotTerm>> \o rest # <<>>
         /\ Head(<<NotTerm>> \o rest) = NotTerm
         /\ Tail(<<NotTerm>> \o rest) = rest
<1> DEFINE any == Term("any", "")
<1>1. any \in Terms /\ NotTerm \in Terms
  BY DEF Term, NotTerm, Terms, Operators
<1>2. NotAny = <<any>> \o <<NotTerm>>
  <2>1. NotAny = <<any, NotTerm>>
    BY DEF NotAny, NotTerm
  <2> HIDE DEF any
  <2>2. <<any, NotTerm>> \in Seq(Terms) /\ <<any>> \in Seq(Terms) /\ <<NotTerm>> \in Seq(Terms)
    BY <1>1
  <2> DEFINE u == <<any>> \o <<NotTerm>>
  <2>3. u \in Seq(Terms) /\ Len(u) = 2 /\ u[1] = any /\ u[2] = NotTerm
    BY <2>2, ConcatProperties
  <2> HIDE DEF u
  <2>4. u = <<any, NotTerm>>
    BY <2>2, <2>3, SeqEqual
  <2> QED
    BY <2>1, <2>4 DEF u
<1> HIDE DEF any
<1>3. <<any>> \in Seq(Terms) /\ <<NotTerm>> \in Seq(Terms)
  BY <1>1
<1>4. NotAny \o rest = <<any>> \o (<<NotTerm>> \o rest)
  BY <1>2, <1>3, ConcatAssociative
<1>5. <<NotTerm>> \o rest \in Seq(Terms)
  BY <1>1, Cons
<1>6. /\ <<any>> \o (<<NotTerm>> \o rest) \in Seq(Terms)
      /\ <<any>> \o (<<NotTerm>> \o rest) # <<>>
      /\ Head(<<any>> \o (<<NotTerm>> \o rest)) = any
      /\ Tail(<<any>> \o (<<NotTerm>> \o rest)) = <<NotTerm>> \o rest
  <2> DEFINE r == <<NotTerm>> \o rest
  <2> HIDE DEF r
  <2>1. /\ <<any>> \o r \in Seq(Terms) /\ <<any>> \o r # <<>>
        /\ Head(<<any>> \o r) = any /\ Tail(<<any>> \o r) = r
    BY <1>1, <1>5, Cons DEF r
  <2> QED
    BY <2>1 DEF r
<1>7. /\ <<NotTerm>> \o rest # <<>>
      /\ Head(<<NotTerm>> \o rest) = NotTerm
      /\ Tail(<<NotTerm>> \o rest) = rest
  BY <1>1, Cons, Zenon
<1> QED
  BY <1>4, <1>5, <1>6, <1>7 DEF any

----------------------------------------------------------------------------
(* Each step keeps it. *)

(* The Shape of a state with another expression, stack or result.          *)
LEMMA ShapeStep == IInv /\ [Next]_vars => Shape'
<1> SUFFICES ASSUME IInv, [Next]_vars PROVE Shape'
  OBVIOUS
<1> USE DEF IInv
<1>0. Shape /\ Collecting /\ OnCourse
  OBVIOUS
<1>1. CASE Acquire
  <2>1. UNCHANGED <<filter, current, sunk, errors>> /\ pc = "term" /\ conn = TRUE
    BY <1>0, <1>1 DEF Acquire, At, EndWith, Shape, expression
  <2>2. UNCHANGED <<todo, stack, outcome>> /\ pc' = "query" /\ conn' = FALSE /\ found' = {}
    BY <1>1, <2>1 DEF Acquire, expression
  <2> QED
    BY <1>0, <2>1, <2>2 DEF Shape
<1>2. CASE PushFails
  <2>1. Failed \in [status : {"none", "failed", "ok"}, ranges : SUBSET AnyPrefix]
    BY DEF Failed
  <2>2. errors' \in 0 .. MaxErrors
    BY <1>0, <1>2, RegistryAssumption DEF PushFails, Shape
  <2>3. <<>> \in Stack /\ <<>> \in Seq(Terms)
    BY EmptySeq DEF Stack
  <2>4. /\ outcome' = [outcome EXCEPT ![current] = Failed]
        /\ todo' = <<>> /\ stack' = <<>> /\ pc = "term" /\ pc' = "idle"
        /\ UNCHANGED <<filter, current, conn, pipeline, found, sunk>>
    BY <1>2 DEF PushFails, EndWith, At, queries
  <2> QED
    BY <1>0, <2>1, <2>2, <2>3, <2>4 DEF Shape
<1>3. ASSUME NEW all \in BOOLEAN, SinkUnless(all)
      PROVE  sunk' \subseteq Candidates /\ errors' \in 0 .. MaxErrors
  BY <1>0, <1>3, RegistryAssumption DEF SinkUnless, Sink, Shape
<1>4. CASE MembersArrive
  <2>1. PICK query \in Awaited({"as-set"}) : \E received \in SUBSET Members[query.name] :
           /\ SinkUnless(received = Members[query.name])
           /\ UNCHANGED <<filter, pc, expression, conn, found, outcome>>
    BY <1>4 DEF MembersArrive
  <2>2. pc = "query"
    BY <2>1 DEF Awaited
  <2>3. sunk' \subseteq Candidates /\ errors' \in 0 .. MaxErrors
    BY <1>3, <2>1
  <2> QED
    BY <1>0, <2>1, <2>2, <2>3 DEF Shape, expression
<1>5. CASE RoutesArrive
  <2>p. PICK query \in Awaited({"ipv4-routes", "ipv6-routes", "route-set"}) :
           \E received \in SUBSET Routes[query] :
             /\ found' = found \cup received
             /\ SinkUnless(received = Routes[query])
             /\ UNCHANGED <<filter, pc, expression, conn, outcome>>
    BY <1>5, Zenon DEF RoutesArrive
  <2>1. PICK received \in SUBSET Routes[query] :
           /\ found' = found \cup received
           /\ SinkUnless(received = Routes[query])
           /\ UNCHANGED <<filter, pc, expression, conn, outcome>>
    BY <2>p
  <2>2. pc = "query" /\ query \in pipeline /\ query.op \in {"ipv4-routes", "ipv6-routes", "route-set"}
    BY <2>p DEF Awaited
  <2>3. sunk' \subseteq Candidates /\ errors' \in 0 .. MaxErrors
    BY <1>3, <2>1
  <2>4. query \in Queries
    BY <1>0, <2>2 DEF Collecting
  <2>5. Routes[query] \in SUBSET AnyPrefix
    BY <2>4, RegistryAssumption
  <2>6. found' \in SUBSET AnyPrefix
    BY <1>0, <2>1, <2>5 DEF Shape
  <2> QED
    BY <1>0, <2>1, <2>2, <2>3, <2>6 DEF Shape, expression
<1>6. CASE Release
  <2>1. todo # <<>>
    BY <1>0, <1>6 DEF Release, Collecting
  <2>2. stack' \in Stack
    BY <1>0, <1>6, Pushed DEF Release, Shape
  <2>3. todo' \in Seq(Terms)
    BY <1>0, <1>6, <2>1, HeadTailProperties DEF Release, Shape
  <2> QED
    BY <1>0, <1>6, <2>2, <2>3 DEF Release, Shape
<1>7. CASE FilterArrives
  <2>1. PICK query \in Awaited({"filter-set"}), answered \in BOOLEAN :
          /\ todo' = (IF answered THEN Filters[query.name] ELSE NotAny) \o Tail(todo)
          /\ SinkUnless(answered)
    BY <1>7 DEF FilterArrives
  <2>2. /\ pc' = "term" /\ conn' = TRUE /\ pipeline' = {}
        /\ UNCHANGED <<filter, current, stack, found, outcome>>
    BY <1>7 DEF FilterArrives
  <2>3. pc = "query" /\ query \in pipeline /\ query.op = "filter-set"
    BY <2>1 DEF Awaited
  <2>4. query = Head(todo) /\ todo # <<>>
    BY <1>0, <2>3 DEF Collecting, Queries
  <2>5. Head(todo) \in Terms /\ Tail(todo) \in Seq(Terms)
    BY <1>0, <2>4, HeadTailProperties DEF Shape
  <2>6. query.name \in DOMAIN Filters
    BY <2>3, <2>4, <2>5 DEF Terms, Operators
  <2>7. Filters[query.name] \in Seq(Terms)
    BY <2>6, ExpressionAssumption DEF Parsed
  <2>8. NotAny \in Seq(Terms)
    BY DEF NotAny, Term, Terms, Operators
  <2>9. todo' \in Seq(Terms)
    BY <2>1, <2>5, <2>7, <2>8, ConcatProperties
  <2>10. sunk' \subseteq Candidates /\ errors' \in 0 .. MaxErrors
    BY <1>3, <2>1
  <2> QED
    BY <1>0, <2>2, <2>9, <2>10 DEF Shape
<1>8. CASE Finish
  <2>1. /\ pc = "term" /\ pc' = "idle" /\ todo = <<>>
        /\ outcome' = [outcome EXCEPT ![current] = Evaluated(Head(stack))]
        /\ todo' = <<>> /\ stack' = <<>>
        /\ UNCHANGED <<filter, current, conn, pipeline, found, sunk, errors>>
    BY <1>8 DEF Finish, EndWith, queries
  <2>2. <<>> \in Stack /\ <<>> \in Seq(Terms)
    BY EmptySeq DEF Stack
  <2>3. PICK rest \in Seq(Terms), s \in Stack : Heads(rest, s)
    BY <1>0, <2>1 DEF OnCourse
  <2>4. rest = <<>> /\ Len(stack) = Len(s)
    BY <2>1, <2>3, NotAnyThen DEF Heads, Meets, Below
  <2>5. s = <<IdealOf(current)>>
    BY <2>3, <2>4, LeadsDone DEF Heads
  <2>6. Head(stack) \in SUBSET AnyPrefix
    <3>1. stack \in Stack /\ Len(stack) = 1
      BY <1>0, <2>4, <2>5 DEF Shape
    <3>2. stack # <<>>
      BY <3>1, Depth
    <3> QED
      BY <3>1, <3>2, Popped
  <2>7. Evaluated(Head(stack)) \in [status : {"none", "failed", "ok"}, ranges : SUBSET AnyPrefix]
    BY <2>6 DEF Evaluated
  <2> QED
    BY <1>0, <2>1, <2>2, <2>7 DEF Shape
<1>9. CASE Apply
  <2>1. /\ todo # <<>> /\ Head(todo).op \in Operators /\ pc = "term"
        /\ stack' = Applied(Head(todo).op, stack) /\ todo' = Tail(todo)
        /\ UNCHANGED <<filter, pc, current, conn, pipeline, found, outcome, sunk, errors>>
    BY <1>9 DEF Apply, At, queries
  <2>2. Head(todo) \in Terms /\ Tail(todo) \in Seq(Terms)
    BY <1>0, <2>1, HeadTailProperties DEF Shape
  <2>3. stack' = After(stack, Head(todo))
    BY <2>1 DEF After, StackAfter, Operators
  <2>4. Arity(Head(todo).op) <= Len(stack)
    <3>1. PICK rest \in Seq(Terms), s \in Stack : Heads(rest, s)
      BY <1>0, <2>1 DEF OnCourse
    <3>2. CASE todo = rest /\ Below(stack, s)
      BY <2>1, <3>1, <3>2, LeadsOn DEF Heads, Below
    <3>3. CASE todo = NotAny \o rest
      <4>1. Head(todo).op = "any"
        <5>1. Head(todo) = Term("any", "")
          BY <3>1, <3>3, NotAnyThen, Zenon
        <5>2. Term("any", "").op = "any"
          BY DEF Term
        <5> QED
          BY <5>1, <5>2, Zenon
      <4> QED
        BY <1>0, <4>1, Depth DEF Arity, Shape
    <3>4. CASE todo = <<NotTerm>> \o rest /\ stack # <<>>
      <4>1. Head(todo).op = "not"
        <5>1. Head(todo) = NotTerm
          BY <3>1, <3>4, NotAnyThen, Zenon
        <5>2. NotTerm.op = "not"
          BY DEF NotTerm, Term
        <5> QED
          BY <5>1, <5>2, Zenon
      <4> QED
        BY <1>0, <3>4, <4>1, Depth DEF Arity, Shape
    <3> QED
      BY <3>1, <3>2, <3>3, <3>4 DEF Heads, Meets
  <2>5. stack' \in Stack
    BY <1>0, <2>2, <2>3, <2>4, AfterTyped, FilterSetsTyped DEF After, Shape
  <2> QED
    BY <1>0, <2>1, <2>2, <2>5 DEF Shape
<1>10. CASE ResolvePeerAs
  <2>1. /\ pc = "term" /\ pc' = "panicked"
        /\ UNCHANGED <<filter, current, todo, stack, conn, pipeline, found, outcome, sunk, errors>>
    BY <1>10 DEF ResolvePeerAs, At, expression, queries
  <2> QED
    BY <1>0, <2>1 DEF Shape
<1>11. ASSUME NEW c \in Candidates, Begin(c) PROVE Shape'
  <2>1. /\ pc = "idle" /\ pc' = "term" /\ current' = c /\ todo' = filter[c] /\ stack' = <<>>
        /\ UNCHANGED <<filter, conn, pipeline, found, outcome, sunk, errors>>
    BY <1>11 DEF Begin, queries
  <2>2. <<>> \in Stack
    BY EmptySeq DEF Stack
  <2>3. filter[c] \in Seq(Terms)
    BY <1>0, ExpressionAssumption DEF Shape, Parsed
  <2> QED
    BY <1>0, <2>1, <2>2, <2>3 DEF Shape
<1>12. CASE UNCHANGED vars
  BY <1>0, <1>12 DEF Shape, vars, expression, queries
<1> QED
  BY <1>1, <1>2, <1>4, <1>5, <1>6, <1>7, <1>8, <1>9, <1>10, <1>11, <1>12 DEF Next, Resolve

(* Nothing else changes the course of an evaluation.                       *)
LEMMA CourseKept ==
  ASSUME OnCourse, pc \in {"term", "query"},
         UNCHANGED <<filter, current, todo, stack>>, sunk \subseteq sunk'
  PROVE  OnCourse'
<1>1. PICK rest \in Seq(Terms), s \in Stack : Heads(rest, s)
  BY DEF OnCourse
<1>2. IdealOf(current)' = IdealOf(current)
  BY DEF IdealOf
<1>3. \A t, r : Below(t, r)' = Below(t, r)
  BY DEF Below
<1>4. Meets(rest, s)'
  BY <1>1, <1>3 DEF Heads, Meets
<1>5. Heads(rest, s)'
  BY <1>1, <1>2, <1>4 DEF Heads
<1> QED
  BY <1>5 DEF OnCourse

(* The course is kept by each step.  Operators take the ideal stack on     *)
(* with the stack there is; Release puts what was found in the place of    *)
(* what the name stands for; a filter-set leaves the ideal evaluation      *)
(* where it is, if it was answered, since its expression leads to its      *)
(* value, and takes it one term on if not.                                 *)
LEMMA OnCourseStep == IInv /\ [Next]_vars => OnCourse'
<1> SUFFICES ASSUME IInv, [Next]_vars PROVE OnCourse'
  OBVIOUS
<1>0. Shape /\ Collecting /\ OnCourse
  BY DEF IInv
<1>1. CASE Acquire
  <2>1. /\ pc = "term" /\ conn = TRUE /\ UNCHANGED <<filter, current, sunk>>
    BY <1>0, <1>1 DEF Acquire, At, EndWith, Shape, expression
  <2>2. UNCHANGED <<todo, stack>>
    BY <1>1, <2>1 DEF Acquire, expression
  <2> QED
    BY <1>0, <2>1, <2>2, CourseKept
<1>2. CASE PushFails \/ Finish \/ ResolvePeerAs
  <2>1. pc' \in {"idle", "panicked"}
    BY <1>2 DEF PushFails, Finish, ResolvePeerAs, EndWith
  <2> QED
    BY <2>1 DEF OnCourse
<1>3. CASE MembersArrive \/ RoutesArrive
  <2>1. UNCHANGED <<filter, current, todo, stack>> /\ sunk \subseteq sunk' /\ pc = "query"
    BY <1>3 DEF MembersArrive, RoutesArrive, Awaited, expression, SinkUnless, Sink
  <2> QED
    BY <1>0, <2>1, CourseKept
<1>4. CASE Release
  <2>1. /\ pc = "query" /\ pipeline = {} /\ stack' = <<found>> \o stack /\ todo' = Tail(todo)
        /\ UNCHANGED <<filter, current, sunk>>
    BY <1>4 DEF Release
  <2>2. /\ todo # <<>> /\ Head(todo).op \in Sets /\ Head(todo).op # "filter-set"
        /\ found \subseteq Meaning(Head(todo))
        /\ current \notin sunk => found = Meaning(Head(todo))
    BY <1>0, <2>1 DEF Collecting, ToFind
  <2>3. PICK rest \in Seq(Terms), s \in Stack : Heads(rest, s)
    BY <1>0, <2>1 DEF OnCourse
  <2>4. todo = rest /\ Below(stack, s) /\ (current \notin sunk => stack = s)
    <3>1. Term("any", "").op \notin Sets /\ NotTerm.op \notin Sets
      BY DEF Term, NotTerm, Sets
    <3>2. todo # NotAny \o rest /\ todo # <<NotTerm>> \o rest
      BY <2>2, <2>3, <3>1, NotAnyThen, Zenon
    <3> QED
      BY <2>3, <3>2 DEF Heads, Meets
  <2>5. Head(todo) \in Terms /\ Head(todo).op \notin Operators /\ Tail(todo) \in Seq(Terms)
    BY <1>0, <2>2, HeadTailProperties DEF Shape, Sets, Operators
  <2>6. PICK m \in SUBSET AnyPrefix : m = Meaning(Head(todo))
    BY <2>2, <2>5, MeaningTyped
  <2>7. PICK s1 \in Stack : s1 = After(s, Head(todo)) /\ s1 = <<m>> \o s
    <3>1. After(s, Head(todo)) = <<m>> \o s
      BY <2>2, <2>5, <2>6 DEF After, StackAfter
    <3> QED
      BY <3>1, Pushed
  <2>8. PICK left \in Seq(Terms) : left = Tail(todo) /\ Leads(s1, left, IdealOf(current))
    BY <2>2, <2>3, <2>4, <2>5, <2>7, LeadsOn DEF Heads
  <2>9. found \in SUBSET AnyPrefix /\ stack \in Stack
    BY <1>0 DEF Shape
  <2>10. /\ Len(stack') = Len(stack) + 1 /\ Len(s1) = Len(s) + 1
         /\ stack'[1] = found /\ s1[1] = m
         /\ \A i \in 1 .. Len(stack) : stack'[i + 1] = stack[i]
         /\ \A i \in 1 .. Len(s) : s1[i + 1] = s[i]
    BY <2>1, <2>6, <2>7, <2>9, Pushed
  <2>11. Below(stack, s1)'
    <3>1. Len(stack') = Len(s1)
      BY <2>4, <2>10 DEF Below
    <3>2. ASSUME Positive(filter[current]), NEW i \in 1 .. Len(s1) PROVE stack'[i] \subseteq s1[i]
      <4>1. CASE i = 1
        BY <2>2, <2>6, <2>10, <4>1
      <4>2. CASE i # 1
        <5>1. i - 1 \in 1 .. Len(s) /\ (i - 1) + 1 = i
          BY <2>10, <4>2, Depth
        <5>2. stack[i - 1] \subseteq s[i - 1] /\ i - 1 \in 1 .. Len(stack)
          BY <2>4, <3>2, <5>1 DEF Below
        <5> QED
          BY <2>10, <5>1, <5>2
      <4> QED
        BY <4>1, <4>2
    <3> QED
      BY <2>1, <3>1, <3>2 DEF Below
  <2>12. current \notin sunk => stack' = s1
    BY <2>1, <2>2, <2>4, <2>6, <2>7
  <2>13. Positive(filter[current]) => Positive(left)
    BY <2>2, <2>3, <2>4, <2>8, PositiveTail DEF Heads
  <2>14. Heads(left, s1)'
    <3>1. IdealOf(current)' = IdealOf(current)
      BY <2>1 DEF IdealOf
    <3>2. Meets(left, s1)'
      BY <2>1, <2>8, <2>11, <2>12 DEF Meets
    <3> QED
      BY <2>1, <2>8, <2>13, <3>1, <3>2 DEF Heads
  <2> QED
    BY <2>14 DEF OnCourse
<1>5. CASE FilterArrives
  <2>p. PICK query \in Awaited({"filter-set"}), answered \in BOOLEAN :
          /\ todo' = (IF answered THEN Filters[query.name] ELSE NotAny) \o Tail(todo)
          /\ SinkUnless(answered)
    BY <1>5 DEF FilterArrives
  <2>1. pc = "query" /\ UNCHANGED <<filter, current, stack>>
    BY <1>5 DEF FilterArrives, Awaited
  <2>2. query = Head(todo) /\ todo # <<>> /\ query.op = "filter-set"
    BY <1>0, <2>p DEF Collecting, Queries, Awaited
  <2>3. PICK rest \in Seq(Terms), s \in Stack : Heads(rest, s)
    BY <1>0, <2>1 DEF OnCourse
  <2>4. todo = rest /\ Below(stack, s) /\ (current \notin sunk => stack = s)
    <3>1. Term("any", "").op # "filter-set" /\ NotTerm.op # "filter-set"
      BY DEF Term, NotTerm
    <3>2. todo # NotAny \o rest /\ todo # <<NotTerm>> \o rest
      BY <2>2, <2>3, <3>1, NotAnyThen, Zenon
    <3> QED
      BY <2>3, <3>2 DEF Heads, Meets
  <2>5. query \in Terms /\ Tail(todo) \in Seq(Terms)
    BY <1>0, <2>2, HeadTailProperties DEF Shape
  <2>6. query.name \in DOMAIN Filters
    BY <2>2, <2>5 DEF Terms, Operators
  <2>7. PICK w \in SUBSET AnyPrefix : w = FilterSetIdeal[query.name]
    BY <2>6, FilterSetsTyped DEF FilterSetValues
  <2>8. PICK s1 \in Stack : s1 = After(s, Head(todo)) /\ s1 = <<w>> \o s
    <3>1. After(s, Head(todo)) = <<w>> \o s
      BY <2>2, <2>7 DEF After, StackAfter, Operators
    <3> QED
      BY <3>1, Pushed
  <2>9. PICK left \in Seq(Terms) : left = Tail(todo) /\ Leads(s1, left, IdealOf(current))
    BY <2>2, <2>3, <2>4, <2>5, <2>8, LeadsOn DEF Heads
  <2>10. IdealOf(current)' = IdealOf(current)
    BY <2>1 DEF IdealOf
  <2>11. CASE answered
    <3>1. PICK e \in Seq(Terms) : e = Filters[query.name] /\ Parsed(e)
      BY <2>6, ExpressionAssumption DEF Parsed
    <3>2. Leads(<<>>, e, w)
      BY <2>6, <2>7, <3>1, IdealReached, FilterSetsTyped DEF IsMeaning
    <3>3. PICK all \in Seq(Terms) : all = e \o left
      BY ConcatProperties
    <3>4. Leads(s, all, IdealOf(current))
      BY <2>8, <2>9, <3>2, <3>3, LeadsThrough
    <3>5. todo' = all /\ sunk' = sunk
      BY <2>p, <2>9, <2>11, <3>1, <3>3 DEF SinkUnless
    <3>6. Positive(filter[current]) => Positive(all)
      BY <2>2, <2>3, <2>4, <2>6, <2>9, <3>1, <3>3, PositiveThrough DEF Heads
    <3>7. Below(stack, s)'
      BY <2>1, <2>4 DEF Below
    <3>8. Meets(all, s)'
      BY <2>1, <2>4, <3>5, <3>7 DEF Meets
    <3>9. Heads(all, s)'
      BY <2>1, <2>10, <3>4, <3>6, <3>8 DEF Heads
    <3> QED
      BY <3>9 DEF OnCourse
  <2>12. CASE ~answered
    <3>1. todo' = NotAny \o left /\ current' \in sunk'
      BY <2>p, <2>1, <2>9, <2>12 DEF SinkUnless, Sink
    <3>2. stack \in Stack /\ {} \in SUBSET AnyPrefix
      BY <1>0 DEF Shape
    <3>3. /\ Len(<<{}>> \o stack) = Len(stack) + 1 /\ Len(s1) = Len(s) + 1
          /\ (<<{}>> \o stack)[1] = {} /\ s1[1] = w
          /\ \A i \in 1 .. Len(stack) : (<<{}>> \o stack)[i + 1] = stack[i]
          /\ \A i \in 1 .. Len(s) : s1[i + 1] = s[i]
      BY <2>7, <2>8, <3>2, Pushed
    <3>4. Below(<<{}>> \o stack, s1)
      <4>1. Len(<<{}>> \o stack) = Len(s1)
        BY <2>4, <3>3 DEF Below
      <4>2. ASSUME Positive(filter[current]), NEW i \in 1 .. Len(s1)
            PROVE  (<<{}>> \o stack)[i] \subseteq s1[i]
        <5>1. CASE i = 1
          BY <3>3, <5>1
        <5>2. CASE i # 1
          <6>1. i - 1 \in 1 .. Len(s) /\ (i - 1) + 1 = i
            BY <3>3, <5>2, Depth
          <6>2. stack[i - 1] \subseteq s[i - 1] /\ i - 1 \in 1 .. Len(stack)
            BY <2>4, <4>2, <6>1 DEF Below
          <6> QED
            BY <3>3, <6>1, <6>2
        <5> QED
          BY <5>1, <5>2
      <4> QED
        BY <4>1, <4>2 DEF Below
    <3>5. Below(<<{}>> \o stack, s1)'
      BY <2>1, <3>4 DEF Below
    <3>6. Meets(left, s1)'
      BY <3>1, <3>5 DEF Meets
    <3>7. Positive(filter[current]) => Positive(left)
      BY <2>2, <2>3, <2>4, <2>9, PositiveTail DEF Heads
    <3>8. Heads(left, s1)'
      BY <2>1, <2>9, <2>10, <3>6, <3>7 DEF Heads
    <3> QED
      BY <3>8 DEF OnCourse
  <2> QED
    BY <2>11, <2>12
<1>6. CASE Apply
  <2>1. /\ pc = "term" /\ todo # <<>> /\ Head(todo).op \in Operators
        /\ stack' = Applied(Head(todo).op, stack) /\ todo' = Tail(todo)
        /\ UNCHANGED <<filter, current, sunk>>
    BY <1>6 DEF Apply, At
  <2>2. PICK rest \in Seq(Terms), s \in Stack : Heads(rest, s)
    BY <1>0, <2>1 DEF OnCourse
  <2>3. IdealOf(current)' = IdealOf(current) /\ stack \in Stack /\ stack' \in Stack
    BY <1>0, <2>1, ShapeStep DEF IdealOf, Shape
  <2>4. CASE todo = rest /\ Below(stack, s) /\ (current \notin sunk => stack = s)
    <3>1. Head(todo) \in Terms /\ stack' = After(stack, Head(todo))
      BY <2>1, <2>4, HeadTailProperties DEF After, StackAfter, Operators
    <3>2. /\ Arity(Head(todo).op) <= Len(s) /\ Arity(Head(todo).op) <= Len(stack)
          /\ Len(stack) = Len(s)
      BY <2>1, <2>2, <2>4, LeadsOn DEF Heads, Below
    <3>3. PICK s1 \in Stack : s1 = After(s, Head(todo))
      BY <3>1, <3>2, AfterTyped, FilterSetsTyped DEF After
    <3>4. PICK left \in Seq(Terms) : left = Tail(todo) /\ Leads(s1, left, IdealOf(current))
      BY <2>1, <2>2, <2>4, <3>3, LeadsOn, HeadTailProperties DEF Heads
    <3>5. Len(stack') = Len(s1)
      <4>1. Len(stack') = Len(stack) - Arity(Head(todo).op) + 1
        BY <2>3, <3>1, <3>2, AfterTyped, FilterSetsTyped DEF After
      <4>2. Len(s1) = Len(s) - Arity(Head(todo).op) + 1
        BY <3>1, <3>2, <3>3, AfterTyped, FilterSetsTyped DEF After
      <4> QED
        BY <3>2, <4>1, <4>2
    <3>6. ASSUME Positive(filter[current]) PROVE Positive(left) /\ Head(todo).op # "not"
      BY <2>1, <2>2, <2>4, <3>4, <3>6, PositiveTail DEF Heads
    <3>7. ASSUME Positive(filter[current]) PROVE \A i \in 1 .. Len(s1) : stack'[i] \subseteq s1[i]
      <4>1. \A i \in 1 .. Len(s) : stack[i] \subseteq s[i]
        BY <2>4, <3>7 DEF Below
      <4> QED
        BY <2>3, <3>1, <3>2, <3>3, <3>6, <3>7, <4>1, Monotone
    <3>8. Below(stack, s1)'
      BY <2>1, <3>5, <3>7 DEF Below
    <3>9. Meets(left, s1)'
      BY <2>1, <2>4, <3>1, <3>3, <3>4, <3>8 DEF Meets
    <3>10. Heads(left, s1)'
      BY <2>1, <2>3, <3>4, <3>6, <3>9 DEF Heads
    <3> QED
      BY <3>10 DEF OnCourse
  <2>5. CASE current \in sunk /\ todo = NotAny \o rest /\ Below(<<{}>> \o stack, s)
    <3>1. Head(todo).op = "any" /\ todo' = <<NotTerm>> \o rest
      <4>1. Head(todo) = Term("any", "") /\ Tail(todo) = <<NotTerm>> \o rest
        BY <2>5, NotAnyThen, Zenon
      <4>2. Term("any", "").op = "any"
        BY DEF Term
      <4> QED
        BY <2>1, <4>1, <4>2, Zenon
    <3>2. stack' = <<AnyPrefix>> \o stack
      BY <2>1, <3>1 DEF Applied
    <3>3. stack' # <<>> /\ Head(stack') = AnyPrefix /\ Tail(stack') = stack
      BY <2>3, <3>2, Pushed
    <3>4. Below(<<{}>> \o Tail(stack), s)'
      BY <2>1, <2>5, <3>3 DEF Below
    <3>5. Meets(rest, s)'
      BY <2>1, <2>5, <3>1, <3>3, <3>4 DEF Meets
    <3>6. Heads(rest, s)'
      BY <2>1, <2>2, <2>3, <3>5 DEF Heads
    <3> QED
      BY <3>6 DEF OnCourse
  <2>6. CASE /\ current \in sunk /\ todo = <<NotTerm>> \o rest
             /\ stack # <<>> /\ Head(stack) = AnyPrefix /\ Below(<<{}>> \o Tail(stack), s)
    <3>1. Head(todo).op = "not" /\ todo' = rest
      <4>1. Head(todo) = NotTerm /\ Tail(todo) = rest
        BY <2>6, NotAnyThen, Zenon
      <4>2. NotTerm.op = "not"
        BY DEF Term, NotTerm
      <4> QED
        BY <2>1, <4>1, <4>2, Zenon
    <3>2. stack' = <<{}>> \o Tail(stack)
      <4>1. stack' = <<AnyPrefix \ stack[1]>> \o Tail(stack)
        BY <2>1, <3>1 DEF Applied
      <4>2. stack[1] = AnyPrefix
        BY <2>3, <2>6, Popped
      <4> QED
        BY <4>1, <4>2
    <3>3. Below(stack, s)'
      BY <2>1, <2>6, <3>2 DEF Below
    <3>4. Meets(rest, s)'
      BY <2>1, <2>6, <3>1, <3>3 DEF Meets
    <3>5. Heads(rest, s)'
      BY <2>1, <2>2, <2>3, <3>4 DEF Heads
    <3> QED
      BY <3>5 DEF OnCourse
  <2> QED
    BY <2>2, <2>4, <2>5, <2>6 DEF Heads, Meets
<1>7. ASSUME NEW c \in Candidates, Begin(c) PROVE OnCourse'
  <2>1. /\ current' = c /\ todo' = filter[c] /\ stack' = <<>> /\ filter' = filter
    BY <1>7 DEF Begin
  <2>2. PICK e \in Seq(Terms) : e = filter[c] /\ Parsed(e)
    BY <1>0, ExpressionAssumption DEF Shape, Parsed
  <2>3. PICK s \in Stack : s = <<>> /\ Len(s) = 0
    BY EmptySeq DEF Stack
  <2>4. Leads(s, e, IdealOf(current)')
    BY <2>1, <2>2, <2>3, IdealReached DEF IdealOf
  <2>5. Below(stack, s)'
    BY <2>1, <2>3 DEF Below
  <2>6. Meets(e, s)'
    BY <2>1, <2>2, <2>3, <2>5 DEF Meets
  <2>7. Heads(e, s)'
    BY <2>1, <2>2, <2>4, <2>6 DEF Heads
  <2> QED
    BY <2>7 DEF OnCourse
<1>8. CASE UNCHANGED vars
  <2>1. UNCHANGED <<filter, current, todo, stack, pc, sunk>>
    BY <1>8 DEF vars, expression
  <2> QED
    BY <1>0, <2>1, CourseKept DEF OnCourse
<1> QED
  BY <1>1, <1>2, <1>3, <1>4, <1>5, <1>6, <1>7, <1>8 DEF Next, Resolve

(* The queries of a resolver, and what they may bring.                     *)
AsSetQueries == [op : {"as-set"}, name : DOMAIN Members]

LEMMA ValueOfRoutes ==
  ASSUME NEW as \in AutNums
  PROVE  /\ RouteQueries(as) \subseteq Queries
         /\ UNION {Value(query) : query \in RouteQueries(as)} = RoutesOf(as)
<1>1. /\ Value(Term("ipv4-routes", as)) = Routes[Term("ipv4-routes", as)]
      /\ Value(Term("ipv6-routes", as)) = Routes[Term("ipv6-routes", as)]
  BY DEF Value, Term
<1>2. RouteQueries(as) \subseteq Queries
  <2>1. Term("ipv4-routes", as) \in Queries /\ Term("ipv6-routes", as) \in Queries
    BY DEF Term, Queries
  <2> QED
    BY <2>1 DEF RouteQueries
<1> DEFINE v4 == Term("ipv4-routes", as)
           v6 == Term("ipv6-routes", as)
<1>3. RouteQueries(as) = {v4, v6} /\ RoutesOf(as) = Value(v4) \cup Value(v6)
  BY <1>1 DEF RouteQueries, RoutesOf
<1> HIDE DEF v4, v6
<1>4. UNION {Value(query) : query \in {v4, v6}} = Value(v4) \cup Value(v6)
  OBVIOUS
<1> QED
  BY <1>2, <1>3, <1>4

LEMMA InValues ==
  ASSUME NEW Q, NEW p
  PROVE  p \in UNION {Value(x) : x \in Q} <=> \E x \in Q : p \in Value(x)
BY Zenon

LEMMA ValuesOfBoth ==
  ASSUME NEW Q, NEW R
  PROVE  UNION {Value(x) : x \in Q \cup R}
           = (UNION {Value(x) : x \in Q}) \cup (UNION {Value(x) : x \in R})
<1> DEFINE both == UNION {Value(x) : x \in Q \cup R}
           one == UNION {Value(x) : x \in Q}
           other == UNION {Value(x) : x \in R}
<1>1. \A p : p \in both <=> p \in one \/ p \in other
  BY InValues, Zenon
<1> HIDE DEF both, one, other
<1>2. both = one \cup other
  BY <1>1
<1> QED
  BY <1>2, Zenon DEF both, one, other

LEMMA ValuesOfOne ==
  ASSUME NEW Q, NEW query \in Q
  PROVE  UNION {Value(x) : x \in Q}
           = (UNION {Value(x) : x \in Q \ {query}}) \cup Value(query)
<1>1. Q = (Q \ {query}) \cup {query}
  OBVIOUS
<1>2. UNION {Value(x) : x \in {query}} = Value(query)
  OBVIOUS
<1> QED
  BY <1>1, <1>2, ValuesOfBoth, Zenon

(* A response moves prefixes from what is to come to what was found, and   *)
(* drops some only if the candidate is among those that lost a response.   *)
LEMMA CollectingStep == IInv /\ [Next]_vars => Collecting'
<1> SUFFICES ASSUME IInv, [Next]_vars PROVE Collecting'
  OBVIOUS
<1>0. Shape /\ Collecting
  BY DEF IInv
<1>1. CASE Acquire
  <2>1. /\ pc = "term" /\ conn = TRUE /\ todo # <<>> /\ Head(todo).op \in Sets
        /\ UNCHANGED <<filter, sunk>>
    BY <1>0, <1>1 DEF Acquire, At, Shape
  <2>2. /\ pipeline' = FirstQueries(Head(todo)) /\ found' = {}
        /\ UNCHANGED <<current, todo, stack>>
    BY <1>1, <2>1 DEF Acquire, expression
  <2>3. PICK t \in Terms : t = Head(todo)
    BY <1>0, <2>1, HeadTailProperties DEF Shape
  <2>4. CASE t.op = "filter-set"
    <3>1. pipeline' = {t}
      BY <2>2, <2>3, <2>4 DEF FirstQueries
    <3> QED
      BY <2>1, <2>2, <2>3, <2>4, <3>1 DEF Collecting
  <2>5. CASE t.op = "aut-num"
    <3>1. pipeline' = RouteQueries(t.name) /\ Meaning(t) = RoutesOf(t.name)
      BY <2>2, <2>3, <2>5 DEF FirstQueries, Meaning
    <3>2. t.name \in AutNums
      BY <2>5 DEF Terms, Operators
    <3>3. pipeline' \subseteq Queries /\ ToFind' = Meaning(t)
      BY <2>2, <3>1, <3>2, ValueOfRoutes DEF ToFind
    <3> QED
      BY <2>1, <2>2, <2>3, <2>5, <3>3 DEF Collecting
  <2>6. CASE t.op \in {"as-set", "route-set"}
    <3>1. pipeline' = {t}
      BY <2>2, <2>3, <2>6 DEF FirstQueries
    <3>2. t \in Queries \cup AsSetQueries
      BY <2>6 DEF Terms, Operators, Queries, AsSetQueries
    <3>3. Value(t) = Meaning(t)
      BY <2>6 DEF Value, Meaning
    <3>4. ToFind' = Meaning(t)
      BY <2>2, <3>1, <3>3 DEF ToFind
    <3> QED
      BY <2>1, <2>2, <2>3, <2>6, <3>1, <3>2, <3>4 DEF Collecting, AsSetQueries
  <2> QED
    BY <2>1, <2>3, <2>4, <2>5, <2>6 DEF Sets
<1>2. CASE PushFails \/ Finish \/ ResolvePeerAs \/ Release \/ FilterArrives
  <2>1. pc' # "query"
    BY <1>2 DEF PushFails, Finish, ResolvePeerAs, Release, FilterArrives, EndWith
  <2> QED
    BY <2>1 DEF Collecting
<1>3. CASE Apply \/ \E c \in Candidates : Begin(c)
  <2>1. pc' # "query"
    BY <1>3 DEF Apply, At, Begin
  <2> QED
    BY <2>1 DEF Collecting
<1>4. CASE MembersArrive
  <2>1. PICK query \in Awaited({"as-set"}) : \E received \in SUBSET Members[query.name] :
          /\ pipeline' = (pipeline \ {query}) \cup UNION {RouteQueries(as) : as \in received}
          /\ SinkUnless(received = Members[query.name])
          /\ UNCHANGED <<filter, pc, expression, conn, found, outcome>>
    BY <1>4, Zenon DEF MembersArrive
  <2>2. PICK received \in SUBSET Members[query.name] :
          /\ pipeline' = (pipeline \ {query}) \cup UNION {RouteQueries(as) : as \in received}
          /\ SinkUnless(received = Members[query.name])
          /\ UNCHANGED <<filter, pc, expression, conn, found, outcome>>
    BY <2>1
  <2>3. pc = "query" /\ query \in pipeline /\ query.op = "as-set"
    BY <2>1 DEF Awaited
  <2>4. UNCHANGED <<pc, current, todo, found>>
    BY <2>2 DEF expression
  <2>5. CASE Head(todo).op = "filter-set"
    <3>1. query = Head(todo)
      BY <1>0, <2>3, <2>5 DEF Collecting
    <3> QED
      BY <2>3, <2>5, <3>1
  <2>6. CASE Head(todo).op # "filter-set"
    <3>1. /\ todo # <<>> /\ Head(todo).op \in Sets
          /\ pipeline \subseteq Queries \cup AsSetQueries
          /\ ToFind \subseteq Meaning(Head(todo))
          /\ current \notin sunk => Meaning(Head(todo)) \subseteq ToFind
      BY <1>0, <2>3, <2>6 DEF Collecting, AsSetQueries
    <3>2. query.name \in DOMAIN Members /\ Members[query.name] \subseteq AutNums
      BY <2>3, <3>1, RegistryAssumption DEF Queries, AsSetQueries
    <3> DEFINE added == UNION {RouteQueries(as) : as \in received}
               values == UNION {Value(x) : x \in added}
    <3>3. added \subseteq Queries
      BY <2>2, <3>2, ValueOfRoutes
    <3>4. values = UNION {RoutesOf(as) : as \in received}
      <4>1. ASSUME NEW p \in values PROVE p \in UNION {RoutesOf(as) : as \in received}
        <5>1. PICK as \in received : \E x \in RouteQueries(as) : p \in Value(x)
          OBVIOUS
        <5>2. p \in UNION {Value(x) : x \in RouteQueries(as)} /\ as \in AutNums
          BY <2>2, <3>2, <5>1, InValues
        <5>3. p \in RoutesOf(as)
          BY <5>2, ValueOfRoutes
        <5> QED
          BY <5>3
      <4>2. ASSUME NEW p \in UNION {RoutesOf(as) : as \in received} PROVE p \in values
        <5>1. PICK as \in received : p \in RoutesOf(as)
          OBVIOUS
        <5>2. PICK x \in RouteQueries(as) : p \in Value(x)
          <6>1. p \in UNION {Value(x) : x \in RouteQueries(as)}
            BY <2>2, <3>2, <5>1, ValueOfRoutes
          <6> QED
            BY <6>1, InValues, Zenon
        <5>3. x \in added
          BY <5>2
        <5> QED
          BY <5>2, <5>3
      <4> QED
        BY <4>1, <4>2
    <3>5. Value(query) = UNION {RoutesOf(as) : as \in Members[query.name]}
      BY <2>3 DEF Value, Meaning
    <3>6. ToFind' = found \cup (UNION {Value(x) : x \in pipeline \ {query}}) \cup values
      <4>1. pipeline' = (pipeline \ {query}) \cup added /\ found' = found
        BY <2>2
      <4> HIDE DEF added
      <4> QED
        BY <4>1, ValuesOfBoth DEF ToFind
    <3>7. ToFind = found \cup (UNION {Value(x) : x \in pipeline \ {query}}) \cup Value(query)
      BY <2>3, ValuesOfOne DEF ToFind
    <3>8. values \subseteq Value(query)
      BY <2>2, <3>4, <3>5
    <3>9. current \notin sunk' => current \notin sunk /\ values = Value(query)
      BY <2>2, <3>4, <3>5 DEF SinkUnless, Sink
    <3>10. pipeline' \subseteq Queries \cup AsSetQueries
      BY <2>2, <3>1, <3>3
    <3> HIDE DEF values
    <3>11. /\ ToFind' \subseteq Meaning(Head(todo))
           /\ current \notin sunk' => Meaning(Head(todo)) \subseteq ToFind'
      BY <3>1, <3>6, <3>7, <3>8, <3>9
    <3> QED
      BY <2>4, <2>6, <3>1, <3>10, <3>11 DEF Collecting, AsSetQueries
  <2> QED
    BY <2>5, <2>6
<1>5. CASE RoutesArrive
  <2>1. PICK query \in Awaited({"ipv4-routes", "ipv6-routes", "route-set"}) :
           \E received \in SUBSET Routes[query] :
             /\ pipeline' = pipeline \ {query} /\ found' = found \cup received
             /\ SinkUnless(received = Routes[query])
             /\ UNCHANGED <<filter, pc, expression, conn, outcome>>
    BY <1>5, Zenon DEF RoutesArrive
  <2>2. PICK received \in SUBSET Routes[query] :
             /\ pipeline' = pipeline \ {query} /\ found' = found \cup received
             /\ SinkUnless(received = Routes[query])
             /\ UNCHANGED <<filter, pc, expression, conn, outcome>>
    BY <2>1
  <2>3. pc = "query" /\ query \in pipeline /\ query.op \in {"ipv4-routes", "ipv6-routes", "route-set"}
    BY <2>1 DEF Awaited
  <2>4. UNCHANGED <<pc, current, todo>>
    BY <2>2 DEF expression
  <2>5. CASE Head(todo).op = "filter-set"
    <3>1. query = Head(todo)
      BY <1>0, <2>3, <2>5 DEF Collecting
    <3> QED
      BY <2>3, <2>5, <3>1
  <2>6. CASE Head(todo).op # "filter-set"
    <3>1. /\ todo # <<>> /\ Head(todo).op \in Sets
          /\ pipeline \subseteq Queries \cup AsSetQueries
          /\ ToFind \subseteq Meaning(Head(todo))
          /\ current \notin sunk => Meaning(Head(todo)) \subseteq ToFind
      BY <1>0, <2>3, <2>6 DEF Collecting, AsSetQueries
    <3>2. Value(query) = Routes[query]
      BY <2>3 DEF Value
    <3>3. ToFind' = found \cup (UNION {Value(x) : x \in pipeline \ {query}}) \cup received
      BY <2>2 DEF ToFind
    <3>4. ToFind = found \cup (UNION {Value(x) : x \in pipeline \ {query}}) \cup Value(query)
      BY <2>3, ValuesOfOne DEF ToFind
    <3>5. received \subseteq Value(query)
      BY <3>2
    <3>6. current \notin sunk' => current \notin sunk /\ received = Value(query)
      BY <2>2, <3>2 DEF SinkUnless, Sink
    <3>7. /\ ToFind' \subseteq Meaning(Head(todo))
          /\ current \notin sunk' => Meaning(Head(todo)) \subseteq ToFind'
      BY <3>1, <3>3, <3>4, <3>5, <3>6
    <3> QED
      BY <2>2, <2>4, <2>6, <3>1, <3>7 DEF Collecting, AsSetQueries
  <2> QED
    BY <2>5, <2>6
<1>6. CASE UNCHANGED vars
  BY <1>0, <1>6 DEF Collecting, ToFind, vars, expression, queries
<1> QED
  BY <1>1, <1>2, <1>3, <1>4, <1>5, <1>6 DEF Next, Resolve

(* An outcome is what the course has led to.                               *)
LEMMA OutcomesStep == IInv /\ [Next]_vars => ExactUnlessSunk' /\ NeverWider'
<1> SUFFICES ASSUME IInv, [Next]_vars PROVE ExactUnlessSunk' /\ NeverWider'
  OBVIOUS
<1>0. Shape /\ OnCourse /\ ExactUnlessSunk /\ NeverWider
  BY DEF IInv
<1>1. filter' = filter /\ sunk \subseteq sunk'
  <2>1. CASE Acquire \/ PushFails \/ Finish \/ Apply \/ ResolvePeerAs \/ Release
    BY <2>1 DEF Acquire, PushFails, Finish, Apply, ResolvePeerAs, Release
  <2>2. CASE MembersArrive \/ RoutesArrive \/ FilterArrives
    BY <2>2 DEF MembersArrive, RoutesArrive, FilterArrives, SinkUnless, Sink
  <2>3. CASE (\E c \in Candidates : Begin(c)) \/ UNCHANGED vars
    BY <2>3 DEF Begin, vars
  <2> QED
    BY <2>1, <2>2, <2>3 DEF Next, Resolve
<1>2. \A c \in Candidates : IdealOf(c)' = IdealOf(c)
  BY <1>1 DEF IdealOf
<1>3. ASSUME \A c \in Candidates : outcome'[c].status = "ok" => outcome'[c] = outcome[c]
      PROVE  ExactUnlessSunk' /\ NeverWider'
  BY <1>0, <1>1, <1>2, <1>3 DEF ExactUnlessSunk, NeverWider
<1>4. CASE outcome' = [outcome EXCEPT ![current] = Failed]
  <2>1. Failed.status # "ok"
    BY DEF Failed
  <2> QED
    BY <1>0, <1>3, <1>4, <2>1 DEF Shape
<1>5. CASE Acquire \/ PushFails
  BY <1>3, <1>4, <1>5 DEF Acquire, PushFails, EndWith
<1>6. CASE MembersArrive \/ RoutesArrive \/ FilterArrives \/ Release
  BY <1>3, <1>6 DEF MembersArrive, RoutesArrive, FilterArrives, Release
<1>7. CASE Apply \/ ResolvePeerAs \/ (\E c \in Candidates : Begin(c)) \/ UNCHANGED vars
  BY <1>3, <1>7 DEF Apply, ResolvePeerAs, Begin, vars
<1>8. CASE Finish
  <2>1. /\ pc = "term" /\ todo = <<>> /\ sunk' = sunk
        /\ outcome' = [outcome EXCEPT ![current] = Evaluated(Head(stack))]
    BY <1>8 DEF Finish, EndWith
  <2>2. PICK rest \in Seq(Terms), s \in Stack : Heads(rest, s)
    BY <1>0, <2>1 DEF OnCourse
  <2>3. rest = <<>> /\ Below(stack, s) /\ (current \notin sunk => stack = s)
    BY <2>1, <2>2, NotAnyThen DEF Heads, Meets
  <2>4. s = <<IdealOf(current)>>
    BY <2>2, <2>3, LeadsDone DEF Heads
  <2>5. Len(stack) = 1 /\ stack \in Stack /\ stack # <<>>
    <3>1. Len(stack) = 1 /\ stack \in Stack
      BY <1>0, <2>3, <2>4 DEF Below, Shape
    <3> QED
      BY <3>1, Depth
  <2>6. Head(stack) = stack[1]
    BY <2>5, Popped
  <2>7. /\ current \notin sunk => Head(stack) = IdealOf(current)
        /\ Positive(filter[current]) => Head(stack) \subseteq IdealOf(current)
    BY <2>3, <2>4, <2>5, <2>6 DEF Below
  <2>8. /\ outcome'[current] = Evaluated(Head(stack))
        /\ \A c \in Candidates \ {current} : outcome'[c] = outcome[c]
    BY <1>0, <2>1 DEF Shape
  <2>9. Evaluated(Head(stack)).ranges = Head(stack)
    BY DEF Evaluated
  <2>10. ExactUnlessSunk'
    BY <1>0, <1>1, <1>2, <2>1, <2>7, <2>8, <2>9 DEF ExactUnlessSunk
  <2>11. NeverWider'
    BY <1>0, <1>1, <1>2, <2>1, <2>7, <2>8, <2>9 DEF NeverWider
  <2> QED
    BY <2>10, <2>11
<1> QED
  BY <1>5, <1>6, <1>7, <1>8 DEF Next, Resolve

LEMMA IInvAlways == Spec => []IInv
<1>1. Init => IInv
  <2> SUFFICES ASSUME Init PROVE IInv
    OBVIOUS
  <2>1. Shape
    <3>1. <<>> \in Stack /\ <<>> \in Seq(Terms)
      BY EmptySeq DEF Stack
    <3>2. Unevaluated \in [status : {"none", "failed", "ok"}, ranges : SUBSET AnyPrefix]
      BY DEF Unevaluated
    <3>3. outcome \in [Candidates -> [status : {"none", "failed", "ok"}, ranges : SUBSET AnyPrefix]]
      BY <3>2 DEF Init
    <3>4. errors \in 0 .. MaxErrors
      BY RegistryAssumption DEF Init
    <3> QED
      BY <3>1, <3>3, <3>4 DEF Init, Shape
  <2>2. Collecting /\ OnCourse
    BY DEF Init, Collecting, OnCourse
  <2>3. \A c \in Candidates : outcome[c].status # "ok"
    BY DEF Init, Unevaluated
  <2>4. ExactUnlessSunk /\ NeverWider
    BY <2>3 DEF ExactUnlessSunk, NeverWider
  <2> QED
    BY <2>1, <2>2, <2>4 DEF IInv
<1>2. IInv /\ [Next]_vars => IInv'
  BY ShapeStep, CollectingStep, OnCourseStep, OutcomesStep DEF IInv
<1> QED
  BY <1>1, <1>2, PTL DEF Spec

(* A step gives a candidate the outcome Failed only if it is an error of   *)
(* that step.                                                              *)
LEMMA OwnFailure ==
  ASSUME Shape, Next, NEW c \in Candidates,
         outcome'[c] = Failed, outcome[c] # Failed
  PROVE  errors' = errors + 1
<1>1. CASE Acquire
  BY <1>1 DEF Acquire, At, Shape
<1>2. CASE PushFails
  BY <1>2 DEF PushFails
<1>3. CASE Finish
  <2>1. outcome' = [outcome EXCEPT ![current] = Evaluated(Head(stack))]
    BY <1>3 DEF Finish, EndWith
  <2>2. Evaluated(Head(stack)) # Failed
    <3>1. Evaluated(Head(stack)).status # Failed.status
      BY DEF Evaluated, Failed
    <3> QED
      BY <3>1
  <2> QED
    BY <2>1, <2>2 DEF Shape
<1>4. CASE MembersArrive \/ RoutesArrive \/ Release \/ FilterArrives
  BY <1>4 DEF MembersArrive, RoutesArrive, Release, FilterArrives
<1>5. CASE Apply \/ ResolvePeerAs
  BY <1>5 DEF Apply, ResolvePeerAs
<1>6. CASE \E b \in Candidates : Begin(b)
  BY <1>6 DEF Begin
<1> QED
  BY <1>1, <1>2, <1>3, <1>4, <1>5, <1>6 DEF Next, Resolve

----------------------------------------------------------------------------
(* The results. *)

(* The types, and the connection: it is with the evaluator whenever no     *)
(* resolver is at work, and no response is left in it (query.rs:55-64).    *)
THEOREM EvaluatorTyped == Spec => []TypeOK
<1>1. IInv => TypeOK
  <2> SUFFICES ASSUME Shape PROVE TypeOK
    BY DEF IInv
  <2>1. \A i \in DOMAIN stack : stack[i] \subseteq AnyPrefix
    BY LenProperties DEF Shape, Stack
  <2> QED
    BY <2>1 DEF Shape, TypeOK
<1> QED
  BY <1>1, IInvAlways, PTL

(* However the connection went from hand to hand, and whatever evaluations *)
(* before it have lost, a candidate whose queries were all answered gets   *)
(* what its expression stands for, neither more nor less                   *)
(* (query.rs:115-231, eval.rs:39-46).                                      *)
THEOREM ExactResults == Spec => []ExactUnlessSunk
BY IInvAlways, PTL DEF IInv

(* Errors that were dropped (query.rs:101-112, 124, 140-156) never let a   *)
(* route in that an expression without NOT does not stand for.             *)
THEOREM NoWiderResults == Spec => []NeverWider
BY IInvAlways, PTL DEF IInv

(* One failed evaluation never costs another: the evaluator always has its *)
(* connection when the next name is resolved (query.rs:55-64,              *)
(* eval.rs:39-46).                                                         *)
THEOREM FailuresAlone == Spec => FailsAlone
<1>1. IInv /\ [Next]_vars =>
        [\A c \in Candidates :
           outcome'[c] = Failed /\ outcome[c] # Failed => errors' = errors + 1]_vars
  BY OwnFailure DEF IInv
<1> QED
  BY <1>1, IInvAlways, PTL DEF Spec, FailsAlone

=============================================================================
