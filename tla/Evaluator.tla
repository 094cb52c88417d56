----------------------------- MODULE Evaluator ------------------------------
(***************************************************************************)
(* The evaluation of the candidates' filter expressions: Policies::        *)
(* evaluate in junos-agent/src/policies/eval.rs gives one after the other  *)
(* to RpslEvaluator, lib/src/query.rs, which has one connection to an IRRd *)
(* server for all of them.  A resolver takes the connection out of the     *)
(* evaluator, pipelines its queries, collects what the responses hold,     *)
(* drops the errors among them, and puts the connection back.              *)
(*                                                                         *)
(* An expression is a sequence of terms in postfix order; a prefix is      *)
(* opaque.  How terms combine (rpsl), the connection and its pipelines     *)
(* (irrc) are outside the repository.  Responses come in the order of the  *)
(* queries; what is made of them does not depend on it, and a pipeline is  *)
(* a set of queries here.                                                  *)
(***************************************************************************)
EXTENDS Naturals, Sequences

CONSTANTS Candidates,   \* names of the policies to evaluate
          Expressions,  \* what their filter expressions may be
          AnyPrefix,    \* all prefixes
          AutNums,      \* names of autonomous systems
          RouteSets,    \* names of route-sets
          Members,      \* function: the aut-nums of each as-set
          Routes,       \* function: the prefixes of each query for routes
          Filters,      \* function: the mp-filter of each filter-set
          MaxErrors     \* bound: errors of the connection or the server

Term(op, name) == [op |-> op, name |-> name]
NotAny         == <<Term("any", ""), Term("not", "")>>
Operators      == {"and", "or", "not", "any"}
Sets           == {"as-set", "route-set", "aut-num", "filter-set"}

Queries == [op : {"ipv4-routes", "ipv6-routes"}, name : AutNums]
             \cup [op : {"route-set"}, name : RouteSets]

ASSUME RegistryAssumption ==
  /\ \A set \in DOMAIN Members : Members[set] \subseteq AutNums
  /\ Routes \in [Queries -> SUBSET AnyPrefix]
  /\ MaxErrors \in Nat

(* A parsed expression is a tree, and its terms in postfix order complete  *)
(* it: none lacks an operand, and one value is left.                       *)
Terms == [op : Operators \cup {"peer-as"}, name : {""}]
           \cup [op : {"aut-num"}, name : AutNums]
           \cup [op : {"route-set"}, name : RouteSets]
           \cup [op : {"as-set"}, name : DOMAIN Members]
           \cup [op : {"filter-set"}, name : DOMAIN Filters]

Arity(op) == CASE op \in {"and", "or"} -> 2
               [] op = "not"           -> 1
               [] OTHER                -> 0

Completes(terms) ==
  \E depth \in [0 .. Len(terms) -> 0 .. Len(terms)] :
    /\ depth[0] = 0 /\ depth[Len(terms)] = 1
    /\ \A i \in 1 .. Len(terms) :
         /\ Arity(terms[i].op) <= depth[i - 1]
         /\ depth[i] = depth[i - 1] - Arity(terms[i].op) + 1

Parsed(terms) == terms \in Seq(Terms) /\ Completes(terms)

ASSUME ExpressionAssumption ==
  /\ \A e \in Expressions : Parsed(e)
  /\ \A name \in DOMAIN Filters : Parsed(Filters[name])

VARIABLES
  filter,   \* the filter expression of each candidate
  pc,       \* between candidates, at a term, at its queries, or panicked
  current,  \* the candidate that is evaluated
  todo,     \* terms of its expression that are left
  stack,    \* prefix sets of the terms before, the last one first
  conn,     \* RpslEvaluator::conn is Some
  pipeline, \* queries whose responses are still to come
  found,    \* what the resolver in progress has collected
  outcome,  \* what became of each candidate
  sunk,     \* history: candidates that lost a response to sink_error
  errors

expression == <<current, todo, stack>>
queries    == <<conn, pipeline, found>>
vars       == <<filter, pc, expression, queries, outcome, sunk, errors>>

Unevaluated == [status |-> "none", ranges |-> {}]
Failed      == [status |-> "failed", ranges |-> {}]
Evaluated(ranges) == [status |-> "ok", ranges |-> ranges]

Init ==
  /\ filter \in [Candidates -> Expressions]
  /\ pc = "idle" /\ current \in Candidates /\ todo = <<>> /\ stack = <<>>
  /\ conn = TRUE /\ pipeline = {} /\ found = {}
  /\ outcome = [c \in Candidates |-> Unevaluated]
  /\ sunk = {} /\ errors = 0

----------------------------------------------------------------------------
(* The candidates and the terms of their expressions. *)

(* In the order of a hash map.                                             *)
Begin(c) ==
  /\ pc = "idle" /\ outcome[c] = Unevaluated
  /\ pc' = "term" /\ current' = c /\ todo' = filter[c] /\ stack' = <<>>
  /\ UNCHANGED <<filter, queries, outcome, sunk, errors>>

EndWith(result) ==
  /\ pc' = "idle" /\ outcome' = [outcome EXCEPT ![current] = result]
  /\ todo' = <<>> /\ stack' = <<>> /\ UNCHANGED current

Finish ==
  /\ pc = "term" /\ todo = <<>>
  /\ EndWith(Evaluated(Head(stack)))
  /\ UNCHANGED <<filter, queries, sunk, errors>>

At(ops) == pc = "term" /\ todo # <<>> /\ Head(todo).op \in ops

Applied(op, s) ==
  CASE op = "and" -> <<s[1] \cap s[2]>> \o Tail(Tail(s))
    [] op = "or"  -> <<s[1] \cup s[2]>> \o Tail(Tail(s))
    [] op = "not" -> <<AnyPrefix \ s[1]>> \o Tail(s)
    [] op = "any" -> <<AnyPrefix>> \o s

Apply ==
  /\ At(Operators)
  /\ stack' = Applied(Head(todo).op, stack) /\ todo' = Tail(todo)
  /\ UNCHANGED <<filter, pc, current, queries, outcome, sunk, errors>>

(* unimplemented!() panics, and no candidate gets a result.                *)
ResolvePeerAs ==
  /\ At({"peer-as"})
  /\ pc' = "panicked"
  /\ UNCHANGED <<filter, expression, queries, outcome, sunk, errors>>

----------------------------------------------------------------------------
(* The resolvers of names. *)

(* Mutant: only the routes of one family are asked for. *)
RouteQueries_OneFamily(as) == {Term("ipv4-routes", as)}

RouteQueries(as) == {Term("ipv4-routes", as), Term("ipv6-routes", as)}

(* A set is asked for its members, or its object, by its name.             *)
FirstQueries(term) == IF term.op = "aut-num" THEN RouteQueries(term.name) ELSE {term}

(* with_connection takes the connection, and the first queries go out; or  *)
(* there is none, AcquireConnection.                                       *)
Acquire ==
  /\ At(Sets)
  /\ IF conn
     THEN /\ pc' = "query" /\ conn' = FALSE
          /\ pipeline' = FirstQueries(Head(todo)) /\ found' = {}
          /\ UNCHANGED <<expression, outcome>>
     ELSE EndWith(Failed) /\ UNCHANGED queries
  /\ UNCHANGED <<filter, sunk, errors>>

(* Mutant: with_connection returns early when the closure fails. *)
PushFails_KeepsConnection ==
  /\ At(Sets) /\ conn
  /\ errors < MaxErrors /\ errors' = errors + 1
  /\ conn' = FALSE
  /\ EndWith(Failed)
  /\ UNCHANGED <<filter, pipeline, found, sunk>>

(* A query cannot be sent: with_connection puts the connection back and    *)
(* the error is the evaluation's.                                          *)
PushFails ==
  /\ At(Sets) /\ conn
  /\ errors < MaxErrors /\ errors' = errors + 1
  /\ EndWith(Failed)
  /\ UNCHANGED <<filter, queries, sunk>>

(* sink_error() drops an error, whichever it is.                           *)
Sink ==
  /\ errors < MaxErrors /\ errors' = errors + 1
  /\ sunk' = sunk \cup {current}

SinkUnless(all) == IF all THEN UNCHANGED <<sunk, errors>> ELSE Sink

Awaited(ops) == {query \in pipeline : pc = "query" /\ query.op \in ops}

(* Each member that arrives adds the two queries for its routes.           *)
MembersArrive ==
  \E query \in Awaited({"as-set"}) : \E received \in SUBSET Members[query.name] :
    /\ pipeline' = (pipeline \ {query}) \cup UNION {RouteQueries(as) : as \in received}
    /\ SinkUnless(received = Members[query.name])
    /\ UNCHANGED <<filter, pc, expression, conn, found, outcome>>

RoutesArrive ==
  \E query \in Awaited({"ipv4-routes", "ipv6-routes", "route-set"}) :
  \E received \in SUBSET Routes[query] :
    /\ pipeline' = pipeline \ {query} /\ found' = found \cup received
    /\ SinkUnless(received = Routes[query])
    /\ UNCHANGED <<filter, pc, expression, conn, outcome>>

(* All responses are in: the connection is put back, the term has a value. *)
Release ==
  /\ pc = "query" /\ pipeline = {}
  /\ pc' = "term" /\ conn' = TRUE
  /\ stack' = <<found>> \o stack /\ todo' = Tail(todo)
  /\ UNCHANGED <<filter, current, pipeline, found, outcome, sunk, errors>>

(* Mutant: without an answer a filter-set is no restriction. *)
FilterArrives_OrAny ==
  \E query \in Awaited({"filter-set"}), answered \in BOOLEAN :
    /\ todo' = (IF answered THEN Filters[query.name] ELSE <<Term("any", "")>>) \o Tail(todo)
    /\ SinkUnless(answered)
    /\ pc' = "term" /\ conn' = TRUE /\ pipeline' = {}
    /\ UNCHANGED <<filter, current, stack, found, outcome>>

(* Mutant: the responses that are left over stay in the connection. *)
FilterArrives_LeavesResponses ==
  \E query \in Awaited({"filter-set"}), answered \in BOOLEAN :
    /\ todo' = (IF answered THEN Filters[query.name] ELSE NotAny) \o Tail(todo)
    /\ SinkUnless(answered)
    /\ pc' = "term" /\ conn' = TRUE
    /\ UNCHANGED <<filter, current, stack, pipeline, found, outcome>>

(* A filter-set resolves to an expression, evaluated in its place; to NOT  *)
(* ANY if there is no object, or none of the class with an mp-filter.      *)
FilterArrives ==
  \E query \in Awaited({"filter-set"}), answered \in BOOLEAN :
    /\ todo' = (IF answered THEN Filters[query.name] ELSE NotAny) \o Tail(todo)
    /\ SinkUnless(answered)
    /\ pc' = "term" /\ conn' = TRUE /\ pipeline' = {}
    /\ UNCHANGED <<filter, current, stack, found, outcome>>

Resolve == Acquire \/ PushFails \/ MembersArrive \/ RoutesArrive
             \/ Release \/ FilterArrives
Next    == Resolve \/ Finish \/ Apply \/ ResolvePeerAs \/ \E c \in Candidates : Begin(c)
Spec    == Init /\ [][Next]_vars

----------------------------------------------------------------------------
(* The prefixes a term stands for when every query is answered in full.    *)
RoutesOf(as) == Routes[Term("ipv4-routes", as)] \cup Routes[Term("ipv6-routes", as)]

(* Nothing has the value of PeerAS.                                        *)
Meaning(term) ==
  CASE term.op = "as-set"    -> UNION {RoutesOf(as) : as \in Members[term.name]}
    [] term.op = "aut-num"   -> RoutesOf(term.name)
    [] term.op = "route-set" -> Routes[term]
    [] term.op = "peer-as"   -> {}

(* And an expression, with a value for each filter-set.                    *)
StackAfter(s, term, filterSet) ==
  CASE term.op \in Operators   -> Applied(term.op, s)
    [] term.op = "filter-set"  -> <<filterSet[term.name]>> \o s
    [] OTHER                   -> <<Meaning(term)>> \o s

Stacks(terms, filterSet) ==
  LET after[i \in 0 .. Len(terms)] ==
        IF i = 0 THEN <<>> ELSE StackAfter(after[i - 1], terms[i], filterSet)
  IN after

Ideal(terms, filterSet) == Head(Stacks(terms, filterSet)[Len(terms)])

(* The values of the filter-sets are those of their filters.  There are    *)
(* such values, whatever they are, if no filter-set refers to itself.      *)
IsMeaning(filterSet) ==
  \A name \in DOMAIN Filters : filterSet[name] = Ideal(Filters[name], filterSet)

FilterSetValues == [DOMAIN Filters -> SUBSET AnyPrefix]
ASSUME MeaningAssumption == \E filterSet \in FilterSetValues : IsMeaning(filterSet)

FilterSetIdeal == CHOOSE filterSet \in FilterSetValues : IsMeaning(filterSet)

IdealOf(c) == Ideal(filter[c], FilterSetIdeal)

(* No NOT in an expression or in a filter-set it may come to.              *)
WithoutNot(terms, filterSets) ==
  \A i \in DOMAIN terms :
    /\ terms[i].op # "not"
    /\ terms[i].op = "filter-set" => terms[i].name \in filterSets

Positive(terms) ==
  \E filterSets \in SUBSET DOMAIN Filters :
    /\ WithoutNot(terms, filterSets)
    /\ \A name \in filterSets : WithoutNot(Filters[name], filterSets)

(* Type invariant.  The connection is with the evaluator or with a         *)
(* resolver, which leaves no response behind.                              *)
TypeOK ==
  /\ filter \in [Candidates -> Expressions] /\ current \in Candidates
  /\ pc \in {"idle", "term", "query", "panicked"}
  /\ conn = (pc # "query") /\ (pc # "query" => pipeline = {})
  /\ found \subseteq AnyPrefix /\ \A i \in DOMAIN stack : stack[i] \subseteq AnyPrefix
  /\ outcome \in [Candidates -> [status : {"none", "failed", "ok"}, ranges : SUBSET AnyPrefix]]
  /\ sunk \subseteq Candidates /\ errors \in 0 .. MaxErrors

(* An evaluation fails by an error of its own, never because an earlier    *)
(* one has failed and left the evaluator without its connection            *)
(* (query.rs:55-64, eval.rs:39-46).                                        *)
FailsAlone ==
  [][\A c \in Candidates :
       outcome'[c] = Failed /\ outcome[c] # Failed => errors' = errors + 1]_vars

(* A candidate whose queries were all answered gets exactly what its       *)
(* expression stands for, whatever was lost in the evaluations before it   *)
(* and however often the connection changed hands (query.rs:115-231).      *)
ExactUnlessSunk ==
  \A c \in Candidates :
    outcome[c].status = "ok" /\ c \notin sunk => outcome[c].ranges = IdealOf(c)

(* Errors that are dropped take prefixes away and add none, also where a   *)
(* filter-set becomes NOT ANY - but below a NOT, where less is more        *)
(* (query.rs:101-112 and 156).                                             *)
NeverWider ==
  \A c \in Candidates :
    outcome[c].status = "ok" /\ Positive(filter[c]) =>
      outcome[c].ranges \subseteq IdealOf(c)

=============================================================================
