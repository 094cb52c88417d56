---------------------------- MODULE MCEvaluator -----------------------------
(* An instance of Evaluator for TLC. *)
EXTENDS Evaluator

CONSTANTS a, b, p, q, r

TwoCandidates == {a, b}
ThreePrefixes == {p, q, r}
TwoAutNums    == {"AS1", "AS2"}
OneRouteSet   == {"RS-SET"}

(* AS-SET has two members; p is announced by both, q by one of them, r by  *)
(* none.  The filter-set's filter has a NOT, that of the other has none.   *)
MCMembers == [s \in {"AS-SET"} |-> {"AS1", "AS2"}]

MCRoutes ==
  [t \in Queries |->
     CASE t = Term("ipv4-routes", "AS1") -> {p}
       [] t = Term("ipv6-routes", "AS1") -> {q}
       [] t = Term("ipv4-routes", "AS2") -> {p}
       [] t = Term("ipv6-routes", "AS2") -> {}
       [] OTHER -> {q, r}]

AsSet == Term("as-set", "AS-SET")
AS1   == Term("aut-num", "AS1")
RsSet == Term("route-set", "RS-SET")
And   == Term("and", "")
Or    == Term("or", "")
Not   == Term("not", "")

MCFilters == [f \in {"FLTR-SET", "FLTR-NOT"} |->
                CASE f = "FLTR-SET" -> <<AsSet, RsSet, And>>
                  [] f = "FLTR-NOT" -> <<Term("filter-set", "FLTR-SET"), Not>>]

MCExpressions ==
  {<<AsSet>>,
   <<AS1, RsSet, And>>,
   <<AS1, RsSet, Not, And>>,
   <<Term("filter-set", "FLTR-SET"), AS1, Or>>,
   <<RsSet, Term("filter-set", "FLTR-NOT"), And>>,
   <<AS1, Term("peer-as", ""), Or>>}

=============================================================================
