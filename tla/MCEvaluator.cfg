\* Two candidates with any two expressions, any two errors.
CONSTANTS
  a = a
  b = b
  p = p
  q = q
  r = r
  Candidates <- TwoCandidates
  Expressions <- MCExpressions
  AnyPrefix <- ThreePrefixes
  AutNums <- TwoAutNums
  RouteSets <- OneRouteSet
  Members <- MCMembers
  Routes <- MCRoutes
  Filters <- MCFilters
  MaxErrors = 2
SPECIFICATION Spec
INVARIANTS TypeOK ExactUnlessSunk NeverWider
PROPERTY FailsAlone
CHECK_DEADLOCK FALSE
