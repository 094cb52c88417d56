\* With the longest period the backoff is 2, 4, 8, 10; the middle one cuts it
\* off when it first doubles, and the shortest is shorter than MIN_BACKOFF.
CONSTANTS
  Periods = {1, 3, 10}
  MinBackoff = 2
  MaxRun = 5
SPECIFICATION FairSpec
INVARIANTS TypeOK BackoffIsExponential LongerOnlyAfterFirstFailure
PROPERTIES JobsGoOn SignalsAreHandled
CHECK_DEADLOCK FALSE
