\* Two policies of one family, any evaluation, one edit or change, two failures.
CONSTANTS
  a = a
  b = b
  inet = inet
  inet6 = inet6
  p = p
  q = q
  Names <- TwoPolicies
  Families <- OneFamily
  Ranges <- TwoRanges
  Results <- AnyResult
  MaxChanges = 1
  MaxFaults = 2
SPECIFICATION FairSpec
INVARIANT TypeOK
PROPERTIES CommitIsExact OnlyUnaskedIsDeleted ConvergesOrSticks
