\* One policy of two families; an expression may have no ranges in a family.
CONSTANTS
  a = a
  b = b
  inet = inet
  inet6 = inet6
  p = p
  q = q
  Names <- OnePolicy
  Families <- TwoFamilies
  Ranges <- OneRange
  Results <- AnyResult
  MaxChanges = 1
  MaxFaults = 0
SPECIFICATION FairSpec
PROPERTY Convergence
