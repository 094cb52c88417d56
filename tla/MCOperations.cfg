\* Any one or two capabilities missing: both alternatives of a requirement.
CONSTANT MaxMissing = 2
SPECIFICATION Spec
INVARIANTS TypeOK OnlyAdvertised Harmless
PROPERTY NothingLost
CHECK_DEADLOCK FALSE
